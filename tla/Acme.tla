-------------------------------- MODULE Acme --------------------------------
(***************************************************************************)
(* Certificate renewal (acme.rs) and the HTTPS listener that serves what   *)
(* it writes (run_https_listener, main.rs).  A background worker checks    *)
(* the certificate on start, periodically and when an administrator        *)
(* triggers a renewal; an issuance provisions one challenge per domain,    *)
(* removes them again, and writes fullchain.pem and then privkey.pem; the  *)
(* listener is notified over a watch channel and reloads both files.       *)
(*                                                                         *)
(* A challenge is answered by this process (http-01) or by a record at a   *)
(* DNS provider (dns-01), whose calls may fail, after the record was made  *)
(* too.  A record that is left is not looked at again: the next order has  *)
(* other values.                                                           *)
(*                                                                         *)
(* A certificate and its key are the number of the issuance they are from. *)
(***************************************************************************)
EXTENDS Integers, Sequences, FiniteSets, SequencesExt

CONSTANTS
    Triggers,   \* administrators' calls of trigger_renewal
    Domains,    \* the configured domains
    MaxIssue,   \* bound on issuances
    MaxCrashes, \* bound on restarts
    None

ASSUME AcmeAssumption ==
    MaxIssue \in Nat /\ MaxCrashes \in Nat /\ None \notin Nat

VARIABLES
    worker,      \* phase of the background task
    provisioned, \* domains whose challenge this issuance set up, in order
    method,      \* acme.challenge
    challenges,  \* domains whose challenge is answered: AcmeManager.challenges or DNS
    leftover,    \* history: records of this order that a fault has left
    running,     \* AcmeStatus.running
    queue,       \* messages in the trigger channel (capacity 1)
    trigger,     \* phase of each trigger_renewal call
    cert, key,   \* fullchain.pem and privkey.pem
    due,         \* is the certificate within renew_before_days of its expiry
    issued,      \* issuances so far
    crashes,     \* restarts so far
    generation,  \* the watch channel's version
    https,       \* the listener: phase, version seen, file read, pair served
    silent       \* history: the key was installed without a notification

answers == <<challenges, leftover, method>>
disk == <<cert, key, due, issued, crashes, silent>>
status == <<running, queue, trigger>>
acmevars == <<worker, provisioned, challenges, leftover, method, running, queue, trigger,
              cert, key, due, issued, crashes, generation, https, silent>>

WorkerPhases == {"start", "wait", "check", "provision", "finalize",
                 "cleanupOk", "cleanupErr", "writeCert", "writeKey", "failed"}
Listener == [phase : {"start", "readCert", "readKey", "waiting", "serving"},
             seen : Nat, read : {None} \cup Nat, served : {None} \cup Nat]

AcmeTypeOK ==
    /\ worker \in WorkerPhases
    /\ provisioned \in Seq(Domains) /\ IsInjective(provisioned)
    /\ method \in {"http-01", "dns-01"}
    /\ challenges \subseteq Domains /\ leftover \subseteq Domains
    /\ running \in BOOLEAN /\ queue \in 0..1
    /\ trigger \in [Triggers -> {"idle", "clear", "sent"}]
    /\ cert \in {None} \cup 1..MaxIssue /\ key \in {None} \cup 1..MaxIssue
    /\ due \in BOOLEAN /\ issued \in 0..MaxIssue /\ crashes \in 0..MaxCrashes
    /\ generation \in Nat /\ https \in Listener
    /\ silent \in BOOLEAN

Listening == [phase |-> "start", seen |-> 0, read |-> None, served |-> None]

AcmeInit ==
    /\ method \in {"http-01", "dns-01"}
    /\ worker = "start" /\ provisioned = <<>> /\ challenges = {} /\ leftover = {}
    /\ running = FALSE /\ queue = 0 /\ trigger = [t \in Triggers |-> "idle"]
    /\ cert = None /\ key = None /\ due = TRUE /\ issued = 0 /\ crashes = 0
    /\ generation = 0 /\ https = Listening /\ silent = FALSE

-----------------------------------------------------------------------------
(* trigger_renewal: three steps, since the status lock is released between  *)
(* reading running and writing it.                                          *)

TriggerCheck(t) ==
    /\ trigger[t] = "idle" /\ ~running
    /\ trigger' = [trigger EXCEPT ![t] = "clear"]
    /\ UNCHANGED <<worker, provisioned, answers, running, queue, disk, generation, https>>

\* try_send; a full channel is the "already queued" error.
TriggerSend(t) ==
    /\ trigger[t] = "clear"
    /\ IF queue = 0
       THEN queue' = 1 /\ trigger' = [trigger EXCEPT ![t] = "sent"]
       ELSE queue' = queue /\ trigger' = [trigger EXCEPT ![t] = "idle"]
    /\ UNCHANGED <<worker, provisioned, answers, running, disk, generation, https>>

TriggerMark(t) ==
    /\ trigger[t] = "sent"
    /\ running' = TRUE
    /\ trigger' = [trigger EXCEPT ![t] = "idle"]
    /\ UNCHANGED <<worker, provisioned, answers, queue, disk, generation, https>>

-----------------------------------------------------------------------------
(* The worker.                                                              *)

\* The interval elapses (or the worker starts): refresh(false).  A
\* certificate that is not due is left alone.
Tick ==
    /\ worker \in {"start", "wait"}
    /\ worker' = IF cert # None /\ ~due THEN "wait" ELSE "check"
    /\ UNCHANGED <<provisioned, answers, status, disk, generation, https>>

\* A trigger arrives: refresh(true).
Receive ==
    /\ worker = "wait" /\ queue = 1
    /\ queue' = 0 /\ worker' = "check"
    /\ UNCHANGED <<provisioned, answers, running, trigger, disk, generation, https>>

\* The status says running before issue_certificate orders.
Order ==
    /\ worker = "check"
    /\ running' = TRUE /\ worker' = "provision"
    /\ challenges' = {} /\ leftover' = {}
    /\ UNCHANGED <<method, provisioned, queue, trigger, disk, generation, https>>

\* The challenge of the next domain is set up.
Provision(d) ==
    /\ worker = "provision" /\ d \notin ToSet(provisioned)
    /\ challenges' = challenges \cup {d}
    /\ provisioned' = Append(provisioned, d)
    /\ UNCHANGED <<worker, leftover, method, status, disk, generation, https>>

\* The provider makes the record and its answer is lost: there is no handle
\* to remove it by.
PresentLost(d) ==
    /\ method = "dns-01" /\ worker = "provision" /\ d \notin ToSet(provisioned)
    /\ challenges' = challenges \cup {d} /\ leftover' = leftover \cup {d}
    /\ worker' = "cleanupErr"
    /\ UNCHANGED <<method, provisioned, status, disk, generation, https>>

\* The pending authorizations (one that is already valid needs no challenge)
\* are set ready, and the order is polled and finalized.
Finalize ==
    /\ worker = "provision"
    /\ worker' = "cleanupOk"
    /\ UNCHANGED <<provisioned, answers, status, disk, generation, https>>

\* The authorizations, or the order, fail.
OrderFails ==
    /\ worker = "provision"
    /\ worker' = "cleanupErr"
    /\ UNCHANGED <<provisioned, answers, status, disk, generation, https>>

\* Challenges are removed in reverse order, whatever the outcome.
Cleanup ==
    /\ worker \in {"cleanupOk", "cleanupErr"} /\ provisioned # <<>>
    /\ challenges' = challenges \ {Last(provisioned)}
    /\ provisioned' = Front(provisioned)
    /\ UNCHANGED <<worker, leftover, method, status, disk, generation, https>>

\* Mutant: the first failure ends the removal.
CleanupStops ==
    /\ method = "dns-01"
    /\ worker \in {"cleanupOk", "cleanupErr"} /\ provisioned # <<>>
    /\ leftover' = leftover \cup {Last(provisioned)}
    /\ provisioned' = <<>>
    /\ UNCHANGED <<worker, challenges, method, status, disk, generation, https>>

\* The provider does not remove its record: the next one is tried.
CleanupFails ==
    /\ method = "dns-01"
    /\ worker \in {"cleanupOk", "cleanupErr"} /\ provisioned # <<>>
    /\ leftover' = leftover \cup {Last(provisioned)}
    /\ provisioned' = Front(provisioned)
    /\ UNCHANGED <<worker, challenges, method, status, disk, generation, https>>

CleanupDone ==
    /\ worker \in {"cleanupOk", "cleanupErr"} /\ provisioned = <<>>
    /\ worker' = IF worker = "cleanupOk" THEN "writeCert" ELSE "failed"
    /\ UNCHANGED <<provisioned, answers, status, disk, generation, https>>

\* atomic_write of fullchain.pem, or its failure.
WriteCert ==
    /\ worker = "writeCert"
    /\ \/ /\ issued < MaxIssue
          /\ issued' = issued + 1 /\ cert' = issued + 1 /\ due' = FALSE
          /\ worker' = "writeKey"
       \/ worker' = "failed" /\ UNCHANGED <<issued, cert, due>>
    /\ UNCHANGED <<provisioned, answers, status, key, crashes, generation, https, silent>>

\* atomic_write of privkey.pem, the notification and the status.
WriteKey ==
    /\ worker = "writeKey"
    /\ key' = issued /\ silent' = FALSE
    /\ generation' = generation + 1
    /\ running' = FALSE /\ worker' = "wait"
    /\ UNCHANGED <<provisioned, answers, queue, trigger, cert, due, issued, crashes, https>>

\* The write fails, before the file is renamed or (setting its permissions)
\* after it: the listener is not notified of a key that is in place.
WriteKeyFails ==
    /\ worker = "writeKey"
    /\ worker' = "failed"
    /\ \/ UNCHANGED <<key, silent>>
       \/ key' = issued /\ silent' = TRUE
    /\ UNCHANGED <<provisioned, answers, status, cert, due, issued, crashes, generation, https>>

\* The error is recorded and the worker waits again.
Failed ==
    /\ worker = "failed"
    /\ running' = FALSE /\ worker' = "wait"
    /\ UNCHANGED <<provisioned, answers, queue, trigger, disk, generation, https>>

-----------------------------------------------------------------------------
(* The listener.  It subscribes before its first attempt to load the files. *)

Subscribe ==
    /\ https.phase = "start"
    /\ https' = [https EXCEPT !.phase = "readCert", !.seen = generation]
    /\ UNCHANGED <<worker, provisioned, answers, status, disk, generation>>

ReadCert ==
    /\ https.phase = "readCert"
    /\ https' = [https EXCEPT !.phase = "readKey", !.read = cert]
    /\ UNCHANGED <<worker, provisioned, answers, status, disk, generation>>

\* Mutant: the notification is marked seen after the load, not before it.
ReadKeyThenMark ==
    /\ https.phase = "readKey"
    /\ https' = IF https.read # None /\ https.read = key
                THEN [https EXCEPT !.phase = "serving", !.served = key,
                                   !.read = None, !.seen = generation]
                ELSE [https EXCEPT !.read = None, !.seen = generation,
                         !.phase = IF https.served = None THEN "waiting" ELSE "serving"]
    /\ UNCHANGED <<worker, provisioned, answers, status, disk, generation>>

\* Mutant: a load that fails drops the pair being served.
ReadKeyOrDrop ==
    /\ https.phase = "readKey"
    /\ https' = IF https.read # None /\ https.read = key
                THEN [https EXCEPT !.phase = "serving", !.served = key, !.read = None]
                ELSE [https EXCEPT !.phase = "waiting", !.served = None, !.read = None]
    /\ UNCHANGED <<worker, provisioned, answers, status, disk, generation>>

\* Missing files, or a key that is not the certificate's, are an error: the
\* previous pair is kept, or the listener goes on waiting for the first.
ReadKey ==
    /\ https.phase = "readKey"
    /\ https' = IF https.read # None /\ https.read = key
                THEN [https EXCEPT !.phase = "serving", !.served = key, !.read = None]
                ELSE [https EXCEPT !.read = None,
                         !.phase = IF https.served = None THEN "waiting" ELSE "serving"]
    /\ UNCHANGED <<worker, provisioned, answers, status, disk, generation>>

\* certificate_updates.changed()
Renewed ==
    /\ https.phase \in {"waiting", "serving"} /\ https.seen # generation
    /\ https' = [https EXCEPT !.phase = "readCert", !.seen = generation]
    /\ UNCHANGED <<worker, provisioned, answers, status, disk, generation>>

-----------------------------------------------------------------------------
(* Time and crashes.                                                        *)

\* The certificate comes within renew_before_days of its expiry.
BecomesDue ==
    /\ cert # None /\ ~due
    /\ due' = TRUE
    /\ UNCHANGED <<worker, provisioned, answers, status, cert, key, issued, crashes, generation, https, silent>>

\* The process stops and is started again: only the files stay, and the
\* records, which nothing removes.
Crash ==
    /\ crashes < MaxCrashes /\ crashes' = crashes + 1
    /\ worker' = "start" /\ provisioned' = <<>>
    /\ challenges' = (IF method = "dns-01" THEN challenges ELSE {}) /\ leftover' = challenges'
    /\ running' = FALSE /\ queue' = 0 /\ trigger' = [t \in Triggers |-> "idle"]
    /\ generation' = 0 /\ https' = Listening /\ silent' = FALSE
    /\ UNCHANGED <<method, cert, key, due, issued>>

Worker == \/ Tick \/ Receive \/ Order \/ (\E d \in Domains : Provision(d)) \/ Finalize
          \/ Cleanup \/ CleanupDone \/ WriteCert \/ WriteKey \/ Failed

HttpsListener == Subscribe \/ ReadCert \/ ReadKey \/ Renewed

AcmeNext ==
    \/ \E t \in Triggers : TriggerCheck(t) \/ TriggerSend(t) \/ TriggerMark(t)
    \/ Worker \/ OrderFails \/ CleanupFails \/ (\E d \in Domains : PresentLost(d)) \/ WriteKeyFails \/ HttpsListener
    \/ BecomesDue \/ Crash

AcmeSpec == AcmeInit /\ [][AcmeNext]_acmevars

\* The runtime polls the worker and the listener.
AcmeFairSpec == AcmeSpec /\ WF_acmevars(Worker) /\ WF_acmevars(HttpsListener)

-----------------------------------------------------------------------------
(* What renewal promises.                                                   *)

\* However an issuance ends, its challenges are gone when the worker writes
\* the certificate or waits again: all of those answered here, and of the
\* records at a DNS provider all but those whose own call failed or that a
\* stop has orphaned.
ChallengesCleared ==
    worker \notin {"provision", "cleanupOk", "cleanupErr"} =>
        challenges \subseteq (IF method = "dns-01" THEN leftover ELSE {})

\* "renewed certificates are hot-reloaded": a pair that is completely on disk,
\* unless its issuance failed after the last rename, is served, or another
\* issuance follows; in particular the listener misses no notification
\* between a failed load and its wait.
PairServed ==
    \A g \in 1..MaxIssue :
        (cert = g /\ key = g /\ ~silent) ~> (https.served = g \/ cert # g)

\* The listener never serves a certificate with another one's key, though it
\* reads the two files in two steps.  A pair once served is never replaced by
\* an older one while the listener runs.
NeverOlder ==
    [][https.served # None /\ https'.served # https.served =>
         \/ https' = Listening
         \/ https'.served # None /\ https'.served > https.served]_acmevars

=============================================================================
