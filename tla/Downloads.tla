------------------------------ MODULE Downloads ------------------------------
(***************************************************************************)
(* Custom downloads (download.rs, database/download.rs): a request is      *)
(* authorised, takes a permit, follows redirects, and a spawned worker     *)
(* then hands the body to the client part by part, rechecking the policy   *)
(* for each part.  Administrators change the policy concurrently: every    *)
(* such handler commits to the database first and signals the transfers    *)
(* registered in the Runtime afterwards, in a second step.                 *)
(*                                                                         *)
(* Bytes are counted in parts (64 KiB in the code).  A database query or   *)
(* transaction is one step; any of them may fail.  Domains are compared    *)
(* for equality, which stands for the exact and the subdomain match.       *)
(***************************************************************************)
EXTENDS Integers, FiniteSets, FiniteSetsExt

CONSTANTS
    Downloads,   \* request handlers and the worker each may spawn
    Admins,      \* policy handlers that may run at the same time
    Users,
    Tokens,      \* download tokens, each issued and revoked at most once
    Owner,       \* the user of each token
    Hosts,
    Configs,     \* download sections, records [enabled, slots, userSlots]
    MaxHops,     \* hosts visited for one request (6 in the code)
    FileLimit,   \* max_file_bytes, in parts
    MaxSize,     \* bound on the upstream's body, in parts
    DailyLimit,  \* daily_user_bytes, in parts
    None

Config == [enabled : BOOLEAN, slots : Nat, userSlots : Nat]

ASSUME DownloadsAssumption ==
    /\ IsFiniteSet(Downloads)
    /\ Owner \in [Tokens -> Users] /\ Configs \subseteq Config
    /\ MaxHops \in Nat /\ FileLimit \in Nat /\ MaxSize \in Nat
    /\ DailyLimit \in Nat
    /\ None \notin Downloads /\ None \notin {"clean", "error"}

VARIABLES
    dl,       \* the requests and their workers
    token,    \* download_tokens
    allowed,  \* users whose permission rules allow downloads
    blocked,  \* download_blocks
    cfg,      \* the download section of the configuration in memory
    admin,    \* what each policy handler still has to do
    pace,     \* holder of the throttle's lock
    used,     \* download_usage: parts charged to each user today
    silent    \* history: hosts blocked by a handler that was dropped before
              \* it signalled anyone

policy == <<token, allowed, blocked, cfg, admin, silent>>
vars == <<dl, token, allowed, blocked, cfg, admin, pace, used, silent>>

\* Handler phases before the permit, with it, and the worker's phases.
Outside == {"idle", "ready", "acquire", "ended"}
Connecting == {"hop", "check", "fetch"}
Recording == {"event", "refused"}
Working == {"chunk", "part", "hosts", "throttle", "pacing", "reauth",
            "charge", "send"}

Idle == [phase |-> "idle"]

Download ==
    {Idle} \cup
    [phase : (Outside \cup Connecting \cup Recording \cup Working \cup {"failing"})
                \ {"idle"},
     token : Tokens, config : {None} \cup Configs,
     hosts : SUBSET Hosts,         \* registered in the Runtime
     host : {None} \cup Hosts,     \* the one being checked or fetched
     passed : SUBSET Hosts,        \* found not blocked
     hops : Nat, cancel : BOOLEAN,
     size : 0..MaxSize, sent : 0..MaxSize, late : 0..MaxSize,
     queue : 0..1, got : 0..MaxSize,
     client : {"reading", "gone"}, failed : BOOLEAN,
     end : {None, "clean", "error"}]

\* What a policy handler still has to do after its commit.
Pending ==
    {None} \cup [op : {"domain"}, host : Hosts] \cup [op : {"user"}, user : Users]
    \cup [op : {"all"}]
    \cup [op : {"cancel", "write"}, config : Configs, again : BOOLEAN]

ASSUME NoneAssumption == None \notin [op : {"domain"}, host : Hosts]

TypeOK ==
    /\ dl \in [Downloads -> Download]
    /\ token \in [Tokens -> {"none", "valid", "revoked"}]
    /\ allowed \subseteq Users /\ blocked \subseteq Hosts
    /\ cfg \in Configs
    /\ admin \in [Admins -> Pending]
    /\ pace \in {None} \cup {d \in Downloads : dl[d].phase = "pacing"}
    /\ used \in [Users -> Nat]
    /\ silent \subseteq blocked

Init ==
    /\ dl = [d \in Downloads |-> Idle]
    /\ token = [t \in Tokens |-> "none"]
    /\ allowed = Users /\ blocked = {}
    /\ cfg \in Configs
    /\ admin = [a \in Admins |-> None]
    /\ pace = None
    /\ used = [u \in Users |-> 0]
    /\ silent = {}

-----------------------------------------------------------------------------
(* The Runtime: permits and cancellation.                                   *)

Active == {d \in Downloads : dl[d].phase \notin Outside}

UserOf(d) == Owner[dl[d].token]

\* Mutant: the token's row is not looked at.
PermittedOnly(t) == token[t] # "none" /\ Owner[t] \in allowed

\* authenticate_download_token: the token's row, then the owner's permission
\* (two queries, one step here).
Authenticated(t) == token[t] = "valid" /\ Owner[t] \in allowed

Signal(S) == [d \in Downloads |->
                 IF d \in S THEN [dl[d] EXCEPT !.cancel = TRUE] ELSE dl[d]]

\* d goes to phase p and nothing else changes.
Goto(d, p) ==
    /\ dl' = [dl EXCEPT ![d].phase = p]
    /\ UNCHANGED <<policy, pace, used>>

-----------------------------------------------------------------------------
(* run_request and upstream.                                                *)

\* authorize.
Authorize(d, t) ==
    /\ dl[d] = Idle
    /\ cfg.enabled /\ Authenticated(t)
    /\ dl' = [dl EXCEPT ![d] =
          [phase |-> "ready", token |-> t, config |-> None, hosts |-> {},
           host |-> None, passed |-> {}, hops |-> 0, cancel |-> FALSE,
           size |-> 0, sent |-> 0, late |-> 0, queue |-> 0, got |-> 0,
           client |-> "reading", failed |-> FALSE, end |-> None]]
    /\ UNCHANGED <<policy, pace, used>>

Snapshot(d) ==
    /\ dl[d].phase = "ready"
    /\ dl' = [dl EXCEPT ![d] = [@ EXCEPT !.phase = "acquire", !.config = cfg]]
    /\ UNCHANGED <<policy, pace, used>>

\* Runtime::acquire, with the limits of the snapshot.
Acquire(d) ==
    /\ dl[d].phase = "acquire"
    /\ IF \/ Cardinality(Active) >= dl[d].config.slots
          \/ Cardinality({e \in Active : UserOf(e) = UserOf(d)}) >= dl[d].config.userSlots
       THEN dl' = [dl EXCEPT ![d] = Idle]
       ELSE dl' = [dl EXCEPT ![d].phase = "hop"]
    /\ UNCHANGED <<policy, pace, used>>

\* Mutant: the host is not registered in the Runtime.
RegisterNothing(d, h) ==
    /\ dl[d].phase = "hop" /\ dl[d].hops < MaxHops
    /\ dl' = [dl EXCEPT ![d] = [@ EXCEPT !.phase = "check", !.host = h,
                                         !.hops = dl[d].hops + 1]]
    /\ UNCHANGED <<policy, pace, used>>

\* The host of the URL or redirect is registered before it is checked.
Register(d, h) ==
    /\ dl[d].phase = "hop" /\ dl[d].hops < MaxHops
    /\ dl' = [dl EXCEPT ![d] = [@ EXCEPT !.phase = "check", !.host = h,
                                         !.hosts = dl[d].hosts \cup {h},
                                         !.hops = dl[d].hops + 1]]
    /\ UNCHANGED <<policy, pace, used>>

CheckHost(d) ==
    LET h == dl[d].host
    IN  /\ dl[d].phase = "check"
        /\ IF h \in blocked
           THEN dl' = [dl EXCEPT ![d].phase = "refused"]
           ELSE dl' = [dl EXCEPT ![d] = [@ EXCEPT !.phase = "fetch",
                                                  !.passed = dl[d].passed \cup {h}]]
        /\ UNCHANGED <<policy, pace, used>>

\* The upstream redirects, or answers with a body.
Redirected(d) == dl[d].phase = "fetch" /\ Goto(d, "hop")

Answered(d, n) ==
    /\ dl[d].phase = "fetch"
    /\ dl' = [dl EXCEPT ![d] = [@ EXCEPT !.phase = "event", !.size = n]]
    /\ UNCHANGED <<policy, pace, used>>

\* Refused address, failed request, too many redirects, a status or length
\* that is not acceptable, a failed query, or the deadline.
Refuse(d) == dl[d].phase \in Connecting /\ Goto(d, "refused")

\* Dropping the handler or returning from it drops the permit.
Leave(d) ==
    /\ dl' = [dl EXCEPT ![d] = Idle]
    /\ UNCHANGED <<policy, pace, used>>

\* select!: a cancellation wins over the upstream's answer.
CancelEarly(d) == dl[d].phase \in Connecting /\ dl[d].cancel /\ Leave(d)

\* download_event for a refusal, then the refusal is returned.
Refused(d) == dl[d].phase = "refused" /\ Leave(d)

\* The client disconnects before the response: the handler is dropped.
DropHandler(d) ==
    dl[d].phase \in {"ready", "acquire"} \cup Connecting \cup Recording /\ Leave(d)

\* download_event for a success; a preflight, a HEAD or a failed query
\* returns, and a GET spawns the worker.
Return(d) == dl[d].phase = "event" /\ Leave(d)
Spawn(d) == dl[d].phase = "event" /\ Goto(d, "chunk")

-----------------------------------------------------------------------------
(* The worker.                                                              *)

\* The next part arrives from the upstream (download_upstream records it).
NextChunk(d) ==
    /\ dl[d].phase = "chunk" /\ dl[d].sent < dl[d].size
    /\ IF dl[d].sent + 1 > FileLimit THEN Goto(d, "failing") ELSE Goto(d, "part")

\* History: late counts the parts queued since this was last false at the
\* start of a part.
Withdrawn(d) == token[dl[d].token] = "revoked" \/ ~cfg.enabled

\* The live configuration and the token are checked ...
PartAuth(d) ==
    /\ dl[d].phase = "part"
    /\ IF cfg.enabled /\ Authenticated(dl[d].token)
       THEN dl' = [dl EXCEPT ![d] =
              [@ EXCEPT !.phase = "hosts", !.passed = {},
                        !.late = IF Withdrawn(d) THEN dl[d].late ELSE 0]]
       ELSE dl' = [dl EXCEPT ![d].phase = "failing"]
    /\ UNCHANGED <<policy, pace, used>>

\* ... then every host, one query each ...
PartHost(d, h) ==
    /\ dl[d].phase = "hosts" /\ h \in dl[d].hosts \ dl[d].passed
    /\ IF h \in blocked THEN Goto(d, "failing")
       ELSE /\ dl' = [dl EXCEPT ![d].passed = @ \cup {h}]
            /\ UNCHANGED <<policy, pace, used>>

HostsDone(d) ==
    dl[d].phase = "hosts" /\ dl[d].passed = dl[d].hosts /\ Goto(d, "throttle")

\* ... the shared rate is waited for under the lock ...
TakePace(d) ==
    /\ dl[d].phase = "throttle" /\ pace = None
    /\ pace' = d
    /\ dl' = [dl EXCEPT ![d].phase = "pacing"]
    /\ UNCHANGED <<policy, used>>

GivePace(d) ==
    /\ dl[d].phase = "pacing"
    /\ pace' = None
    /\ dl' = [dl EXCEPT ![d].phase = "reauth"]
    /\ UNCHANGED <<policy, used>>

\* ... the token is checked again ...
Reauth(d) ==
    /\ dl[d].phase = "reauth"
    /\ Goto(d, IF Authenticated(dl[d].token) THEN "charge" ELSE "failing")

\* Mutant: off by one.
WithinBudgetBefore(u) == used[u] <= DailyLimit

\* ... the part is charged, in one transaction ...
WithinBudget(u) == used[u] + 1 <= DailyLimit

Charge(d) ==
    LET u == UserOf(d)
    IN  /\ dl[d].phase = "charge"
        /\ IF WithinBudget(u)
           THEN /\ used' = [used EXCEPT ![u] = @ + 1]
                /\ dl' = [dl EXCEPT ![d].phase = "send"]
                /\ UNCHANGED <<policy, pace>>
           ELSE Goto(d, "failing")

\* ... and queued for the client.
Send(d) ==
    /\ dl[d].phase = "send" /\ dl[d].queue = 0 /\ dl[d].client = "reading"
    /\ dl' = [dl EXCEPT ![d] =
          [@ EXCEPT !.phase = "chunk", !.queue = 1, !.sent = dl[d].sent + 1,
             !.late = IF Withdrawn(d) THEN dl[d].late + 1 ELSE dl[d].late]]
    /\ UNCHANGED <<policy, pace, used>>

\* The body is complete: the permit and the sender are dropped.
Complete(d) ==
    dl[d].phase = "chunk" /\ dl[d].sent = dl[d].size /\ Goto(d, "ended")

\* Mutant: a wait for the throttle or the client is never abandoned.
AbandonBetweenWaits(d) ==
    /\ dl[d].phase \in Working \ {"throttle", "pacing", "send"}
    /\ dl' = [dl EXCEPT ![d].phase = "failing"]
    /\ UNCHANGED <<policy, pace, used>>

\* The work is abandoned, and with it the throttle's lock.
Abandon(d) ==
    /\ dl[d].phase \in Working
    /\ dl' = [dl EXCEPT ![d].phase = "failing"]
    /\ pace' = IF pace = d THEN None ELSE pace
    /\ UNCHANGED <<policy, used>>

Cancelled(d) == dl[d].phase \in Working /\ dl[d].cancel /\ Abandon(d)
ClientClosed(d) == dl[d].phase \in Working /\ dl[d].client = "gone" /\ Abandon(d)
\* The deadline, a failed query, or an upstream error.
Interrupted(d) == Abandon(d)

\* Mutant: the failure is not recorded before the sender is dropped.
CloseSilently(d) ==
    /\ dl[d].phase = "failing"
    /\ dl' = [dl EXCEPT ![d].phase = "ended"]
    /\ UNCHANGED <<policy, pace, used>>

\* download_stream_error, then the flag is stored, then the sender and the
\* permit are dropped.
Close(d) ==
    /\ dl[d].phase = "failing"
    /\ dl' = [dl EXCEPT ![d] = [@ EXCEPT !.phase = "ended", !.failed = TRUE]]
    /\ UNCHANGED <<policy, pace, used>>

-----------------------------------------------------------------------------
(* The client reads the body.                                               *)

Streaming(d) == dl[d].phase \in Working \cup {"failing", "ended"}

Receive(d) ==
    /\ Streaming(d) /\ dl[d].client = "reading" /\ dl[d].queue = 1
    /\ dl' = [dl EXCEPT ![d] = [@ EXCEPT !.queue = 0, !.got = dl[d].got + 1]]
    /\ UNCHANGED <<policy, pace, used>>

Disconnect(d) ==
    /\ Streaming(d) /\ dl[d].client = "reading"
    /\ dl' = [dl EXCEPT ![d].client = "gone"]
    /\ UNCHANGED <<policy, pace, used>>

\* The sender is gone and the queue is empty.
EndOfBody(d) ==
    /\ dl[d].phase = "ended" /\ dl[d].end = None
    /\ dl[d].client = "reading" /\ dl[d].queue = 0
    /\ dl' = [dl EXCEPT ![d].end = IF dl[d].failed THEN "error" ELSE "clean"]
    /\ UNCHANGED <<policy, pace, used>>

Forget(d) ==
    /\ dl[d].phase = "ended" /\ (dl[d].end # None \/ dl[d].client = "gone")
    /\ Leave(d)

-----------------------------------------------------------------------------
(* Tokens and policy.                                                       *)

CreateToken(t) ==
    /\ token[t] = "none" /\ Owner[t] \in allowed
    /\ token' = [token EXCEPT ![t] = "valid"]
    /\ UNCHANGED <<dl, allowed, blocked, cfg, admin, pace, used, silent>>

\* The row is committed and the handler goes on to op; or its client goes
\* away while it awaits the commit, or (revoke_token) the audit entry that
\* follows the commit fails, and nothing more is done.
Committed(a, op) == admin' \in {admin, [admin EXCEPT ![a] = op]}

\* revoke_token: the row is deleted, then the user's transfers are signalled.
RevokeToken(a, t) ==
    /\ admin[a] = None /\ token[t] = "valid"
    /\ token' = [token EXCEPT ![t] = "revoked"]
    /\ Committed(a, [op |-> "user", user |-> Owner[t]])
    /\ UNCHANGED <<dl, allowed, blocked, cfg, pace, used, silent>>

\* permission: the rule is committed, then every transfer is signalled.
SetPermission(a, u) ==
    /\ admin[a] = None
    /\ allowed' = (allowed \ {u}) \cup ({u} \ allowed)
    /\ Committed(a, [op |-> "all"])
    /\ UNCHANGED <<dl, token, blocked, cfg, pace, used, silent>>

\* block: the rule is committed, then matching transfers are signalled.
SetBlock(a, h) ==
    /\ admin[a] = None
    /\ blocked' = blocked \cup {h}
    /\ Committed(a, [op |-> "domain", host |-> h])
    /\ silent' = IF admin' = admin THEN silent \cup {h} ELSE silent \ {h}
    /\ UNCHANGED <<dl, token, allowed, cfg, pace, used>>

Unblock(a, h) ==
    /\ admin[a] = None
    /\ blocked' = blocked \ {h} /\ silent' = silent \ {h}
    /\ UNCHANGED <<dl, token, allowed, cfg, admin, pace, used>>

\* update_admin_config (and, with again, the download endpoint around it):
\* saved, then signalled, then put in memory, then signalled again.
SaveConfig(a, c, again) ==
    /\ admin[a] = None /\ c # cfg
    /\ admin' = [admin EXCEPT ![a] = [op |-> "cancel", config |-> c, again |-> again]]
    /\ UNCHANGED <<dl, token, allowed, blocked, cfg, pace, used, silent>>

CancelBeforeWrite(a) ==
    /\ admin[a] # None /\ admin[a].op = "cancel"
    /\ dl' = Signal(Active)
    /\ admin' = [admin EXCEPT ![a].op = "write"]
    /\ UNCHANGED <<token, allowed, blocked, cfg, pace, used, silent>>

WriteConfig(a) ==
    /\ admin[a] # None /\ admin[a].op = "write"
    /\ cfg' = admin[a].config
    /\ admin' = [admin EXCEPT ![a] = IF @.again THEN [op |-> "all"] ELSE None]
    /\ UNCHANGED <<dl, token, allowed, blocked, pace, used, silent>>

\* cancel_domain, cancel_user, cancel_all: the transfers registered now.
Targets(op) ==
    CASE op.op = "domain" -> {d \in Active : op.host \in dl[d].hosts}
      [] op.op = "user"   -> {d \in Active : UserOf(d) = op.user}
      [] OTHER            -> Active

SignalTargets(a) ==
    /\ admin[a] # None /\ admin[a].op \in {"domain", "user", "all"}
    /\ dl' = Signal(Targets(admin[a]))
    /\ admin' = [admin EXCEPT ![a] = None]
    /\ UNCHANGED <<token, allowed, blocked, cfg, pace, used, silent>>

\* terminate.
Terminate(d) ==
    /\ d \in Active /\ ~dl[d].cancel
    /\ dl' = Signal({d})
    /\ UNCHANGED <<policy, pace, used>>

-----------------------------------------------------------------------------
\* Steps the server takes by itself.
ServerStep(d) ==
    \/ Snapshot(d) \/ Acquire(d) \/ CheckHost(d) \/ CancelEarly(d) \/ Refused(d)
    \/ Spawn(d) \/ PartAuth(d) \/ (\E h \in Hosts : PartHost(d, h)) \/ HostsDone(d)
    \/ TakePace(d) \/ GivePace(d) \/ Reauth(d) \/ Charge(d) \/ Send(d)
    \/ Complete(d) \/ Cancelled(d) \/ ClientClosed(d) \/ Close(d)

\* What upstreams and clients do, and failures.
Outcome(d) ==
    \/ \E t \in Tokens : Authorize(d, t)
    \/ \E h \in Hosts : Register(d, h)
    \/ Redirected(d) \/ (\E n \in 1..MaxSize : Answered(d, n)) \/ Refuse(d)
    \/ DropHandler(d) \/ Return(d) \/ NextChunk(d) \/ Interrupted(d)
    \/ Receive(d) \/ Disconnect(d) \/ EndOfBody(d) \/ Forget(d) \/ Terminate(d)

Policy(a) ==
    \/ \E t \in Tokens : RevokeToken(a, t)
    \/ \E u \in Users : SetPermission(a, u)
    \/ \E h \in Hosts : SetBlock(a, h) \/ Unblock(a, h)
    \/ \E c \in Configs, again \in BOOLEAN : SaveConfig(a, c, again)
    \/ CancelBeforeWrite(a) \/ WriteConfig(a) \/ SignalTargets(a)

Next ==
    \/ \E d \in Downloads : ServerStep(d) \/ Outcome(d)
    \/ \E t \in Tokens : CreateToken(t)
    \/ \E a \in Admins : Policy(a)

Spec == Init /\ [][Next]_vars

\* The runtime polls handlers and workers, and the deadline passes (Refuse
\* while connecting, Interrupted in the worker).  Nothing is assumed of
\* upstreams, clients or administrators.
Fairness ==
    \A d \in Downloads : /\ WF_vars(ServerStep(d))
                         /\ WF_vars(Refuse(d)) /\ WF_vars(Interrupted(d))

FairSpec == Spec /\ Fairness

-----------------------------------------------------------------------------
(* What custom downloads promise.                                           *)

\* "Domain blocks ... cancel matching active transfers": once the handler that
\* blocked h has returned, a transfer that has found h not blocked is
\* signalled.  It rests on registering a host before checking it, against
\* committing the block before signalling.  A handler dropped before it
\* signals leaves the transfer to its own check of the next part.
BlockEnforced ==
    \A h \in blocked \ silent :
        (\A a \in Admins : admin[a] # [op |-> "domain", host |-> h]) =>
            \A d \in Active :
                h \in dl[d].passed => dl[d].cancel \/ dl[d].phase = "failing"

\* After the token is revoked, or downloads are turned off, a transfer
\* delivers at most the one part that had passed its checks, whether or not
\* the transfer was registered when the policy handler signalled.
WithdrawnStops == \A d \in Downloads : dl[d] # Idle => dl[d].late <= 1

\* The parts that transfer x has queued for user u.
PartsFor(x, u) == IF x # Idle /\ Owner[x.token] = u THEN x.sent ELSE 0

\* "simultaneous downloads cannot overspend a quota": what a user's transfers
\* have queued was charged, and the charges stay within the daily budget.
BudgetHeld ==
    \A u \in Users : /\ SumFunction([d \in Downloads |-> PartsFor(dl[d], u)]) <= used[u]
                     /\ used[u] <= DailyLimit

\* The client takes a body for complete only if it has every part of it,
\* however the transfer was interrupted.
CleanEndIsComplete ==
    \A d \in Downloads : dl[d] # Idle /\ dl[d].end = "clean" => dl[d].got = dl[d].size

\* Every transfer gives its permit back, although upstreams may hang, clients
\* may stop reading and others may hold the throttle.
PermitReleased == \A d \in Downloads : d \in Active ~> d \notin Active
=============================================================================
