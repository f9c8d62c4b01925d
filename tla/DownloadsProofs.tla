--------------------------- MODULE DownloadsProofs ---------------------------
(***************************************************************************)
(* Theorems about custom downloads, for any number of transfers, policy    *)
(* handlers, users, tokens and hosts.                                      *)
(***************************************************************************)
EXTENDS Downloads, SumProofs, TLAPS

Phases == (Outside \cup Connecting \cup Recording \cup Working \cup {"failing"}) \ {"idle"}

Rec == [phase : Phases, token : Tokens, config : {None} \cup Configs,
        hosts : SUBSET Hosts, host : {None} \cup Hosts, passed : SUBSET Hosts,
        hops : Nat, cancel : BOOLEAN,
        size : 0..MaxSize, sent : 0..MaxSize, late : 0..MaxSize,
        queue : 0..1, got : 0..MaxSize,
        client : {"reading", "gone"}, failed : BOOLEAN, end : {None, "clean", "error"}]

\* The phases of a part after its first check.
Checked == {"hosts", "throttle", "pacing", "reauth", "charge", "send"}

(* What holds of a transfer on its own.  A host is registered before it is  *)
(* found not blocked; what was sent is with the client or in the queue; a   *)
(* part that passed its first check is the only one that may come late; and *)
(* a body that ended without a failure was sent to the last part.           *)
Sound(x) ==
    /\ x \in Rec
    /\ x.phase \in {"ready", "acquire"} => x.passed = {}
    /\ x.phase = "check" => x.host \in x.hosts
    /\ x.passed \subseteq x.hosts
    /\ x.sent = x.got + x.queue /\ x.sent <= x.size
    /\ x.phase \in Working \ {"chunk"} => x.sent < x.size
    /\ x.phase \notin Working \cup {"failing", "ended"} => x.sent = 0
    /\ x.late <= 1 /\ (x.phase \in Checked => x.late = 0)
    /\ x.phase # "ended" => ~x.failed /\ x.end = None
    /\ (x.phase = "ended" /\ ~x.failed) => x.sent = x.size
    /\ x.end = "clean" => x.queue = 0 /\ ~x.failed

(* A transfer that holds a permit, found h not blocked and goes on. *)
Open(x, h) == /\ x.phase \notin Outside /\ h \in x.passed
              /\ ~x.cancel /\ x.phase # "failing"

Signalling(h) == \E a \in Admins : admin[a] = [op |-> "domain", host |-> h]

(* Every open transfer of a blocked host is still to be signalled, or its   *)
(* handler was dropped.                                                     *)
Enforced ==
    \A h \in blocked \ silent : Signalling(h) \/ \A d \in Downloads : ~Open(dl[d], h)

Transfers ==
    /\ DOMAIN dl = Downloads /\ dl = [d \in Downloads |-> dl[d]]
    /\ \A d \in Downloads : dl[d] = Idle \/ Sound(dl[d])

(* The lock of the throttle is held by the one transfer that is pacing. *)
Throttled == \A d \in Downloads : dl[d].phase = "pacing" <=> pace = d

Rules ==
    /\ token \in [Tokens -> {"none", "valid", "revoked"}]
    /\ allowed \subseteq Users /\ blocked \subseteq Hosts /\ silent \subseteq blocked
    /\ cfg \in Configs
    /\ admin \in [Admins -> Pending]
    /\ used \in [Users -> Nat] /\ \A u \in Users : used[u] <= DailyLimit
    /\ pace \in Downloads \cup {None}

DownloadsInv == Transfers /\ Throttled /\ Rules /\ Enforced

-----------------------------------------------------------------------------
(* One transfer takes a step.                                               *)

\* What x and r have in common when only the phase differs.
OtherFields(x, r) ==
    /\ r.token = x.token /\ r.config = x.config /\ r.hosts = x.hosts /\ r.host = x.host
    /\ r.passed = x.passed /\ r.hops = x.hops /\ r.cancel = x.cancel
    /\ r.size = x.size /\ r.sent = x.sent /\ r.late = x.late /\ r.queue = x.queue
    /\ r.got = x.got /\ r.client = x.client /\ r.failed = x.failed /\ r.end = x.end

LEMMA PhaseOnly ==
    ASSUME NEW x \in Rec, NEW p \in Phases, NEW r, r = [x EXCEPT !.phase = p]
    PROVE  r \in Rec /\ r.phase = p /\ OtherFields(x, r)
  BY DEF Rec, OtherFields

LEMMA PassedOnly ==
    ASSUME NEW x \in Rec, NEW s \in SUBSET Hosts, NEW r, r = [x EXCEPT !.passed = s]
    PROVE  /\ r \in Rec /\ r.passed = s /\ r.phase = x.phase
           /\ r.hosts = x.hosts /\ r.host = x.host /\ r.cancel = x.cancel /\ r.token = x.token
           /\ r.size = x.size /\ r.sent = x.sent /\ r.late = x.late /\ r.queue = x.queue
           /\ r.got = x.got /\ r.client = x.client /\ r.failed = x.failed /\ r.end = x.end
  BY DEF Rec

LEMMA SizeOnly ==
    ASSUME NEW x \in Rec, NEW n \in 0..MaxSize, NEW r, r = [x EXCEPT !.size = n]
    PROVE  /\ r \in Rec /\ r.size = n /\ r.phase = x.phase
           /\ r.hosts = x.hosts /\ r.passed = x.passed /\ r.cancel = x.cancel
           /\ r.sent = x.sent /\ r.late = x.late /\ r.queue = x.queue
           /\ r.got = x.got /\ r.failed = x.failed /\ r.end = x.end
  BY DEF Rec

LEMMA IdleOpensNothing == Idle.phase = "idle" /\ \A h : ~Open(Idle, h)
  BY DEF Idle, Open, Outside

\* A step of one transfer that keeps it sound and opens nothing that is blocked.
LEMMA OneStep ==
    ASSUME DownloadsInv, NEW d \in Downloads, NEW r, dl' = [dl EXCEPT ![d] = r],
           r = Idle \/ Sound(r),
           \A h \in blocked : Open(r, h) => Open(dl[d], h),
           UNCHANGED policy,
           Throttled', pace' \in Downloads \cup {None},
           used' \in [Users -> Nat], \A u \in Users : used'[u] <= DailyLimit
    PROVE  DownloadsInv'
  <1>1. /\ DOMAIN dl = Downloads /\ dl'[d] = r /\ DOMAIN dl' = Downloads
        /\ dl' = [e \in Downloads |-> dl'[e]] /\ \A e \in Downloads : e # d => dl'[e] = dl[e]
    BY DEF DownloadsInv, Transfers
  <1>2. Transfers'
    BY <1>1 DEF DownloadsInv, Transfers
  <1>3. Rules'
    BY DEF DownloadsInv, Rules, policy
  <1>4. Enforced'
    <2>1. UNCHANGED <<blocked, silent, admin>>
      BY DEF policy
    <2>2. ASSUME NEW h \in blocked \ silent PROVE Signalling(h)' \/ \A e \in Downloads : ~Open(dl'[e], h)
      <3>1. CASE Signalling(h)
        BY <2>1, <3>1 DEF Signalling
      <3>2. CASE \A e \in Downloads : ~Open(dl[e], h)
        <4>1. ASSUME NEW e \in Downloads PROVE ~Open(dl'[e], h)
          BY <1>1, <3>2
        <4> QED
          BY <4>1
      <3> QED
        BY <3>1, <3>2 DEF DownloadsInv, Enforced
    <2> QED
      BY <2>1, <2>2 DEF Enforced
  <1> QED
    BY <1>2, <1>3, <1>4 DEF DownloadsInv

\* The same when the throttle and the usage stay.
LEMMA QuietStep ==
    ASSUME DownloadsInv, NEW d \in Downloads, NEW r, dl' = [dl EXCEPT ![d] = r],
           r = Idle \/ Sound(r), r.phase = "pacing" <=> dl[d].phase = "pacing",
           \A h \in blocked : Open(r, h) => Open(dl[d], h),
           UNCHANGED <<policy, pace, used>>
    PROVE  DownloadsInv'
  <1>1. pace' \in Downloads \cup {None} /\ used' \in [Users -> Nat] /\ \A u \in Users : used'[u] <= DailyLimit
    BY DEF DownloadsInv, Rules
  <1>2. Throttled'
    BY DEF DownloadsInv, Throttled, Transfers
  <1> QED
    BY <1>1, <1>2, OneStep

\* One transfer goes to phase p, which its other fields allow.
LEMMA Goes ==
    ASSUME DownloadsInv, NEW d \in Downloads, NEW p \in Phases, dl[d] # Idle,
           dl[d].phase # "pacing", p # "pacing",
           Goto(d, p),
           \A r : (r \in Rec /\ r.phase = p /\ OtherFields(dl[d], r)) => Sound(r),
           dl[d].passed = {} \/ p \in Outside \/ p = "failing"
              \/ (dl[d].phase \notin Outside /\ dl[d].phase # "failing")
    PROVE  DownloadsInv'
  <1>r. PICK r : r = [dl[d] EXCEPT !.phase = p]
    OBVIOUS
  <1>1. dl[d] \in Rec
    BY DEF DownloadsInv, Transfers, Sound
  <1>2. r \in Rec /\ r.phase = p /\ OtherFields(dl[d], r)
    BY <1>1, <1>r, PhaseOnly
  <1>3. dl' = [dl EXCEPT ![d] = r] /\ UNCHANGED <<policy, pace, used>>
    BY <1>r DEF Goto, DownloadsInv, Transfers
  <1>4. \A h \in blocked : Open(r, h) => Open(dl[d], h)
    BY <1>2 DEF Open, OtherFields
  <1> QED
    BY <1>2, <1>3, <1>4, QuietStep

\* A handler that leaves gives its permit back.
LEMMA Leaves ==
    ASSUME DownloadsInv, NEW d \in Downloads, dl[d].phase # "pacing", Leave(d)
    PROVE  DownloadsInv'
  BY IdleOpensNothing, QuietStep DEF Leave

LEMMA RequestStep ==
    ASSUME DownloadsInv, NEW d \in Downloads,
           \/ Acquire(d) \/ CheckHost(d) \/ CancelEarly(d) \/ Refused(d) \/ Spawn(d)
           \/ Redirected(d) \/ Refuse(d) \/ DropHandler(d) \/ Return(d) \/ Forget(d)
    PROVE  DownloadsInv'
  <1>x. PICK x : x = dl[d]
    OBVIOUS
  <1>0. ASSUME x.phase # "idle" PROVE x # Idle /\ Sound(x) /\ x \in Rec
    BY <1>0, <1>x, IdleOpensNothing DEF DownloadsInv, Transfers, Sound
  <1>1. CASE CancelEarly(d) \/ Refused(d) \/ DropHandler(d) \/ Return(d) \/ Forget(d)
    BY <1>1, Leaves DEF CancelEarly, Refused, DropHandler, Return, Forget, Connecting, Recording
  <1>2. CASE Acquire(d)
    <2>1. x.phase = "acquire" /\ Sound(x) /\ x # Idle /\ x.passed = {}
      BY <1>0, <1>2, <1>x DEF Acquire, Sound
    <2>2. Leave(d) \/ Goto(d, "hop")
      BY <1>2 DEF Acquire, Leave, Goto
    <2>3. ASSUME NEW r, r \in Rec, r.phase = "hop", OtherFields(x, r) PROVE Sound(r)
      BY <2>1, <2>3 DEF Sound, OtherFields, Working, Checked
    <2>4. "hop" \in Phases
      BY DEF Phases, Connecting
    <2> QED
      BY <1>x, <2>1, <2>2, <2>3, <2>4, Leaves, Goes
  <1>3. CASE CheckHost(d)
    <2>1. x.phase = "check" /\ Sound(x) /\ x # Idle /\ x \in Rec
      BY <1>0, <1>3, <1>x DEF CheckHost
    <2>2. CASE x.host \in blocked
      <3>1. Goto(d, "refused")
        BY <1>3, <1>x, <2>2 DEF CheckHost, Goto
      <3>2. ASSUME NEW r, r \in Rec, r.phase = "refused", OtherFields(x, r) PROVE Sound(r)
        BY <2>1, <3>2 DEF Sound, OtherFields, Working, Checked
      <3>3. "refused" \in Phases
        BY DEF Phases, Recording
      <3> QED
        BY <1>x, <2>1, <3>1, <3>2, <3>3, Goes DEF Outside
    <2>3. CASE x.host \notin blocked
      <3>1. x.host \in x.hosts /\ x.hosts \subseteq Hosts /\ x.passed \subseteq Hosts
        BY <2>1 DEF Sound, Rec
      <3>y. PICK y : y = [x EXCEPT !.phase = "fetch"]
        OBVIOUS
      <3>a. y \in Rec /\ y.phase = "fetch" /\ OtherFields(x, y)
        BY <2>1, <3>y, PhaseOnly DEF Phases, Connecting
      <3>r. PICK r : r = [y EXCEPT !.passed = x.passed \cup {x.host}]
        OBVIOUS
      <3>2. /\ r \in Rec /\ r.phase = "fetch" /\ r.passed = x.passed \cup {x.host}
            /\ r.hosts = x.hosts /\ r.cancel = x.cancel /\ r.size = x.size /\ r.sent = x.sent
            /\ r.late = x.late /\ r.queue = x.queue /\ r.got = x.got
            /\ r.failed = x.failed /\ r.end = x.end
        BY <3>a, <3>r, <3>1, PassedOnly DEF OtherFields
      <3>3. Sound(r)
        BY <2>1, <3>1, <3>2 DEF Sound, Working, Checked
      <3>4. dl' = [dl EXCEPT ![d] = r] /\ UNCHANGED <<policy, pace, used>>
        BY <1>3, <1>x, <2>3, <3>r, <3>y DEF CheckHost
      <3>5. \A h \in blocked : Open(r, h) => Open(x, h)
        BY <2>1, <2>3, <3>2 DEF Open, Outside
      <3> QED
        BY <1>x, <2>1, <3>2, <3>3, <3>4, <3>5, QuietStep
    <2> QED
      BY <2>2, <2>3
  <1>4. CASE Spawn(d)
    <2>1. x.phase = "event" /\ Sound(x) /\ x # Idle /\ Goto(d, "chunk")
      BY <1>0, <1>4, <1>x DEF Spawn
    <2>2. ASSUME NEW r, r \in Rec, r.phase = "chunk", OtherFields(x, r) PROVE Sound(r)
      BY <2>1, <2>2 DEF Sound, OtherFields, Working, Checked
    <2>3. "chunk" \in Phases
      BY DEF Phases, Working
    <2> QED
      BY <1>x, <2>1, <2>2, <2>3, Goes DEF Outside
  <1>5. CASE Redirected(d)
    <2>1. x.phase = "fetch" /\ Sound(x) /\ x # Idle /\ Goto(d, "hop")
      BY <1>0, <1>5, <1>x DEF Redirected
    <2>2. ASSUME NEW r, r \in Rec, r.phase = "hop", OtherFields(x, r) PROVE Sound(r)
      BY <2>1, <2>2 DEF Sound, OtherFields, Working, Checked
    <2>3. "hop" \in Phases
      BY DEF Phases, Connecting
    <2> QED
      BY <1>x, <2>1, <2>2, <2>3, Goes DEF Outside
  <1>6. CASE Refuse(d)
    <2>1. x.phase \in Connecting /\ Sound(x) /\ x # Idle /\ Goto(d, "refused")
      BY <1>0, <1>6, <1>x DEF Refuse, Connecting
    <2>2. ASSUME NEW r, r \in Rec, r.phase = "refused", OtherFields(x, r) PROVE Sound(r)
      BY <2>1, <2>2 DEF Sound, OtherFields, Working, Checked, Connecting
    <2>3. "refused" \in Phases
      BY DEF Phases, Recording
    <2> QED
      BY <1>x, <2>1, <2>2, <2>3, Goes DEF Outside, Connecting
  <1> QED
    BY <1>1, <1>2, <1>3, <1>4, <1>5, <1>6

LEMMA RequestInput ==
    ASSUME DownloadsInv, NEW d \in Downloads,
           \/ Snapshot(d) \/ (\E t \in Tokens : Authorize(d, t))
           \/ (\E h \in Hosts : Register(d, h)) \/ (\E n \in 1..MaxSize : Answered(d, n))
    PROVE  DownloadsInv'
  <1>x. PICK x : x = dl[d]
    OBVIOUS
  <1>0. ASSUME x.phase # "idle" PROVE x # Idle /\ Sound(x) /\ x \in Rec
    BY <1>0, <1>x, IdleOpensNothing DEF DownloadsInv, Transfers, Sound
  <1>1. CASE Snapshot(d)
    <2>r. PICK r : r = [x EXCEPT !.phase = "acquire", !.config = cfg]
      OBVIOUS
    <2>1. x.phase = "ready" /\ Sound(x) /\ x \in Rec /\ cfg \in Configs
      BY <1>0, <1>1, <1>x DEF Snapshot, DownloadsInv, Rules
    <2>2. /\ r \in Rec /\ r.phase = "acquire" /\ r.passed = x.passed
          /\ r.hosts = x.hosts /\ r.cancel = x.cancel /\ r.size = x.size /\ r.sent = x.sent
          /\ r.late = x.late /\ r.queue = x.queue /\ r.got = x.got
          /\ r.failed = x.failed /\ r.end = x.end
      BY <2>1, <2>r DEF Rec, Phases, Outside
    <2>3. Sound(r)
      BY <2>1, <2>2 DEF Sound, Working, Checked
    <2>4. dl' = [dl EXCEPT ![d] = r] /\ UNCHANGED <<policy, pace, used>>
      BY <1>1, <1>x, <2>r DEF Snapshot
    <2>5. \A h \in blocked : Open(r, h) => Open(x, h)
      BY <2>2 DEF Open, Outside
    <2> QED
      BY <1>x, <2>1, <2>2, <2>3, <2>4, <2>5, QuietStep
  <1>2. ASSUME NEW t \in Tokens, Authorize(d, t) PROVE DownloadsInv'
    <2>r. PICK r : r = [phase |-> "ready", token |-> t, config |-> None, hosts |-> {},
           host |-> None, passed |-> {}, hops |-> 0, cancel |-> FALSE,
           size |-> 0, sent |-> 0, late |-> 0, queue |-> 0, got |-> 0,
           client |-> "reading", failed |-> FALSE, end |-> None]
      OBVIOUS
    <2>1. x.phase = "idle"
      BY <1>2, <1>x, IdleOpensNothing DEF Authorize
    <2>2. /\ r \in Rec /\ r.phase = "ready" /\ r.passed = {}
          /\ r.hosts = {} /\ r.size = 0 /\ r.sent = 0 /\ r.late = 0 /\ r.queue = 0 /\ r.got = 0
          /\ r.failed = FALSE /\ r.end = None
      BY <2>r, DownloadsAssumption DEF Rec, Phases, Outside
    <2>3. Sound(r)
      BY <2>2, DownloadsAssumption DEF Sound, Working, Checked
    <2>4. dl' = [dl EXCEPT ![d] = r] /\ UNCHANGED <<policy, pace, used>>
      BY <1>2, <2>r DEF Authorize
    <2>5. \A h \in blocked : Open(r, h) => Open(x, h)
      BY <2>2 DEF Open, Outside
    <2> QED
      BY <1>x, <2>1, <2>2, <2>3, <2>4, <2>5, QuietStep
  <1>3. ASSUME NEW g \in Hosts, Register(d, g) PROVE DownloadsInv'
    <2>1. x.phase = "hop" /\ Sound(x) /\ x \in Rec 
      BY <1>0, <1>3, <1>x DEF Register
    <2>b. x.hosts \cup {g} \in SUBSET Hosts /\ x.hops + 1 \in Nat
      BY <2>1 DEF Rec
    <2>y. PICK y : y = [x EXCEPT !.phase = "check"]
      OBVIOUS
    <2>a. y \in Rec /\ y.phase = "check" /\ OtherFields(x, y)
      BY <2>1, <2>y, PhaseOnly DEF Phases, Connecting
    <2>r. PICK r : r = [y EXCEPT !.host = g, !.hosts = x.hosts \cup {g}, !.hops = x.hops + 1]
      OBVIOUS
    <2>2. /\ r \in Rec /\ r.phase = "check" /\ r.passed = x.passed /\ r.host = g
          /\ r.hosts = x.hosts \cup {g} /\ r.cancel = x.cancel /\ r.size = x.size /\ r.sent = x.sent
          /\ r.late = x.late /\ r.queue = x.queue /\ r.got = x.got
          /\ r.failed = x.failed /\ r.end = x.end
      <3>s. PICK s \in SUBSET Hosts : s = x.hosts \cup {g}
        BY <2>b
      <3>n. PICK n \in Nat : n = x.hops + 1
        BY <2>b
      <3>1. r = [y EXCEPT !.host = g, !.hosts = s, !.hops = n]
        BY <2>r, <3>s, <3>n
      <3>2. /\ r \in Rec /\ r.host = g /\ r.hosts = s /\ r.phase = y.phase
            /\ r.passed = y.passed /\ r.cancel = y.cancel
            /\ r.size = y.size /\ r.sent = y.sent /\ r.late = y.late /\ r.queue = y.queue
            /\ r.got = y.got /\ r.failed = y.failed /\ r.end = y.end
        BY <2>a, <3>1 DEF Rec
      <3> QED
        BY <2>a, <3>s, <3>2 DEF OtherFields
    <2>3. Sound(r)
      BY <2>1, <2>2 DEF Sound, Working, Checked
    <2>4. dl' = [dl EXCEPT ![d] = r] /\ UNCHANGED <<policy, pace, used>>
      BY <1>3, <1>x, <2>y, <2>r DEF Register
    <2>5. \A h \in blocked : Open(r, h) => Open(x, h)
      BY <2>1, <2>2 DEF Open, Outside
    <2> QED
      BY <1>x, <2>1, <2>2, <2>3, <2>4, <2>5, QuietStep
  <1>4. ASSUME NEW n \in 1..MaxSize, Answered(d, n) PROVE DownloadsInv'
    <2>1. x.phase = "fetch" /\ Sound(x) /\ x \in Rec /\ x.sent = 0
      BY <1>0, <1>4, <1>x DEF Answered, Sound, Working
    <2>y. PICK y : y = [x EXCEPT !.phase = "event"]
      OBVIOUS
    <2>a. y \in Rec /\ y.phase = "event" /\ OtherFields(x, y)
      BY <2>1, <2>y, PhaseOnly DEF Phases, Recording
    <2>r. PICK r : r = [y EXCEPT !.size = n]
      OBVIOUS
    <2>2. /\ r \in Rec /\ r.phase = "event" /\ r.passed = x.passed
          /\ r.hosts = x.hosts /\ r.cancel = x.cancel /\ r.size = n /\ r.sent = x.sent
          /\ r.late = x.late /\ r.queue = x.queue /\ r.got = x.got
          /\ r.failed = x.failed /\ r.end = x.end
      BY <2>a, <2>r, DownloadsAssumption, SizeOnly DEF OtherFields
    <2>3. Sound(r)
      BY <2>1, <2>2 DEF Sound, Working, Checked
    <2>4. dl' = [dl EXCEPT ![d] = r] /\ UNCHANGED <<policy, pace, used>>
      BY <1>4, <1>x, <2>y, <2>r DEF Answered
    <2>5. \A h \in blocked : Open(r, h) => Open(x, h)
      BY <2>1, <2>2 DEF Open, Outside
    <2> QED
      BY <1>x, <2>1, <2>2, <2>3, <2>4, <2>5, QuietStep
  <1> QED
    BY <1>1, <1>2, <1>3, <1>4

LEMMA WorkerGoes ==
    ASSUME DownloadsInv, NEW d \in Downloads,
           NextChunk(d) \/ HostsDone(d) \/ Reauth(d) \/ Complete(d)
    PROVE  DownloadsInv'
  <1>x. PICK x : x = dl[d]
    OBVIOUS
  <1>0. x.phase \in {"chunk", "hosts", "reauth"}
    BY <1>x DEF NextChunk, HostsDone, Reauth, Complete
  <1>1. x # Idle /\ Sound(x) /\ x \in Rec
    BY <1>0, <1>x, IdleOpensNothing DEF DownloadsInv, Transfers, Sound
  <1>2. PICK p : /\ Goto(d, p)
                 /\ \/ p = "failing"
                    \/ p = "part" /\ x.phase = "chunk" /\ x.sent < x.size
                    \/ p = "throttle" /\ x.phase = "hosts"
                    \/ p = "charge" /\ x.phase = "reauth"
                    \/ p = "ended" /\ x.phase = "chunk" /\ x.sent = x.size
    BY <1>x DEF NextChunk, HostsDone, Reauth, Complete
  <1>3. p \in Phases /\ p # "pacing" /\ x.phase \notin Outside /\ x.phase # "failing"
    BY <1>0, <1>2 DEF Phases, Working, Outside
  <1>4. ASSUME NEW r, r \in Rec, r.phase = p, OtherFields(x, r) PROVE Sound(r)
    <2>1. CASE p = "failing"
      BY <1>0, <1>1, <1>4, <2>1 DEF Sound, OtherFields, Working, Checked
    <2>2. CASE p = "part" /\ x.phase = "chunk" /\ x.sent < x.size
      BY <1>1, <1>4, <2>2 DEF Sound, OtherFields, Working, Checked
    <2>3. CASE p = "throttle" /\ x.phase = "hosts"
      BY <1>1, <1>4, <2>3 DEF Sound, OtherFields, Working, Checked
    <2>4. CASE p = "charge" /\ x.phase = "reauth"
      BY <1>1, <1>4, <2>4 DEF Sound, OtherFields, Working, Checked
    <2>5. CASE p = "ended" /\ x.phase = "chunk" /\ x.sent = x.size
      BY <1>1, <1>4, <2>5 DEF Sound, OtherFields, Working, Checked
    <2> QED
      BY <1>2, <2>1, <2>2, <2>3, <2>4, <2>5
  <1> QED
    BY <1>x, <1>0, <1>1, <1>2, <1>3, <1>4, Goes

\* The steps that take or give back the lock of the throttle, or charge a part.
LEMMA WorkerShares ==
    ASSUME DownloadsInv, NEW d \in Downloads,
           TakePace(d) \/ GivePace(d) \/ Charge(d) \/ Abandon(d)
    PROVE  DownloadsInv'
  <1>x. PICK x : x = dl[d]
    OBVIOUS
  <1>0. x.phase \in Working
    BY <1>x DEF TakePace, GivePace, Charge, Abandon, Working
  <1>1. x # Idle /\ Sound(x) /\ x \in Rec
    BY <1>0, <1>x, IdleOpensNothing DEF DownloadsInv, Transfers, Sound, Working
  <1>2. UNCHANGED policy
    BY DEF TakePace, GivePace, Charge, Abandon, Goto
  <1>3. PICK p : /\ dl' = [dl EXCEPT ![d].phase = p]
                 /\ \/ TakePace(d) /\ p = "pacing" /\ x.phase = "throttle"
                    \/ GivePace(d) /\ p = "reauth" /\ x.phase = "pacing"
                    \/ Charge(d) /\ p \in {"send", "failing"} /\ x.phase = "charge"
                    \/ Abandon(d) /\ p = "failing"
    BY <1>x DEF TakePace, GivePace, Charge, Abandon, Goto
  <1>4. p \in Phases /\ p \notin Outside
    BY <1>3 DEF Phases, Working, Outside
  <1>r. PICK r : r = [x EXCEPT !.phase = p]
    OBVIOUS
  <1>5. r \in Rec /\ r.phase = p /\ OtherFields(x, r)
    BY <1>1, <1>4, <1>r, PhaseOnly
  <1>6. Sound(r)
    <2>1. CASE p = "failing"
      BY <1>0, <1>1, <1>5, <2>1 DEF Sound, OtherFields, Working, Checked
    <2>2. CASE p # "failing"
      <3>1. p \in Checked /\ x.phase \in Checked
        BY <1>3, <2>2 DEF Checked
      <3> QED
        BY <1>1, <1>5, <3>1 DEF Sound, OtherFields, Working, Checked
    <2> QED
      BY <2>1, <2>2
  <1>7. dl' = [dl EXCEPT ![d] = r]
    BY <1>3, <1>x, <1>r DEF DownloadsInv, Transfers
  <1>8. \A h \in blocked : Open(r, h) => Open(x, h)
    BY <1>0, <1>5 DEF Open, OtherFields, Working, Outside
  <1>9. Throttled' /\ pace' \in Downloads \cup {None}
    <2>1. \A e \in Downloads : dl'[e].phase = IF e = d THEN p ELSE dl[e].phase
      BY <1>5, <1>7 DEF DownloadsInv, Transfers
    <2>2. pace \in Downloads \cup {None} /\ None \notin Downloads /\ \A e \in Downloads : dl[e].phase = "pacing" <=> pace = e
      BY DownloadsAssumption DEF DownloadsInv, Rules, Throttled
    <2>3. CASE TakePace(d)
      <3>1. pace = None /\ pace' = d
        BY <2>3 DEF TakePace
      <3>2. dl'[d].phase = "pacing"
        BY <1>1, <1>x, <2>3 DEF TakePace, DownloadsInv, Transfers, Rec
      <3> QED
        BY <2>1, <2>2, <3>1, <3>2 DEF Throttled
    <2>4. CASE GivePace(d)
      <3>1. x.phase = "pacing" /\ pace' = None /\ p # "pacing"
        BY <1>3, <1>x, <2>4 DEF TakePace, GivePace, Charge, Abandon, Working
      <3> QED
        BY <1>x, <2>1, <2>2, <3>1 DEF Throttled
    <2>5. CASE Charge(d)
      <3>1. x.phase = "charge" /\ pace' = pace /\ p # "pacing"
        BY <1>3, <1>x, <2>5 DEF TakePace, GivePace, Charge, Abandon, Goto
      <3> QED
        BY <1>x, <2>1, <2>2, <3>1 DEF Throttled
    <2>6. CASE Abandon(d)
      <3>1. pace' = (IF pace = d THEN None ELSE pace)
        BY <2>6 DEF Abandon
      <3>2. dl'[d].phase = "failing"
        BY <1>1, <1>x, <2>6 DEF Abandon, DownloadsInv, Transfers, Rec
      <3> QED
        BY <2>1, <2>2, <3>1, <3>2 DEF Throttled
    <2> QED
      BY <2>3, <2>4, <2>5, <2>6
  <1>10. used' \in [Users -> Nat] /\ \A u \in Users : used'[u] <= DailyLimit
    <2>1. used \in [Users -> Nat] /\ (\A u \in Users : used[u] <= DailyLimit) /\ DailyLimit \in Nat
      BY DownloadsAssumption DEF DownloadsInv, Rules
    <2>2. CASE used' = used
      BY <2>1, <2>2
    <2>3. CASE used' # used
      <3>u. PICK u : u = UserOf(d)
        OBVIOUS
      <3>1. u \in Users
        BY <1>1, <1>x, <3>u, DownloadsAssumption DEF UserOf, Rec
      <3>2. used' = [used EXCEPT ![u] = @ + 1] /\ used[u] + 1 <= DailyLimit
        BY <2>3, <3>u DEF TakePace, GivePace, Charge, Abandon, Goto, WithinBudget
      <3> QED
        BY <2>1, <3>1, <3>2
    <2> QED
      BY <2>2, <2>3
  <1> QED
    BY <1>x, <1>2, <1>6, <1>7, <1>8, <1>9, <1>10, OneStep

LEMMA WorkerChecks ==
    ASSUME DownloadsInv, NEW d \in Downloads,
           PartAuth(d) \/ (\E g \in Hosts : PartHost(d, g)) \/ Send(d) \/ Close(d)
    PROVE  DownloadsInv'
  <1>x. PICK x : x = dl[d]
    OBVIOUS
  <1>0. x.phase \in {"part", "hosts", "send", "failing"}
    BY <1>x DEF PartAuth, PartHost, Send, Close
  <1>1. x # Idle /\ Sound(x) /\ x \in Rec
    BY <1>0, <1>x, IdleOpensNothing DEF DownloadsInv, Transfers, Sound
  <1>2. CASE Goto(d, "failing")
    <2>1. ASSUME NEW r, r \in Rec, r.phase = "failing", OtherFields(x, r) PROVE Sound(r)
      BY <1>0, <1>1, <2>1 DEF Sound, OtherFields, Working, Checked
    <2>2. "failing" \in Phases
      BY DEF Phases, Outside, Connecting, Recording, Working
    <2> QED
      BY <1>x, <1>0, <1>1, <1>2, <2>1, <2>2, Goes
  <1>3. CASE PartAuth(d) /\ ~Goto(d, "failing")
    <2>1. /\ x.phase = "part" /\ cfg.enabled /\ token[x.token] = "valid"
          /\ dl' = [dl EXCEPT ![d] =
                [@ EXCEPT !.phase = "hosts", !.passed = {},
                          !.late = IF Withdrawn(d) THEN x.late ELSE 0]]
          /\ UNCHANGED <<policy, pace, used>>
      BY <1>3, <1>x DEF PartAuth, Goto, Authenticated
    <2>2. ~Withdrawn(d)
      BY <1>x, <2>1 DEF Withdrawn
    <2>r. PICK r : r = [x EXCEPT !.phase = "hosts", !.passed = {}, !.late = 0]
      OBVIOUS
    <2>3. /\ r \in Rec /\ r.phase = "hosts" /\ r.passed = {} /\ r.late = 0
          /\ r.hosts = x.hosts /\ r.host = x.host /\ r.cancel = x.cancel /\ r.size = x.size
          /\ r.sent = x.sent /\ r.queue = x.queue /\ r.got = x.got
          /\ r.failed = x.failed /\ r.end = x.end
      <3>1. PICK p \in Phases : p = "hosts"
        BY DEF Phases, Working
      <3>2. PICK s \in SUBSET Hosts : s = {}
        OBVIOUS
      <3>3. PICK z \in 0..MaxSize : z = 0
        BY DownloadsAssumption
      <3>4. r = [x EXCEPT !.phase = p, !.passed = s, !.late = z]
        BY <2>r, <3>1, <3>2, <3>3
      <3>5. /\ r \in Rec /\ r.phase = p /\ r.passed = s /\ r.late = z
            /\ r.hosts = x.hosts /\ r.host = x.host /\ r.cancel = x.cancel /\ r.size = x.size
            /\ r.sent = x.sent /\ r.queue = x.queue /\ r.got = x.got
            /\ r.failed = x.failed /\ r.end = x.end
        BY <1>1, <3>4 DEF Rec
      <3> QED
        BY <3>1, <3>2, <3>3, <3>5
    <2>4. Sound(r)
      BY <1>1, <2>1, <2>3 DEF Sound, Working, Checked
    <2>5. dl' = [dl EXCEPT ![d] = r]
      BY <1>x, <2>1, <2>2, <2>r
    <2>6. \A h \in blocked : Open(r, h) => Open(x, h)
      BY <2>3 DEF Open
    <2> QED
      BY <1>x, <2>1, <2>3, <2>4, <2>5, <2>6, QuietStep
  <1>4. ASSUME NEW g \in Hosts, PartHost(d, g), ~Goto(d, "failing") PROVE DownloadsInv'
    <2>1. /\ x.phase = "hosts" /\ g \in x.hosts /\ g \notin blocked
          /\ dl' = [dl EXCEPT ![d].passed = @ \cup {g}]
          /\ UNCHANGED <<policy, pace, used>>
      BY <1>4, <1>x DEF PartHost
    <2>2. x.passed \cup {g} \in SUBSET Hosts
      BY <1>1 DEF Rec
    <2>s. PICK s \in SUBSET Hosts : s = x.passed \cup {g}
      BY <2>2
    <2>r. PICK r : r = [x EXCEPT !.passed = s]
      OBVIOUS
    <2>3. /\ r \in Rec /\ r.passed = s /\ r.phase = x.phase
          /\ r.hosts = x.hosts /\ r.host = x.host /\ r.cancel = x.cancel
          /\ r.size = x.size /\ r.sent = x.sent /\ r.late = x.late /\ r.queue = x.queue
          /\ r.got = x.got /\ r.failed = x.failed /\ r.end = x.end
      BY <1>1, <2>r, PassedOnly
    <2>4. Sound(r)
      BY <1>1, <2>1, <2>3, <2>s DEF Sound, Working, Checked
    <2>5. dl' = [dl EXCEPT ![d] = r]
      BY <1>x, <2>1, <2>r, <2>s DEF DownloadsInv, Transfers
    <2>6. \A h \in blocked : Open(r, h) => Open(x, h)
      BY <2>1, <2>3, <2>s DEF Open
    <2> QED
      BY <1>x, <2>1, <2>3, <2>4, <2>5, <2>6, QuietStep
  <1>5. CASE Send(d)
    <2>l. PICK l : l = IF Withdrawn(d) THEN x.late + 1 ELSE x.late
      OBVIOUS
    <2>1. x.phase = "send" /\ x.queue = 0 /\ x.sent < x.size /\ x.late = 0 /\ UNCHANGED <<policy, pace, used>>
      BY <1>1, <1>5, <1>x DEF Send, Sound, Working, Checked
    <2>2. x.sent \in Nat /\ x.size \in Nat /\ x.size <= MaxSize /\ MaxSize \in Nat
      BY <1>1, DownloadsAssumption DEF Rec
    <2>n. PICK n \in 0..MaxSize : n = x.sent + 1
      BY <2>1, <2>2
    <2>3. l \in 0..MaxSize /\ l <= 1
      BY <2>l, <2>1, <2>2
    <2>r. PICK r : r = [x EXCEPT !.phase = "chunk", !.queue = 1, !.sent = n, !.late = l]
      OBVIOUS
    <2>4. /\ r \in Rec /\ r.phase = "chunk" /\ r.queue = 1 /\ r.sent = n /\ r.late = l
          /\ r.passed = x.passed /\ r.hosts = x.hosts /\ r.cancel = x.cancel
          /\ r.size = x.size /\ r.got = x.got /\ r.failed = x.failed /\ r.end = x.end
      <3>1. PICK p \in Phases : p = "chunk"
        BY DEF Phases, Working
      <3>2. PICK q \in 0..1 : q = 1
        OBVIOUS
      <3>4. r = [x EXCEPT !.phase = p, !.queue = q, !.sent = n, !.late = l]
        BY <2>r, <3>1, <3>2
      <3>5. /\ r \in Rec /\ r.phase = p /\ r.queue = q /\ r.sent = n /\ r.late = l
            /\ r.passed = x.passed /\ r.hosts = x.hosts /\ r.cancel = x.cancel
            /\ r.size = x.size /\ r.got = x.got /\ r.failed = x.failed /\ r.end = x.end
        BY <1>1, <2>3, <3>4 DEF Rec
      <3> QED
        BY <3>1, <3>2, <3>5
    <2>5. x.got \in Nat /\ x.sent = x.got + x.queue /\ x.sent <= x.size
      BY <1>1 DEF Sound, Rec
    <2>6. r.sent = r.got + r.queue /\ r.sent <= r.size
      BY <2>1, <2>2, <2>n, <2>4, <2>5
    <2>7. Sound(r)
      <3>1. x.passed \subseteq x.hosts /\ ~x.failed /\ x.end = None
        BY <1>1, <2>1 DEF Sound
      <3>2. ~r.failed /\ r.end = None /\ r.end # "clean" /\ r.passed \subseteq r.hosts
        BY <2>4, <3>1, DownloadsAssumption
      <3> QED
        BY <2>3, <2>4, <2>6, <3>2 DEF Sound, Working, Checked
    <2>8. dl' = [dl EXCEPT ![d] = r]
      BY <1>5, <1>x, <2>l, <2>n, <2>r DEF Send
    <2>9. \A h \in blocked : Open(r, h) => Open(x, h)
      BY <2>1, <2>4 DEF Open, Outside
    <2> QED
      BY <1>x, <2>1, <2>4, <2>7, <2>8, <2>9, QuietStep
  <1>6. CASE Close(d)
    <2>1. x.phase = "failing" /\ UNCHANGED <<policy, pace, used>>
      BY <1>6, <1>x DEF Close
    <2>r. PICK r : r = [x EXCEPT !.phase = "ended", !.failed = TRUE]
      OBVIOUS
    <2>2. /\ r \in Rec /\ r.phase = "ended" /\ r.failed = TRUE
          /\ r.passed = x.passed /\ r.hosts = x.hosts /\ r.cancel = x.cancel /\ r.size = x.size
          /\ r.sent = x.sent /\ r.late = x.late /\ r.queue = x.queue /\ r.got = x.got /\ r.end = x.end
      BY <1>1, <2>r DEF Rec, Phases, Outside
    <2>3. Sound(r)
      BY <1>1, <2>1, <2>2, DownloadsAssumption DEF Sound, Working, Checked
    <2>4. dl' = [dl EXCEPT ![d] = r]
      BY <1>6, <1>x, <2>r DEF Close
    <2>5. \A h \in blocked : Open(r, h) => Open(x, h)
      BY <2>2 DEF Open, Outside
    <2> QED
      BY <1>x, <2>1, <2>2, <2>3, <2>4, <2>5, QuietStep
  <1> QED
    BY <1>2, <1>3, <1>4, <1>5, <1>6

LEMMA ClientStep ==
    ASSUME DownloadsInv, NEW d \in Downloads,
           Receive(d) \/ Disconnect(d) \/ EndOfBody(d)
    PROVE  DownloadsInv'
  <1>x. PICK x : x = dl[d]
    OBVIOUS
  <1>0. x.phase \in Working \cup {"failing", "ended"} /\ UNCHANGED <<policy, pace, used>>
    BY <1>x DEF Receive, Disconnect, EndOfBody, Streaming
  <1>1. x # Idle /\ Sound(x) /\ x \in Rec
    BY <1>0, <1>x, IdleOpensNothing DEF DownloadsInv, Transfers, Sound, Working
  <1>2. CASE Receive(d)
    <2>1. x.queue = 1 /\ x.sent \in 0..MaxSize /\ x.got \in 0..MaxSize /\ x.sent = x.got + x.queue /\ MaxSize \in Nat
      BY <1>1, <1>2, <1>x, DownloadsAssumption DEF Receive, Sound, Rec
    <2>n. PICK n \in 0..MaxSize : n = x.got + 1
      BY <2>1
    <2>r. PICK r : r = [x EXCEPT !.queue = 0, !.got = n]
      OBVIOUS
    <2>2. /\ r \in Rec /\ r.phase = x.phase /\ r.queue = 0 /\ r.got = n
          /\ r.passed = x.passed /\ r.hosts = x.hosts /\ r.host = x.host /\ r.cancel = x.cancel
          /\ r.size = x.size /\ r.sent = x.sent /\ r.late = x.late /\ r.failed = x.failed /\ r.end = x.end
      <3>1. PICK q \in 0..1 : q = 0
        OBVIOUS
      <3>2. r = [x EXCEPT !.queue = q, !.got = n]
        BY <2>r, <3>1
      <3>3. /\ r \in Rec /\ r.phase = x.phase /\ r.queue = q /\ r.got = n
            /\ r.passed = x.passed /\ r.hosts = x.hosts /\ r.host = x.host /\ r.cancel = x.cancel
            /\ r.size = x.size /\ r.sent = x.sent /\ r.late = x.late /\ r.failed = x.failed /\ r.end = x.end
        BY <1>1, <3>2 DEF Rec
      <3> QED
        BY <3>1, <3>3
    <2>3. r.sent = r.got + r.queue
      BY <2>1, <2>2, <2>n
    <2>4. Sound(r)
      BY <1>1, <2>1, <2>2, <2>3 DEF Sound
    <2>5. dl' = [dl EXCEPT ![d] = r]
      BY <1>2, <1>x, <2>n, <2>r DEF Receive
    <2>6. \A h \in blocked : Open(r, h) => Open(x, h)
      BY <2>2 DEF Open
    <2> QED
      BY <1>0, <1>x, <2>2, <2>4, <2>5, <2>6, QuietStep
  <1>3. CASE Disconnect(d)
    <2>r. PICK r : r = [x EXCEPT !.client = "gone"]
      OBVIOUS
    <2>2. /\ r \in Rec /\ r.phase = x.phase /\ r.queue = x.queue /\ r.got = x.got
          /\ r.passed = x.passed /\ r.hosts = x.hosts /\ r.host = x.host /\ r.cancel = x.cancel
          /\ r.size = x.size /\ r.sent = x.sent /\ r.late = x.late /\ r.failed = x.failed /\ r.end = x.end
      BY <1>1, <2>r DEF Rec
    <2>4. Sound(r)
      BY <1>1, <2>2 DEF Sound
    <2>5. dl' = [dl EXCEPT ![d] = r]
      BY <1>3, <1>x, <2>r DEF Disconnect, DownloadsInv, Transfers
    <2>6. \A h \in blocked : Open(r, h) => Open(x, h)
      BY <2>2 DEF Open
    <2> QED
      BY <1>0, <1>x, <2>2, <2>4, <2>5, <2>6, QuietStep, ZenonT(30)
  <1>4. CASE EndOfBody(d)
    <2>e. PICK e \in {"error", "clean"} : e = IF x.failed THEN "error" ELSE "clean"
      OBVIOUS
    <2>r. PICK r : r = [x EXCEPT !.end = e]
      OBVIOUS
    <2>1. x.phase = "ended" /\ x.queue = 0
      BY <1>4, <1>x DEF EndOfBody
    <2>2. /\ r \in Rec /\ r.phase = x.phase /\ r.queue = x.queue /\ r.got = x.got
          /\ r.passed = x.passed /\ r.hosts = x.hosts /\ r.host = x.host /\ r.cancel = x.cancel
          /\ r.size = x.size /\ r.sent = x.sent /\ r.late = x.late /\ r.failed = x.failed /\ r.end = e
      BY <1>1, <2>r DEF Rec
    <2>4. Sound(r)
      BY <1>1, <2>1, <2>2, <2>e DEF Sound, Working, Checked
    <2>5. dl' = [dl EXCEPT ![d] = r]
      BY <1>4, <1>x, <2>r, <2>e DEF EndOfBody, DownloadsInv, Transfers
    <2>6. \A h \in blocked : Open(r, h) => Open(x, h)
      BY <2>2 DEF Open
    <2> QED
      BY <1>0, <1>x, <2>2, <2>4, <2>5, <2>6, QuietStep, ZenonT(30)
  <1> QED
    BY <1>2, <1>3, <1>4

-----------------------------------------------------------------------------
(* The policy handlers.                                                     *)

\* Signalling opens nothing, and closes what it signals.
LEMMA Signalled ==
    ASSUME DownloadsInv, NEW S, S \subseteq Active, dl' = Signal(S),
           UNCHANGED <<token, allowed, blocked, cfg, pace, used, silent>>,
           admin' \in [Admins -> Pending]
    PROVE  /\ Transfers' /\ Throttled' /\ Rules'
           /\ \A d \in Downloads, h \in Hosts : Open(dl'[d], h) => Open(dl[d], h) /\ d \notin S
  <1>1. /\ dl' = [d \in Downloads |-> dl'[d]] /\ DOMAIN dl' = Downloads
        /\ \A d \in Downloads :
              dl'[d] = IF d \in S THEN [dl[d] EXCEPT !.cancel = TRUE] ELSE dl[d]
    BY DEF Signal
  <1>2. ASSUME NEW d \in Downloads
        PROVE  /\ dl'[d] = Idle \/ Sound(dl'[d])
               /\ dl'[d].phase = dl[d].phase
               /\ \A h \in Hosts : Open(dl'[d], h) => Open(dl[d], h) /\ d \notin S
    <2>1. CASE d \notin S
      BY <1>1, <2>1 DEF DownloadsInv, Transfers
    <2>2. CASE d \in S
      <3>x. PICK x : x = dl[d]
        OBVIOUS
      <3>1. x # Idle /\ Sound(x) /\ x \in Rec
        BY <2>2, <3>x, IdleOpensNothing DEF Active, Outside, DownloadsInv, Transfers, Sound
      <3>r. PICK r : r = [x EXCEPT !.cancel = TRUE]
        OBVIOUS
      <3>2. /\ r \in Rec /\ r.phase = x.phase /\ r.cancel = TRUE /\ r.queue = x.queue /\ r.got = x.got
            /\ r.passed = x.passed /\ r.hosts = x.hosts /\ r.host = x.host
            /\ r.size = x.size /\ r.sent = x.sent /\ r.late = x.late /\ r.failed = x.failed /\ r.end = x.end
        BY <3>1, <3>r DEF Rec
      <3>3. Sound(r)
        BY <3>1, <3>2 DEF Sound
      <3>4. dl'[d] = r
        BY <1>1, <2>2, <3>x, <3>r
      <3> QED
        BY <3>x, <3>2, <3>3, <3>4 DEF Open
    <2> QED
      BY <2>1, <2>2
  <1>3. Transfers'
    BY <1>1, <1>2 DEF Transfers
  <1>4. Throttled'
    BY <1>2 DEF Throttled, DownloadsInv
  <1>5. Rules'
    BY DEF Rules, DownloadsInv
  <1> QED
    BY <1>2, <1>3, <1>4, <1>5

\* The record of a handler that is about to signal a host.
LEMMA DomainRecord ==
    /\ \A h \in Hosts : /\ [op |-> "domain", host |-> h] \in Pending
                         /\ [op |-> "domain", host |-> h] # None
                         /\ [op |-> "domain", host |-> h].op = "domain"
                         /\ [op |-> "domain", host |-> h].host = h
    /\ \A q \in Pending : (q # None /\ q.op = "domain") => q.host \in Hosts /\ q = [op |-> "domain", host |-> q.host]
    /\ \A q \in Pending : (q # None /\ q.op \in {"cancel", "write"}) =>
          q \in [op : {"cancel", "write"}, config : Configs, again : BOOLEAN]
  BY NoneAssumption DEF Pending

\* A handler that is at something else may change what it has to do.
LEMMA SignallingStays ==
    ASSUME admin \in [Admins -> Pending], NEW a \in Admins, NEW q, NEW h,
           admin' = admin \/ admin' = [admin EXCEPT ![a] = q],
           admin[a] # [op |-> "domain", host |-> h], Signalling(h)
    PROVE  Signalling(h)'
  BY DEF Signalling

LEMMA Signals ==
    ASSUME DownloadsInv,
           \/ \E a \in Admins : CancelBeforeWrite(a) \/ SignalTargets(a)
           \/ \E d \in Downloads : Terminate(d)
    PROVE  DownloadsInv'
  <1>0. /\ admin \in [Admins -> Pending] /\ blocked \subseteq Hosts
        /\ \A h \in blocked \ silent : Signalling(h) \/ \A e \in Downloads : ~Open(dl[e], h)
    BY DEF DownloadsInv, Rules, Enforced
  <1>1. ASSUME NEW a \in Admins, CancelBeforeWrite(a) PROVE DownloadsInv'
    <2>q. PICK q : q = [admin[a] EXCEPT !.op = "write"]
      OBVIOUS
    <2>1. /\ admin[a] # None /\ admin[a].op = "cancel" /\ dl' = Signal(Active)
          /\ admin' = [admin EXCEPT ![a] = q]
          /\ UNCHANGED <<token, allowed, blocked, cfg, pace, used, silent>>
      BY <1>0, <1>1, <2>q DEF CancelBeforeWrite
    <2>2. q \in Pending
      <3>1. admin[a] \in [op : {"cancel", "write"}, config : Configs, again : BOOLEAN]
        BY <1>0, <2>1, DomainRecord
      <3>2. q \in [op : {"cancel", "write"}, config : Configs, again : BOOLEAN]
        BY <2>q, <3>1
      <3> QED
        BY <3>2 DEF Pending
    <2>3. admin' \in [Admins -> Pending]
      BY <1>0, <2>1, <2>2
    <2>4. /\ Transfers' /\ Throttled' /\ Rules'
          /\ \A d \in Downloads, h \in Hosts : Open(dl'[d], h) => Open(dl[d], h)
      BY <2>1, <2>3, Signalled
    <2>5. ASSUME NEW h \in blocked \ silent PROVE Signalling(h)' \/ \A e \in Downloads : ~Open(dl'[e], h)
      <3>1. admin[a] # [op |-> "domain", host |-> h]
        BY <1>0, <2>1, DomainRecord
      <3>2. Signalling(h) => Signalling(h)'
        BY <1>0, <2>1, <3>1, SignallingStays
      <3> QED
        BY <1>0, <2>4, <3>2
    <2>6. Enforced'
      BY <2>1, <2>5 DEF Enforced
    <2> QED
      BY <2>4, <2>6 DEF DownloadsInv
  <1>2. ASSUME NEW a \in Admins, SignalTargets(a) PROVE DownloadsInv'
    <2>q. PICK q : q = admin[a]
      OBVIOUS
    <2>s. PICK S : S = Targets(q)
      OBVIOUS
    <2>1. /\ q \in Pending /\ q # None /\ q.op \in {"domain", "user", "all"} /\ dl' = Signal(S)
          /\ admin' = [admin EXCEPT ![a] = None]
          /\ UNCHANGED <<token, allowed, blocked, cfg, pace, used, silent>>
      BY <1>0, <1>2, <2>q, <2>s DEF SignalTargets
    <2>2. S \subseteq Active /\ (q.op = "domain" => S = {d \in Active : q.host \in dl[d].hosts})
      BY <2>1, <2>s DEF Targets
    <2>3. admin' \in [Admins -> Pending]
      BY <1>0, <2>1 DEF Pending
    <2>4. /\ Transfers' /\ Throttled' /\ Rules'
          /\ \A d \in Downloads, h \in Hosts : Open(dl'[d], h) => Open(dl[d], h) /\ d \notin S
      BY <2>1, <2>2, <2>3, Signalled
    <2>5. ASSUME NEW h \in blocked \ silent PROVE Signalling(h)' \/ \A e \in Downloads : ~Open(dl'[e], h)
      <3>1. CASE q = [op |-> "domain", host |-> h]
        <4>1. q.op = "domain" /\ q.host = h /\ h \in Hosts
          BY <1>0, <3>1, DomainRecord
        <4>2. ASSUME NEW e \in Downloads, Open(dl'[e], h) PROVE FALSE
          <5>1. Open(dl[e], h) /\ e \notin S
            BY <2>4, <4>1, <4>2
          <5>2. e \in Active /\ h \in dl[e].passed
            BY <5>1 DEF Open, Active
          <5>3. dl[e] # Idle
            BY <5>2, IdleOpensNothing DEF Active, Outside
          <5>4. h \in dl[e].hosts
            BY <5>2, <5>3 DEF DownloadsInv, Transfers, Sound
          <5> QED
            BY <2>2, <4>1, <5>1, <5>2, <5>4
        <4> QED
          BY <4>2
      <3>2. CASE q # [op |-> "domain", host |-> h]
        <4>1. Signalling(h) => Signalling(h)'
          BY <1>0, <2>1, <2>q, <3>2, SignallingStays
        <4> QED
          BY <1>0, <2>4, <4>1
      <3> QED
        BY <3>1, <3>2
    <2>6. Enforced'
      BY <2>1, <2>5 DEF Enforced
    <2> QED
      BY <2>4, <2>6 DEF DownloadsInv
  <1>3. ASSUME NEW d \in Downloads, Terminate(d) PROVE DownloadsInv'
    <2>1. /\ dl' = Signal({d}) /\ {d} \subseteq Active /\ UNCHANGED admin
          /\ UNCHANGED <<token, allowed, blocked, cfg, pace, used, silent>>
      BY <1>3 DEF Terminate, policy
    <2>2. admin' \in [Admins -> Pending]
      BY <1>0, <2>1
    <2>4. /\ Transfers' /\ Throttled' /\ Rules'
          /\ \A e \in Downloads, h \in Hosts : Open(dl'[e], h) => Open(dl[e], h)
      BY <2>1, <2>2, Signalled
    <2>5. ASSUME NEW h \in blocked \ silent PROVE Signalling(h)' \/ \A e \in Downloads : ~Open(dl'[e], h)
      <3>1. Signalling(h) => Signalling(h)'
        BY <2>1 DEF Signalling
      <3> QED
        BY <1>0, <2>4, <3>1
    <2>6. Enforced'
      BY <2>1, <2>5 DEF Enforced
    <2> QED
      BY <2>4, <2>6 DEF DownloadsInv
  <1> QED
    BY <1>1, <1>2, <1>3

\* A handler commits: what it blocks, it is about to signal.
LEMMA Commits ==
    ASSUME DownloadsInv, Rules', NEW a \in Admins, NEW q,
           UNCHANGED <<dl, pace>>,
           admin' = admin \/ admin' = [admin EXCEPT ![a] = q],
           \A h \in Hosts : admin[a] # [op |-> "domain", host |-> h],
           \A h \in blocked' \ silent' : h \in blocked \ silent \/ Signalling(h)'
    PROVE  DownloadsInv'
  <1>1. Transfers' /\ Throttled'
    BY DEF DownloadsInv, Transfers, Throttled
  <1>2. ASSUME NEW h \in blocked' \ silent'
        PROVE  Signalling(h)' \/ \A e \in Downloads : ~Open(dl'[e], h)
    <2>1. CASE h \in blocked \ silent
      <3>1. h \in Hosts /\ admin \in [Admins -> Pending]
        BY <2>1 DEF DownloadsInv, Rules
      <3>2. Signalling(h) => Signalling(h)'
        BY <3>1, SignallingStays
      <3> QED
        BY <2>1, <3>2 DEF DownloadsInv, Enforced
    <2> QED
      BY <2>1
  <1>3. Enforced'
    BY <1>2 DEF Enforced
  <1> QED
    BY <1>1, <1>3 DEF DownloadsInv

LEMMA PolicyStep ==
    ASSUME DownloadsInv, NEW a \in Admins,
           \/ \E t \in Tokens : RevokeToken(a, t)
           \/ \E u \in Users : SetPermission(a, u)
           \/ \E h \in Hosts : SetBlock(a, h) \/ Unblock(a, h)
           \/ \E c \in Configs, again \in BOOLEAN : SaveConfig(a, c, again)
           \/ WriteConfig(a)
    PROVE  DownloadsInv'
  <1>0. /\ token \in [Tokens -> {"none", "valid", "revoked"}]
        /\ allowed \subseteq Users /\ blocked \subseteq Hosts /\ silent \subseteq blocked
        /\ cfg \in Configs /\ admin \in [Admins -> Pending] /\ pace \in Downloads \cup {None}
        /\ used \in [Users -> Nat] /\ \A u \in Users : used[u] <= DailyLimit
    BY DEF DownloadsInv, Rules
  <1>n. admin[a] = None => \A h \in Hosts : admin[a] # [op |-> "domain", host |-> h]
    BY DomainRecord
  <1>1. ASSUME NEW t \in Tokens, RevokeToken(a, t) PROVE DownloadsInv'
    <2>q. PICK q : q = [op |-> "user", user |-> Owner[t]]
      OBVIOUS
    <2>1. q \in Pending
      BY <2>q, DownloadsAssumption DEF Pending
    <2>2. /\ admin[a] = None /\ token' = [token EXCEPT ![t] = "revoked"]
          /\ admin' = admin \/ admin' = [admin EXCEPT ![a] = q]
          /\ UNCHANGED <<dl, allowed, blocked, cfg, pace, used, silent>>
      BY <1>1, <2>q DEF RevokeToken, Committed
    <2>3. Rules'
      BY <1>0, <2>1, <2>2 DEF Rules
    <2> QED
      BY <1>n, <2>2, <2>3, Commits
  <1>2. ASSUME NEW u \in Users, SetPermission(a, u) PROVE DownloadsInv'
    <2>q. PICK q : q = [op |-> "all"]
      OBVIOUS
    <2>1. q \in Pending
      BY <2>q DEF Pending
    <2>2. /\ admin[a] = None /\ allowed' = (allowed \ {u}) \cup ({u} \ allowed)
          /\ admin' = admin \/ admin' = [admin EXCEPT ![a] = q]
          /\ UNCHANGED <<dl, token, blocked, cfg, pace, used, silent>>
      BY <1>2, <2>q DEF SetPermission, Committed
    <2>3. Rules'
      BY <1>0, <2>1, <2>2 DEF Rules
    <2> QED
      BY <1>n, <2>2, <2>3, Commits
  <1>3. ASSUME NEW g \in Hosts, SetBlock(a, g) PROVE DownloadsInv'
    <2>q. PICK q : q = [op |-> "domain", host |-> g]
      OBVIOUS
    <2>1. q \in Pending
      BY <2>q, DomainRecord
    <2>2. /\ admin[a] = None /\ blocked' = blocked \cup {g}
          /\ admin' = admin \/ admin' = [admin EXCEPT ![a] = q]
          /\ silent' = IF admin' = admin THEN silent \cup {g} ELSE silent \ {g}
          /\ UNCHANGED <<dl, token, allowed, cfg, pace, used>>
      BY <1>3, <2>q DEF SetBlock, Committed
    <2>3. Rules'
      BY <1>0, <2>1, <2>2 DEF Rules
    <2>4. ASSUME NEW h \in blocked' \ silent' PROVE h \in blocked \ silent \/ Signalling(h)'
      <3>1. CASE admin' = admin
        BY <2>2, <2>4, <3>1
      <3>2. CASE admin' # admin
        <4>1. admin'[a] = q
          BY <1>0, <2>2, <3>2
        <4>2. CASE h = g
          BY <2>q, <4>1, <4>2 DEF Signalling
        <4>3. CASE h # g
          BY <2>2, <2>4, <3>2, <4>3
        <4> QED
          BY <4>2, <4>3
      <3> QED
        BY <3>1, <3>2
    <2> QED
      BY <1>n, <2>2, <2>3, <2>4, Commits
  <1>4. ASSUME NEW g \in Hosts, Unblock(a, g) PROVE DownloadsInv'
    <2>2. /\ admin[a] = None /\ blocked' = blocked \ {g} /\ silent' = silent \ {g}
          /\ UNCHANGED <<dl, token, allowed, cfg, admin, pace, used>>
      BY <1>4 DEF Unblock
    <2>3. Rules'
      BY <1>0, <2>2 DEF Rules
    <2> QED
      BY <1>n, <2>2, <2>3, Commits
  <1>5. ASSUME NEW c \in Configs, NEW again \in BOOLEAN, SaveConfig(a, c, again) PROVE DownloadsInv'
    <2>q. PICK q : q = [op |-> "cancel", config |-> c, again |-> again]
      OBVIOUS
    <2>1. q \in Pending
      BY <2>q DEF Pending
    <2>2. /\ admin[a] = None /\ admin' = [admin EXCEPT ![a] = q]
          /\ UNCHANGED <<dl, token, allowed, blocked, cfg, pace, used, silent>>
      BY <1>5, <2>q DEF SaveConfig
    <2>3. Rules'
      BY <1>0, <2>1, <2>2 DEF Rules
    <2> QED
      BY <1>n, <2>2, <2>3, Commits
  <1>6. CASE WriteConfig(a)
    <2>q. PICK q : q = IF admin[a].again THEN [op |-> "all"] ELSE None
      OBVIOUS
    <2>1. q \in Pending
      BY <2>q DEF Pending
    <2>2. /\ admin[a] # None /\ admin[a].op = "write" /\ cfg' = admin[a].config
          /\ admin' = [admin EXCEPT ![a] = q]
          /\ UNCHANGED <<dl, token, allowed, blocked, pace, used, silent>>
      BY <1>0, <1>6, <2>q DEF WriteConfig
    <2>3. admin[a] \in [op : {"cancel", "write"}, config : Configs, again : BOOLEAN]
      BY <1>0, <2>2, DomainRecord
    <2>4. cfg' \in Configs
      BY <2>2, <2>3
    <2>5. Rules'
      BY <1>0, <2>1, <2>2, <2>4 DEF Rules
    <2>6. \A h \in Hosts : admin[a] # [op |-> "domain", host |-> h]
      BY <2>2, DomainRecord
    <2> QED
      BY <2>2, <2>5, <2>6, Commits
  <1> QED
    BY <1>1, <1>2, <1>3, <1>4, <1>5, <1>6

-----------------------------------------------------------------------------
(* The daily budget.  A part is charged before it is queued: what the       *)
(* transfers of a user have queued, and the parts charged and about to be   *)
(* queued, are covered by the charges.                                      *)

Owed(x, u) ==
    IF x # Idle /\ Owner[x.token] = u
    THEN x.sent + (IF x.phase = "send" THEN 1 ELSE 0) ELSE 0

OwedBy(transfers, u) == [d \in Downloads |-> Owed(transfers[d], u)]

Covered == \A u \in Users : SumFunctionOnSet(OwedBy(dl, u), Downloads) <= used[u]

LEMMA OwedNatural ==
    ASSUME Transfers, NEW u
    PROVE  /\ \A d \in Downloads : /\ OwedBy(dl, u)[d] = Owed(dl[d], u) /\ Owed(dl[d], u) \in Nat
                                   /\ PartsFor(dl[d], u) \in Nat /\ PartsFor(dl[d], u) <= Owed(dl[d], u)
           /\ SumFunctionOnSet(OwedBy(dl, u), Downloads) \in Nat
  <1>1. ASSUME NEW d \in Downloads
        PROVE  /\ OwedBy(dl, u)[d] = Owed(dl[d], u) /\ Owed(dl[d], u) \in Nat
               /\ PartsFor(dl[d], u) \in Nat /\ PartsFor(dl[d], u) <= Owed(dl[d], u)
    <2>1. dl[d] = Idle \/ dl[d].sent \in Nat
      BY DownloadsAssumption DEF Transfers, Sound, Rec
    <2> QED
      BY <2>1 DEF OwedBy, Owed, PartsFor
  <1>2. SumFunctionOnSet(OwedBy(dl, u), Downloads) \in Nat
    BY <1>1, DownloadsAssumption, SumWithout
  <1> QED
    BY <1>1, <1>2

\* No transfer owes more and nothing is charged.
LEMMA NoneOwesMore ==
    ASSUME Transfers, Transfers', Rules, Covered, used' = used,
           \A d \in Downloads, u \in Users : Owed(dl'[d], u) <= Owed(dl[d], u)
    PROVE  Covered'
  <1> SUFFICES ASSUME NEW u \in Users
               PROVE  SumFunctionOnSet(OwedBy(dl', u), Downloads) <= used[u]
    BY DEF Covered, OwedBy
  <1>e. PICK e : e = OwedBy(dl', u)
    OBVIOUS
  <1>f. PICK f : f = OwedBy(dl, u)
    OBVIOUS
  <1>1. \A d \in Downloads : f[d] = Owed(dl[d], u) /\ f[d] \in Nat
    BY <1>f, OwedNatural
  <1>2. \A d \in Downloads : e[d] = Owed(dl'[d], u) /\ e[d] \in Nat
    <2>1. ASSUME NEW d \in Downloads PROVE e[d] = Owed(dl'[d], u) /\ e[d] \in Nat
      <3>1. dl'[d] = Idle \/ dl'[d].sent \in Nat
        BY DownloadsAssumption DEF Transfers, Sound, Rec
      <3> QED
        BY <1>e, <3>1 DEF OwedBy, Owed
    <2> QED
      BY <2>1
  <1>3. SumFunctionOnSet(e, Downloads) <= SumFunctionOnSet(f, Downloads)
    BY <1>1, <1>2, DownloadsAssumption, SumMonotone
  <1>4. SumFunctionOnSet(f, Downloads) <= used[u] /\ used[u] \in Nat
    BY <1>f DEF Covered, Rules
  <1>5. SumFunctionOnSet(e, Downloads) \in Nat /\ SumFunctionOnSet(f, Downloads) \in Nat
    BY <1>1, <1>2, DownloadsAssumption, SumWithout
  <1> QED
    BY <1>3, <1>4, <1>5, <1>e

\* The successor of a transfer that owes no more than it did.
NoMore(x, r) ==
    \/ r = Idle
    \/ r.sent = 0 /\ r.phase # "send"
    \/ /\ x \in Rec /\ r.token = x.token
       /\ \/ r.sent = x.sent /\ (r.phase = "send" => x.phase = "send")
          \/ x.phase = "send" /\ r.phase # "send" /\ r.sent = x.sent + 1

LEMMA OneOwesNoMore ==
    ASSUME DownloadsInv, DownloadsInv', Covered, used' = used,
           NEW d \in Downloads, NEW r, dl' = [dl EXCEPT ![d] = r], NoMore(dl[d], r)
    PROVE  Covered'
  <1>0. Transfers /\ Transfers' /\ Rules
    BY DEF DownloadsInv
  <1>1. dl'[d] = r /\ \A e \in Downloads : e # d => dl'[e] = dl[e]
    BY <1>0 DEF Transfers
  <1>2. \A u : Owed(dl[d], u) \in Nat
    BY <1>0, OwedNatural
  <1>3. \A u : Owed(r, u) <= Owed(dl[d], u)
    <2>1. ASSUME dl[d] \in Rec PROVE dl[d] # Idle /\ dl[d].sent \in Nat
      BY <2>1, IdleOpensNothing, DownloadsAssumption DEF Rec, Phases
    <2> QED
      BY <1>2, <2>1 DEF NoMore, Owed
  <1>4. \A e \in Downloads : \A u : Owed(dl[e], u) <= Owed(dl[e], u)
    BY <1>0, OwedNatural
  <1> QED
    BY <1>0, <1>1, <1>3, <1>4, NoneOwesMore

\* The part is charged and about to be queued.
LEMMA ChargedCovers ==
    ASSUME DownloadsInv, DownloadsInv', Covered, NEW d \in Downloads, NEW r,
           dl' = [dl EXCEPT ![d] = r], r \in Rec, dl[d] \in Rec, dl[d].phase # "send",
           r.token = dl[d].token, r.sent = dl[d].sent, r.phase = "send",
           used' = [used EXCEPT ![Owner[r.token]] = @ + 1]
    PROVE  Covered'
  <1> SUFFICES ASSUME NEW u \in Users
               PROVE  SumFunctionOnSet(OwedBy(dl', u), Downloads) <= used'[u]
    BY DEF Covered, OwedBy
  <1>0. Transfers /\ Transfers' /\ used \in [Users -> Nat] /\ IsFiniteSet(Downloads)
    BY DownloadsAssumption DEF DownloadsInv, Rules
  <1>e. PICK e : e = OwedBy(dl, u)
    OBVIOUS
  <1>f. PICK f : f = OwedBy(dl', u)
    OBVIOUS
  <1>1. \A x \in Downloads : e[x] = Owed(dl[x], u) /\ e[x] \in Nat
    BY <1>0, <1>e, OwedNatural
  <1>2. dl'[d] = r /\ \A x \in Downloads : x # d => dl'[x] = dl[x]
    BY <1>0 DEF Transfers
  <1>3. \A x \in Downloads : f[x] = Owed(dl'[x], u)
    BY <1>f DEF OwedBy
  <1>4. dl[d] # Idle /\ r # Idle /\ dl[d].sent \in Nat
    BY IdleOpensNothing, DownloadsAssumption DEF Rec, Phases
  <1>5. f[d] = e[d] + (IF Owner[r.token] = u THEN 1 ELSE 0)
    BY <1>1, <1>2, <1>3, <1>4 DEF Owed
  <1>6. \A x \in Downloads : f[x] \in Nat /\ (x # d => e[x] = f[x])
    BY <1>1, <1>2, <1>3, <1>5
  <1>7. SumFunctionOnSet(f, Downloads) + e[d] = SumFunctionOnSet(e, Downloads) + f[d]
    BY <1>0, <1>1, <1>6, SumChanges
  <1>8. SumFunctionOnSet(e, Downloads) <= used[u] /\ used[u] \in Nat
    BY <1>0, <1>e DEF Covered
  <1>9. SumFunctionOnSet(e, Downloads) \in Nat /\ SumFunctionOnSet(f, Downloads) \in Nat
    BY <1>0, <1>1, <1>6, SumWithout
  <1>10. used'[u] = used[u] + (IF Owner[r.token] = u THEN 1 ELSE 0)
    BY <1>0
  <1> QED
    BY <1>1, <1>5, <1>7, <1>8, <1>9, <1>10, <1>f

\* A signal changes no transfer's account.
LEMMA SignalOwes ==
    ASSUME DownloadsInv, DownloadsInv', Covered, used' = used,
           NEW S \in SUBSET Downloads, dl' = Signal(S), \A d \in S : dl[d] \in Rec
    PROVE  Covered'
  <1>0. Transfers /\ Transfers' /\ Rules
    BY DEF DownloadsInv
  <1>1. ASSUME NEW d \in Downloads, NEW u \in Users PROVE Owed(dl'[d], u) <= Owed(dl[d], u)
    <2>1. Owed(dl[d], u) \in Nat
      BY <1>0, OwedNatural
    <2>2. CASE d \notin S
      BY <2>1, <2>2 DEF Signal
    <2>3. CASE d \in S
      <3>x. PICK x : x = dl[d]
        OBVIOUS
      <3>r. PICK r : r = [x EXCEPT !.cancel = TRUE]
        OBVIOUS
      <3>1. dl'[d] = r /\ x \in Rec
        BY <2>3, <3>x, <3>r DEF Signal
      <3>2. r.token = x.token /\ r.sent = x.sent /\ r.phase = x.phase /\ r \in Rec
        BY <3>1, <3>r DEF Rec
      <3>3. x # Idle /\ r # Idle
        BY <3>1, <3>2, IdleOpensNothing DEF Rec, Phases
      <3>4. Owed(r, u) = Owed(x, u)
        BY <3>2, <3>3 DEF Owed
      <3> QED
        BY <2>1, <3>1, <3>4, <3>x
    <2> QED
      BY <2>2, <2>3
  <1> QED
    BY <1>0, <1>1, NoneOwesMore

LEMMA CoveredServer ==
    ASSUME DownloadsInv, DownloadsInv', Covered, NEW d \in Downloads, ServerStep(d) \/ Outcome(d)
    PROVE  Covered'
  <1>x. PICK x : x = dl[d]
    OBVIOUS
  <1>0. DOMAIN dl = Downloads /\ (x.phase # "idle" => x \in Rec)
    BY <1>x, IdleOpensNothing DEF DownloadsInv, Transfers, Sound
  <1>1. ASSUME Leave(d) PROVE Covered'
    BY <1>1, OneOwesNoMore DEF Leave, NoMore
  <1>2. ASSUME NEW p \in Phases, p # "send", x.phase # "idle",
               dl' = [dl EXCEPT ![d].phase = p], used' = used
        PROVE  Covered'
    <2>r. PICK r : r = [x EXCEPT !.phase = p]
      OBVIOUS
    <2>1. r.phase = p /\ r.token = x.token /\ r.sent = x.sent
      BY <1>0, <1>2, <2>r, PhaseOnly DEF OtherFields
    <2>2. dl' = [dl EXCEPT ![d] = r]
      BY <1>2, <1>x, <2>r
    <2>3. NoMore(dl[d], r)
      BY <1>0, <1>2, <1>x, <2>1 DEF NoMore
    <2> QED
      BY <1>2, <2>2, <2>3, OneOwesNoMore
  <1>3. ASSUME NEW r, dl' = [dl EXCEPT ![d] = r], x.phase # "idle", r.token = x.token,
               r.sent = x.sent, r.phase = "send" => x.phase = "send", used' = used
        PROVE  Covered'
    BY <1>0, <1>3, <1>x, OneOwesNoMore DEF NoMore
  <1>4. ASSUME \/ Redirected(d) \/ Refuse(d) \/ Spawn(d) \/ NextChunk(d) \/ HostsDone(d)
               \/ TakePace(d) \/ GivePace(d) \/ Reauth(d) \/ Complete(d)
               \/ Cancelled(d) \/ ClientClosed(d) \/ Interrupted(d)
        PROVE  Covered'
    <2>1. /\ x.phase # "idle" /\ used' = used
          /\ \E p \in {"hop", "refused", "chunk", "failing", "part", "throttle", "pacing",
                       "reauth", "charge", "ended"} : dl' = [dl EXCEPT ![d].phase = p]
      BY <1>4, <1>x DEF Redirected, Refuse, Spawn, NextChunk, HostsDone, TakePace, GivePace, Reauth,
         Complete, Cancelled, ClientClosed, Interrupted, Abandon, Goto, Connecting, Working
    <2>2. \A p \in {"hop", "refused", "chunk", "failing", "part", "throttle", "pacing",
                    "reauth", "charge", "ended"} : p \in Phases /\ p # "send"
      BY DEF Phases, Outside, Connecting, Recording, Working
    <2> QED
      BY <1>2, <2>1, <2>2
  <1>5. ASSUME CancelEarly(d) \/ Refused(d) \/ DropHandler(d) \/ Return(d) \/ Forget(d)
        PROVE  Covered'
    BY <1>1, <1>5 DEF CancelEarly, Refused, DropHandler, Return, Forget
  <1>6. ASSUME Acquire(d) PROVE Covered'
    <2>1. Leave(d) \/ (dl' = [dl EXCEPT ![d].phase = "hop"] /\ used' = used /\ x.phase # "idle")
      BY <1>6, <1>x DEF Acquire, Leave
    <2>2. "hop" \in Phases
      BY DEF Phases, Connecting
    <2> QED
      BY <1>1, <1>2, <2>1, <2>2
  <1>7. ASSUME Snapshot(d) PROVE Covered'
    <2>r. PICK r : r = [x EXCEPT !.phase = "acquire", !.config = cfg]
      OBVIOUS
    <2>1. x.phase = "ready" /\ dl' = [dl EXCEPT ![d] = r] /\ used' = used
      BY <1>7, <1>x, <2>r DEF Snapshot
    <2>2. r.token = x.token /\ r.sent = x.sent /\ r.phase = "acquire"
      BY <1>0, <2>1, <2>r DEF Rec
    <2> QED
      BY <1>3, <2>1, <2>2
  <1>8. ASSUME CheckHost(d) PROVE Covered'
    <2>r. PICK r : r = [x EXCEPT !.phase = "fetch", !.passed = x.passed \cup {x.host}]
      OBVIOUS
    <2>1. /\ x.phase = "check" /\ used' = used
          /\ dl' = [dl EXCEPT ![d] = r] \/ dl' = [dl EXCEPT ![d].phase = "refused"]
      BY <1>8, <1>x, <2>r DEF CheckHost
    <2>2. r.token = x.token /\ r.sent = x.sent /\ r.phase = "fetch"
      BY <1>0, <2>1, <2>r DEF Rec
    <2>3. "refused" \in Phases
      BY DEF Phases, Recording
    <2> QED
      BY <1>2, <1>3, <2>1, <2>2, <2>3
  <1>9. ASSUME PartAuth(d) PROVE Covered'
    <2>r. PICK r : r = [x EXCEPT !.phase = "hosts", !.passed = {},
                                 !.late = IF Withdrawn(d) THEN x.late ELSE 0]
      OBVIOUS
    <2>1. /\ x.phase = "part" /\ used' = used
          /\ dl' = [dl EXCEPT ![d] = r] \/ dl' = [dl EXCEPT ![d].phase = "failing"]
      BY <1>9, <1>x, <2>r DEF PartAuth
    <2>2. r.token = x.token /\ r.sent = x.sent /\ r.phase = "hosts"
      BY <1>0, <2>1, <2>r DEF Rec
    <2>3. "failing" \in Phases
      BY DEF Phases
    <2> QED
      BY <1>2, <1>3, <2>1, <2>2, <2>3
  <1>10. ASSUME NEW h \in Hosts, PartHost(d, h) PROVE Covered'
    <2>r. PICK r : r = [x EXCEPT !.passed = x.passed \cup {h}]
      OBVIOUS
    <2>1. /\ x.phase = "hosts" /\ used' = used
          /\ dl' = [dl EXCEPT ![d] = r] \/ dl' = [dl EXCEPT ![d].phase = "failing"]
      BY <1>10, <1>x, <2>r DEF PartHost, Goto
    <2>2. r.token = x.token /\ r.sent = x.sent /\ r.phase = x.phase
      BY <1>0, <2>1, <2>r DEF Rec
    <2>3. "failing" \in Phases
      BY DEF Phases
    <2> QED
      BY <1>2, <1>3, <2>1, <2>2, <2>3
  <1>11. ASSUME Charge(d) PROVE Covered'
    <2>r. PICK r : r = [x EXCEPT !.phase = "send"]
      OBVIOUS
    <2>1. x.phase = "charge" /\ x \in Rec
      BY <1>0, <1>11, <1>x DEF Charge
    <2>2. r \in Rec /\ r.phase = "send" /\ r.token = x.token /\ r.sent = x.sent
      BY <2>1, <2>r, PhaseOnly DEF OtherFields, Phases, Working
    <2>3. \/ dl' = [dl EXCEPT ![d] = r] /\ used' = [used EXCEPT ![Owner[r.token]] = @ + 1]
          \/ dl' = [dl EXCEPT ![d].phase = "failing"] /\ used' = used
      BY <1>11, <1>x, <2>2, <2>r DEF Charge, UserOf, Goto
    <2>4. "failing" \in Phases
      BY DEF Phases
    <2> QED
      BY <1>2, <1>x, <2>1, <2>2, <2>3, <2>4, ChargedCovers
  <1>12. ASSUME Send(d) PROVE Covered'
    <2>l. PICK l : l = IF Withdrawn(d) THEN x.late + 1 ELSE x.late
      OBVIOUS
    <2>r. PICK r : r = [x EXCEPT !.phase = "chunk", !.queue = 1, !.sent = x.sent + 1, !.late = l]
      OBVIOUS
    <2>1. x.phase = "send" /\ x \in Rec /\ dl' = [dl EXCEPT ![d] = r] /\ used' = used
      BY <1>0, <1>12, <1>x, <2>l, <2>r DEF Send
    <2>2. r.token = x.token /\ r.sent = x.sent + 1 /\ r.phase = "chunk"
      BY <2>1, <2>r DEF Rec
    <2>3. NoMore(dl[d], r)
      BY <1>x, <2>1, <2>2 DEF NoMore
    <2> QED
      BY <2>1, <2>3, OneOwesNoMore
  <1>13. ASSUME Close(d) PROVE Covered'
    <2>r. PICK r : r = [x EXCEPT !.phase = "ended", !.failed = TRUE]
      OBVIOUS
    <2>1. x.phase = "failing" /\ dl' = [dl EXCEPT ![d] = r] /\ used' = used
      BY <1>13, <1>x, <2>r DEF Close
    <2>2. r.token = x.token /\ r.sent = x.sent /\ r.phase = "ended"
      BY <1>0, <2>1, <2>r DEF Rec
    <2> QED
      BY <1>3, <2>1, <2>2
  <1>14. ASSUME NEW t \in Tokens, Authorize(d, t) PROVE Covered'
    <2>r. PICK r : r = [phase |-> "ready", token |-> t, config |-> None, hosts |-> {},
           host |-> None, passed |-> {}, hops |-> 0, cancel |-> FALSE,
           size |-> 0, sent |-> 0, late |-> 0, queue |-> 0, got |-> 0,
           client |-> "reading", failed |-> FALSE, end |-> None]
      OBVIOUS
    <2>1. r.sent = 0 /\ r.phase = "ready"
      BY <2>r
    <2>2. dl' = [dl EXCEPT ![d] = r] /\ used' = used
      BY <1>14, <2>r DEF Authorize
    <2> QED
      BY <2>1, <2>2, OneOwesNoMore DEF NoMore
  <1>15. ASSUME NEW h \in Hosts, Register(d, h) PROVE Covered'
    <2>r. PICK r : r = [x EXCEPT !.phase = "check", !.host = h, !.hosts = x.hosts \cup {h},
                                 !.hops = x.hops + 1]
      OBVIOUS
    <2>1. x.phase = "hop" /\ dl' = [dl EXCEPT ![d] = r] /\ used' = used
      BY <1>15, <1>x, <2>r DEF Register
    <2>2. r.token = x.token /\ r.sent = x.sent /\ r.phase = "check"
      BY <1>0, <2>1, <2>r DEF Rec
    <2> QED
      BY <1>3, <2>1, <2>2
  <1>16. ASSUME NEW n \in 1..MaxSize, Answered(d, n) PROVE Covered'
    <2>r. PICK r : r = [x EXCEPT !.phase = "event", !.size = n]
      OBVIOUS
    <2>1. x.phase = "fetch" /\ dl' = [dl EXCEPT ![d] = r] /\ used' = used
      BY <1>16, <1>x, <2>r DEF Answered
    <2>2. r.token = x.token /\ r.sent = x.sent /\ r.phase = "event"
      BY <1>0, <2>1, <2>r DEF Rec
    <2> QED
      BY <1>3, <2>1, <2>2
  <1>17. ASSUME Receive(d) PROVE Covered'
    <2>r. PICK r : r = [x EXCEPT !.queue = 0, !.got = x.got + 1]
      OBVIOUS
    <2>1. x.phase # "idle" /\ dl' = [dl EXCEPT ![d] = r] /\ used' = used
      BY <1>17, <1>x, <2>r DEF Receive, Streaming, Working
    <2>2. r.token = x.token /\ r.sent = x.sent /\ r.phase = x.phase
      BY <1>0, <2>1, <2>r DEF Rec
    <2> QED
      BY <1>3, <2>1, <2>2
  <1>18. ASSUME Disconnect(d) PROVE Covered'
    <2>r. PICK r : r = [x EXCEPT !.client = "gone"]
      OBVIOUS
    <2>1. x.phase # "idle" /\ dl' = [dl EXCEPT ![d] = r] /\ used' = used
      BY <1>18, <1>x, <2>r DEF Disconnect, Streaming, Working
    <2>2. r.token = x.token /\ r.sent = x.sent /\ r.phase = x.phase
      BY <1>0, <2>1, <2>r DEF Rec
    <2> QED
      BY <1>3, <2>1, <2>2
  <1>19. ASSUME EndOfBody(d) PROVE Covered'
    <2>e. PICK e : e = IF x.failed THEN "error" ELSE "clean"
      OBVIOUS
    <2>r. PICK r : r = [x EXCEPT !.end = e]
      OBVIOUS
    <2>1. x.phase # "idle" /\ dl' = [dl EXCEPT ![d] = r] /\ used' = used
      BY <1>19, <1>x, <2>e, <2>r DEF EndOfBody
    <2>2. r.token = x.token /\ r.sent = x.sent /\ r.phase = x.phase
      BY <1>0, <2>1, <2>r DEF Rec
    <2> QED
      BY <1>3, <2>1, <2>2
  <1>20. ASSUME Terminate(d) PROVE Covered'
    <2>1. dl' = Signal({d}) /\ used' = used /\ x.phase # "idle"
      BY <1>20, <1>x DEF Terminate, Active, Outside
    <2> QED
      BY <1>0, <1>x, <2>1, SignalOwes
  <1> QED
    BY <1>4, <1>5, <1>6, <1>7, <1>8, <1>9, <1>10, <1>11, <1>12, <1>13, <1>14, <1>15, <1>16, <1>17,
       <1>18, <1>19, <1>20 DEF ServerStep, Outcome

LEMMA CoveredNext ==
    ASSUME DownloadsInv, DownloadsInv', Covered, [Next]_vars
    PROVE  Covered'
  <1>1. ASSUME UNCHANGED <<dl, used>> PROVE Covered'
    BY <1>1 DEF Covered
  <1>2. ASSUME NEW S \in SUBSET Active, dl' = Signal(S), used' = used PROVE Covered'
    <2>1. S \in SUBSET Downloads /\ \A d \in S : dl[d] \in Rec
      BY IdleOpensNothing DEF Active, Outside, DownloadsInv, Transfers, Sound
    <2> QED
      BY <1>2, <2>1, SignalOwes
  <1>3. ASSUME NEW a \in Admins, Policy(a) PROVE Covered'
    <2>1. CASE CancelBeforeWrite(a)
      BY <1>2, <2>1 DEF CancelBeforeWrite
    <2>2. CASE SignalTargets(a)
      <3>1. Targets(admin[a]) \in SUBSET Active
        BY <2>2 DEF SignalTargets, Targets
      <3> QED
        BY <1>2, <2>2, <3>1 DEF SignalTargets
    <2>3. CASE ~CancelBeforeWrite(a) /\ ~SignalTargets(a)
      BY <1>1, <1>3, <2>3 DEF Policy, RevokeToken, SetPermission, SetBlock, Unblock, SaveConfig, WriteConfig
    <2> QED
      BY <2>1, <2>2, <2>3
  <1>4. ASSUME NEW t \in Tokens, CreateToken(t) PROVE Covered'
    BY <1>1, <1>4 DEF CreateToken
  <1>5. CASE UNCHANGED vars
    BY <1>1, <1>5 DEF vars
  <1> QED
    BY <1>3, <1>4, <1>5, CoveredServer DEF Next

-----------------------------------------------------------------------------
(* The theorems.                                                            *)

LEMMA DownloadsInit == Init => DownloadsInv
  <1> SUFFICES ASSUME Init PROVE DownloadsInv
    OBVIOUS
  <1>1. /\ dl = [d \in Downloads |-> Idle] /\ token = [t \in Tokens |-> "none"]
        /\ allowed = Users /\ blocked = {} /\ cfg \in Configs
        /\ admin = [a \in Admins |-> None] /\ pace = None
        /\ used = [u \in Users |-> 0] /\ silent = {}
    BY DEF Init
  <1>2. Transfers
    BY <1>1 DEF Transfers
  <1>3. Throttled
    BY <1>1, IdleOpensNothing, DownloadsAssumption DEF Throttled
  <1>4. Rules
    BY <1>1, DownloadsAssumption DEF Rules, Pending
  <1>5. Enforced
    BY <1>1 DEF Enforced
  <1> QED
    BY <1>2, <1>3, <1>4, <1>5 DEF DownloadsInv

LEMMA DownloadsNext == DownloadsInv /\ [Next]_vars => DownloadsInv'
  <1> SUFFICES ASSUME DownloadsInv, [Next]_vars PROVE DownloadsInv'
    OBVIOUS
  <1>1. ASSUME NEW d \in Downloads, ServerStep(d) PROVE DownloadsInv'
    BY <1>1, RequestStep, RequestInput, WorkerGoes, WorkerShares, WorkerChecks
    DEF ServerStep, Cancelled, ClientClosed
  <1>2. ASSUME NEW d \in Downloads, Outcome(d) PROVE DownloadsInv'
    BY <1>2, RequestStep, RequestInput, WorkerGoes, WorkerShares, ClientStep, Signals
    DEF Outcome, Interrupted
  <1>3. ASSUME NEW t \in Tokens, CreateToken(t) PROVE DownloadsInv'
    <2>1. /\ token' = [token EXCEPT ![t] = "valid"]
          /\ UNCHANGED <<dl, allowed, blocked, cfg, admin, pace, used, silent>>
      BY <1>3 DEF CreateToken
    <2>2. Transfers' /\ Throttled' /\ Enforced'
      BY <2>1 DEF DownloadsInv, Transfers, Throttled, Enforced, Signalling
    <2>3. Rules'
      BY <2>1 DEF DownloadsInv, Rules
    <2> QED
      BY <2>2, <2>3 DEF DownloadsInv
  <1>4. ASSUME NEW a \in Admins, Policy(a) PROVE DownloadsInv'
    BY <1>4, PolicyStep, Signals DEF Policy
  <1>5. CASE UNCHANGED vars
    BY <1>5 DEF vars, DownloadsInv, Transfers, Throttled, Rules, Enforced, Signalling
  <1> QED
    BY <1>1, <1>2, <1>3, <1>4, <1>5 DEF Next

LEMMA DownloadsKeepInv == Spec => []DownloadsInv
  BY DownloadsInit, DownloadsNext, PTL DEF Spec

\* Every transfer, token, rule and pending handler is always one of its kind,
\* and the throttle's lock is free or held by a transfer that is pacing.
THEOREM DownloadsTypeCorrect == Spec => []TypeOK
  <1>1. DownloadsInv => TypeOK
    <2> SUFFICES ASSUME DownloadsInv PROVE TypeOK
      OBVIOUS
    <2>1. Rec \subseteq Download
      BY DEF Rec, Download, Phases
    <2>2. \A d \in Downloads : dl[d] \in Download
      BY <2>1 DEF DownloadsInv, Transfers, Sound, Download
    <2>3. dl \in [Downloads -> Download]
      BY <2>2 DEF DownloadsInv, Transfers
    <2>4. pace \in {None} \cup {d \in Downloads : dl[d].phase = "pacing"}
      BY DEF DownloadsInv, Throttled, Rules
    <2> QED
      BY <2>3, <2>4 DEF TypeOK, DownloadsInv, Rules
  <1> QED
    BY <1>1, DownloadsKeepInv, PTL

\* Once the handler that blocked a host has returned, every transfer that had
\* found the host not blocked has been signalled, however the two interleaved:
\* the host is registered before it is looked up, the block is committed
\* before the registered transfers are signalled.
THEOREM BlockIsEnforced == Spec => []BlockEnforced
  <1>1. DownloadsInv => BlockEnforced
    <2> SUFFICES ASSUME DownloadsInv, NEW h \in blocked \ silent,
                        \A a \in Admins : admin[a] # [op |-> "domain", host |-> h],
                        NEW d \in Active, h \in dl[d].passed
                 PROVE  dl[d].cancel \/ dl[d].phase = "failing"
      BY DEF BlockEnforced
    <2>1. d \in Downloads /\ ~Open(dl[d], h)
      BY DEF DownloadsInv, Enforced, Signalling, Active
    <2> QED
      BY <2>1 DEF Open, Active
  <1> QED
    BY <1>1, DownloadsKeepInv, PTL

\* At most one part is delivered after the token is revoked or downloads are
\* turned off: the one that had passed its first check.
THEOREM WithdrawalStops == Spec => []WithdrawnStops
  <1>1. DownloadsInv => WithdrawnStops
    BY DEF DownloadsInv, Transfers, Sound, WithdrawnStops
  <1> QED
    BY <1>1, DownloadsKeepInv, PTL

\* A client that sees the body end without an error has all of it.
THEOREM CleanEndHasEveryPart == Spec => []CleanEndIsComplete
  <1>1. ASSUME NEW x, Sound(x), x.end = "clean" PROVE x.got = x.size
    <2>1. x.got \in Nat /\ x.sent = x.got + x.queue /\ x.queue = 0 /\ ~x.failed
      BY <1>1 DEF Sound, Rec
    <2>2. x.phase = "ended"
      BY <1>1, DownloadsAssumption DEF Sound
    <2>3. x.sent = x.size
      BY <1>1, <2>1, <2>2 DEF Sound
    <2> QED
      BY <2>1, <2>3
  <1>2. DownloadsInv => CleanEndIsComplete
    BY <1>1 DEF DownloadsInv, Transfers, CleanEndIsComplete
  <1> QED
    BY <1>2, DownloadsKeepInv, PTL
\* However many transfers a user runs at once, every part queued for a client
\* was charged before, and the charges stay within the daily budget.
THEOREM BudgetIsHeld == Spec => []BudgetHeld
  <1>1. Init => Covered
    <2> SUFFICES ASSUME Init, NEW u \in Users
                 PROVE  SumFunctionOnSet(OwedBy(dl, u), Downloads) <= used[u]
      BY DEF Covered
    <2>1. \A d \in Downloads : OwedBy(dl, u)[d] = 0
      BY DEF Init, OwedBy, Owed
    <2>2. SumFunctionOnSet(OwedBy(dl, u), Downloads) = 0
      BY <2>1, DownloadsAssumption, SumOfZeros
    <2> QED
      BY <2>2 DEF Init
  <1>2. (DownloadsInv /\ Covered) /\ [Next]_vars => (DownloadsInv /\ Covered)'
    BY DownloadsNext, CoveredNext
  <1>3. ASSUME DownloadsInv, Covered PROVE BudgetHeld
    <2> SUFFICES ASSUME NEW u \in Users
                 PROVE  /\ SumFunction([d \in Downloads |-> PartsFor(dl[d], u)]) <= used[u]
                        /\ used[u] <= DailyLimit
      BY DEF BudgetHeld
    <2>e. PICK e : e = [d \in Downloads |-> PartsFor(dl[d], u)]
      OBVIOUS
    <2>f. PICK f : f = OwedBy(dl, u)
      OBVIOUS
    <2>0. Transfers /\ used[u] \in Nat /\ used[u] <= DailyLimit /\ IsFiniteSet(Downloads)
      BY <1>3, DownloadsAssumption DEF DownloadsInv, Rules
    <2>1. \A d \in Downloads : e[d] = PartsFor(dl[d], u)
      BY <2>e
    <2>2. \A d \in Downloads : e[d] \in Nat /\ f[d] \in Nat /\ e[d] <= f[d]
      BY <2>0, <2>1, <2>f, OwedNatural
    <2>3. SumFunctionOnSet(e, Downloads) <= SumFunctionOnSet(f, Downloads)
      BY <2>0, <2>2, SumMonotone
    <2>4. SumFunctionOnSet(f, Downloads) <= used[u]
      BY <1>3, <2>f DEF Covered
    <2>5. SumFunctionOnSet(e, Downloads) \in Nat /\ SumFunctionOnSet(f, Downloads) \in Nat
      BY <2>0, <2>2, SumWithout
    <2>6. SumFunction(e) = SumFunctionOnSet(e, Downloads)
      <3>1. DOMAIN e = Downloads
        BY <2>e
      <3> QED
        BY <3>1, Zenon DEF SumFunction
    <2> QED
      BY <2>0, <2>3, <2>4, <2>5, <2>6, <2>e
  <1> QED
    BY <1>1, <1>2, <1>3, DownloadsInit, PTL DEF Spec
=============================================================================
