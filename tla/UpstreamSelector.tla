--------------------------- MODULE UpstreamSelector ---------------------------
(***************************************************************************)
(* Health-aware choice of upstream endpoints (upstream_selection.rs) and   *)
(* the failover loop of forward_request and get_with_fallback              *)
(* (proxy/mod.rs): a request ranks the candidates once, then tries them in *)
(* that order and reports every outcome to the selector, whose state is    *)
(* shared with all other requests.                                         *)
(*                                                                         *)
(* An endpoint stands for a configured base (endpoint_key).  Instants are  *)
(* abstracted to whether a cooldown is over and to the order of last_seen. *)
(***************************************************************************)
EXTENDS Integers, Sequences, FiniteSets, SequencesExt

CONSTANTS
    Requests,
    Endpoints,
    Configs,       \* records [strategy, threshold, candidates]
    Latencies,     \* response times, in milliseconds
    MaxEndpoints,  \* MAX_ENDPOINTS
    MaxFailures,   \* bound on consecutive_failures (saturating u32)
    None

Config == [strategy : {"ordered", "adaptive"}, threshold : Nat \ {0},
           candidates : Seq(Endpoints)]
Health == [failures : 0..MaxFailures, open : BOOLEAN, latency : {None} \cup Latencies]

ASSUME SelectorAssumption ==
    /\ Configs \subseteq Config /\ \A c \in Configs : Len(c.candidates) > 0
    /\ Latencies \subseteq Nat /\ None \notin Nat
    /\ MaxEndpoints \in Nat \ {0} /\ MaxFailures \in Nat

VARIABLES
    health,  \* SelectorState.endpoints
    seen,    \* its keys, least recently recorded first
    cfg,     \* the configuration in memory
    next,    \* the configuration an update is about to put in memory
    req      \* the failover loops

vars == <<health, seen, cfg, next, req>>

Idle == [phase |-> "idle"]

Reading == [phase |-> "answered"]  \* a status was accepted, the body is read
CutShort == [phase |-> "broken"]   \* an error is returned after all

\* trying: awaiting a candidate; failed: the last one's failure is returned.
Request ==
    {Idle, Reading, CutShort} \cup
    [phase : {"trying", "failed"}, config : Config, order : Seq(Endpoints), index : Nat]

TypeOK ==
    /\ health \in [Endpoints -> {None} \cup Health]
    /\ seen \in Seq(Endpoints) /\ Len(seen) <= MaxEndpoints
    /\ IsInjective(seen) /\ ToSet(seen) = {e \in Endpoints : health[e] # None}
    /\ cfg \in Configs /\ next \in {None} \cup Configs
    /\ req \in [Requests -> Request]
    /\ \A r \in Requests :
         req[r].phase \in {"trying", "failed"} => req[r].index \in DOMAIN req[r].order

Init ==
    /\ health = [e \in Endpoints |-> None] /\ seen = <<>>
    /\ cfg \in Configs /\ next = None
    /\ req = [r \in Requests |-> Idle]

-----------------------------------------------------------------------------
(* Ranking.                                                                 *)

\* Mutant: only the latency counts.
RankByLatency(e, index) ==
    IF health[e] = None \/ health[e].latency = None THEN index ELSE health[e].latency

CircuitPenalty == 1000000  \* circuit_penalty, of an endpoint in cooldown

\* endpoint_rank
Rank(e, index) ==
    IF health[e] = None THEN index
    ELSE (IF health[e].open THEN CircuitPenalty ELSE 0)
         + health[e].failures * 10000
         + (IF health[e].latency = None THEN index ELSE health[e].latency)

\* ranked_candidates: a stable sort, by rank then configured position.  The
\* place of a candidate is one more than the number of those before it.
Precedes(c, i, j) ==
    \/ Rank(c[i], i - 1) < Rank(c[j], j - 1)
    \/ Rank(c[i], i - 1) = Rank(c[j], j - 1) /\ i < j

Place(c, i) == Cardinality({j \in DOMAIN c : Precedes(c, j, i)}) + 1

Ranked(config) ==
    LET c == config.candidates
    IN  IF config.strategy = "adaptive"
        THEN [p \in DOMAIN c |-> c[CHOOSE i \in DOMAIN c : Place(c, i) = p]] ELSE c

-----------------------------------------------------------------------------
(* Recording.                                                               *)

\* endpoint_state: the entry of e, made if need be in place of the entry that
\* was recorded longest ago.
Evictee(e) == IF health[e] = None /\ Len(seen) >= MaxEndpoints
              THEN {Head(seen)} ELSE {}

Record(e, h) ==
    /\ health' = [x \in Endpoints |-> IF x = e THEN h
                                      ELSE IF x \in Evictee(e) THEN None
                                      ELSE health[x]]
    /\ seen' = Append(SelectSeq(seen, LAMBDA x : x # e /\ x \notin Evictee(e)), e)

Known(e) == IF health[e] = None
            THEN [failures |-> 0, open |-> FALSE, latency |-> None] ELSE health[e]

\* The moving average lies between its previous value and the new sample.
Smoothed(old, elapsed) ==
    IF old = None THEN {elapsed}
    ELSE {l \in Latencies : (old <= l /\ l <= elapsed) \/ (elapsed <= l /\ l <= old)}

\* record_success
RecordSuccess(e, elapsed) ==
    \E l \in Smoothed(Known(e).latency, elapsed) :
        Record(e, [failures |-> 0, open |-> FALSE, latency |-> l])

\* record_failure: at the threshold the circuit opens for the cooldown.
RecordFailure(e, config) ==
    LET n == Known(e).failures + 1
    IN  /\ n <= MaxFailures
        /\ Record(e, [Known(e) EXCEPT !.failures = n,
                                      !.open = @ \/ n >= config.threshold])

-----------------------------------------------------------------------------
(* forward_request and get_with_fallback.                                   *)

Loop(config, order) ==
    [phase |-> "trying", config |-> config, order |-> order, index |-> 1]

Begin(r) ==
    /\ req[r] = Idle
    /\ req' = [req EXCEPT ![r] = Loop(cfg, Ranked(cfg))]
    /\ UNCHANGED <<health, seen, cfg, next>>

\* A request with a body goes to its own URL only.
BeginWithBody(r, e) ==
    /\ req[r] = Idle
    /\ req' = [req EXCEPT ![r] = Loop([cfg EXCEPT !.candidates = <<e>>], <<e>>)]
    /\ UNCHANGED <<health, seen, cfg, next>>

\* A fresh cache entry of the candidate answers: nothing is recorded.
CacheHit(r) ==
    /\ req[r].phase = "trying"
    /\ req' = [req EXCEPT ![r] = Idle]
    /\ UNCHANGED <<health, seen, cfg, next>>

\* An acceptable status: the success is recorded before the body is read.
Answer(r, elapsed) ==
    /\ req[r].phase = "trying"
    /\ RecordSuccess(req[r].order[req[r].index], elapsed)
    /\ req' = [req EXCEPT ![r] = Reading]
    /\ UNCHANGED <<cfg, next>>

\* The body was read for the cache, or is handed on as a stream.
Deliver(r) ==
    /\ req[r].phase = "answered"
    /\ req' = [req EXCEPT ![r] = Idle]
    /\ UNCHANGED <<health, seen, cfg, next>>

\* The body breaks off while it is read: the error is returned, no other
\* candidate is tried and the success stays on record.
BodyBreaks(r) ==
    /\ req[r].phase = "answered"
    /\ req' = [req EXCEPT ![r] = CutShort]
    /\ UNCHANGED <<health, seen, cfg, next>>

\* A 304 for a cache entry: the metadata is refreshed, the success recorded and
\* the entry served.
Revalidate(r, elapsed) ==
    /\ req[r].phase = "trying"
    /\ RecordSuccess(req[r].order[req[r].index], elapsed)
    /\ req' = [req EXCEPT ![r] = Idle]
    /\ UNCHANGED <<cfg, next>>

\* The worker that refreshes the metadata is lost (CacheWorker): the error is
\* returned and nothing is recorded.
RefreshLost(r) ==
    /\ req[r].phase = "trying"
    /\ req' = [req EXCEPT ![r] = CutShort]
    /\ UNCHANGED <<health, seen, cfg, next>>

\* Mutant: the last candidate is never tried.
FailEarly(r) ==
    LET q == req[r]
    IN  /\ q.phase = "trying"
        /\ RecordFailure(q.order[q.index], q.config)
        /\ req' = [req EXCEPT ![r] = IF q.index + 1 < Len(q.order)
                                     THEN [q EXCEPT !.index = @ + 1]
                                     ELSE [q EXCEPT !.phase = "failed"]]
        /\ UNCHANGED <<cfg, next>>

\* A transport error or a status of should_failover_status: the next
\* candidate is tried, or the last failure is the answer.
Fail(r) ==
    LET q == req[r]
    IN  /\ q.phase = "trying"
        /\ RecordFailure(q.order[q.index], q.config)
        /\ req' = [req EXCEPT ![r] = IF q.index < Len(q.order)
                                     THEN [q EXCEPT !.index = @ + 1]
                                     ELSE [q EXCEPT !.phase = "failed"]]
        /\ UNCHANGED <<cfg, next>>

\* The failure is returned.
Leave(r) ==
    /\ req[r].phase \in {"failed", "broken"}
    /\ req' = [req EXCEPT ![r] = Idle]
    /\ UNCHANGED <<health, seen, cfg, next>>

\* The client goes away: the attempt is dropped and nothing is recorded.
Disconnect(r) ==
    /\ req[r].phase \in {"trying", "answered"}
    /\ req' = [req EXCEPT ![r] = Idle]
    /\ UNCHANGED <<health, seen, cfg, next>>

-----------------------------------------------------------------------------
(* Time and configuration.                                                  *)

\* open_until passes.
Elapse(e) ==
    /\ health[e] # None /\ health[e].open
    /\ health' = [health EXCEPT ![e].open = FALSE]
    /\ UNCHANGED <<seen, cfg, next, req>>

\* update_admin_config clears the selector, then writes the configuration.
Configure(c) ==
    /\ next = None
    /\ health' = [e \in Endpoints |-> None] /\ seen' = <<>>
    /\ next' = c
    /\ UNCHANGED <<cfg, req>>

WriteConfig ==
    /\ next # None
    /\ cfg' = next /\ next' = None
    /\ UNCHANGED <<health, seen, req>>

-----------------------------------------------------------------------------
Next ==
    \/ \E r \in Requests :
        \/ Begin(r) \/ (\E e \in Endpoints : BeginWithBody(r, e))
        \/ CacheHit(r) \/ (\E l \in Latencies : Answer(r, l) \/ Revalidate(r, l))
        \/ Deliver(r) \/ BodyBreaks(r) \/ RefreshLost(r) \/ Fail(r)
        \/ Leave(r) \/ Disconnect(r)
    \/ \E e \in Endpoints : Elapse(e)
    \/ \E c \in Configs : Configure(c)
    \/ WriteConfig

Spec == Init /\ [][Next]_vars

-----------------------------------------------------------------------------
(* What the selector promises.                                              *)

\* "automatic failover": a client is given a failure only after every
\* candidate of the configuration its request started with failed once for
\* that request, however other requests and updates reordered them meanwhile.
\* (After a candidate was accepted, a body that breaks off or a lost cache
\* worker is the client's failure at once: those are "broken", not "failed".)
FailureIsTotal ==
    \A r \in Requests :
        req[r].phase = "failed" =>
            LET tried == SubSeq(req[r].order, 1, req[r].index)
            IN  /\ ToSet(tried) = ToSet(req[r].config.candidates)
                /\ Len(tried) = Len(req[r].config.candidates)

Healthy(e) == Known(e).failures = 0 /\ ~Known(e).open

\* What stands for the latency of e, one of n candidates, is below the penalty
\* of a cooldown: its average, or its position while there is none.
BelowPenalty(e, n) ==
    IF Known(e).latency = None THEN n <= CircuitPenalty ELSE Known(e).latency < CircuitPenalty

\* "adaptive keeps healthy ... endpoints first": a request never tries an
\* endpoint in cooldown before one without failures whose responses take less
\* than 1000 seconds on average.  Slower ones do come after it: the penalty is
\* a latency too, and timeouts are not bounded.
HealthyFirst ==
    [][\A r \in Requests :
         (req[r] = Idle /\ req'[r] # Idle /\ req'[r].config.strategy = "adaptive") =>
            LET order == req'[r].order
            IN  \A i, j \in DOMAIN order :
                  i < j /\ Known(order[i]).open /\ BelowPenalty(order[j], Len(order))
                    => ~Healthy(order[j])]_vars
=============================================================================
