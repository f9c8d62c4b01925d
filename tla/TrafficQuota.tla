---------------------------- MODULE TrafficQuota ----------------------------
(***************************************************************************)
(* Monthly traffic quotas of the proxy: a request reserves a fixed amount  *)
(* at the global, user and billing-group scopes before it is forwarded,    *)
(* and a guard that lives as long as the response body settles the         *)
(* reservation exactly once, in a detached task (traffic.rs; the           *)
(* traffic_* tables of database.rs; rate_limit_middleware of main.rs).     *)
(* Custom downloads charge the same counters chunk by chunk                *)
(* (database/download.rs).                                                 *)
(*                                                                         *)
(* Bytes are abstract units; R is QUOTA_RESERVATION_BYTES.  Refusals made  *)
(* before the reservation (rate limit, IP policy, team policy) change no   *)
(* quota state: a refused request is one that never starts.                *)
(***************************************************************************)
EXTENDS Integers, FiniteSets, FiniteSetsExt

CONSTANTS
    Requests,     \* identities of proxy requests, each used once
    Users, Groups,
    Anonymous,    \* "user" of a request without a routing context
    NoGroup,      \* group_id = None
    NoLimit,      \* a limit of None
    Global,       \* the scope of table traffic_monthly
    R,            \* QUOTA_RESERVATION_BYTES
    LastMonth,    \* bound: months 1..LastMonth
    Caps,         \* the limits an administrator may set (NoLimit aside)
    GroupCaps,    \* the settings of a billing group (limits or NoLimit)
    Configs,      \* quota configurations an administrator may save
    Profiles,     \* billing profiles an administrator may give a user
    Chunks,       \* sizes of response chunks and of download parts
    MaxBody,      \* bound: bytes of one response body
    MaxCharged    \* bound: bytes charged to custom downloads per month

Months == 1..LastMonth
Scopes == {Global} \cup Users \cup Groups
OptCap == Caps \cup {NoLimit}
Config == [globalCap : OptCap, userCap : OptCap, bidirectional : BOOLEAN]
Profile == [active : BOOLEAN, group : Groups \cup {NoGroup},
            mode : {"default", "custom", "unlimited"}, limit : OptCap]

ASSUME ConstantsAssumption ==
    /\ IsFiniteSet(Requests)
    /\ R \in Nat \ {0} /\ LastMonth \in Nat \ {0} /\ MaxBody \in Nat
    /\ MaxCharged \in Nat /\ Chunks \subseteq Nat /\ Caps \subseteq Nat
    /\ NoLimit \notin Nat
    /\ Global \notin Users \cup Groups
    /\ Anonymous \notin Scopes /\ NoGroup \notin Scopes
    /\ GroupCaps \subseteq OptCap
    /\ Configs \subseteq Config /\ Profiles \subseteq Profile

VARIABLES
    month,      \* the current quota period
    cfg,        \* quota section of the configuration in memory
    profile,    \* billing profile of each user
    groupLimit, \* group_quota_settings.monthly_limit_bytes
    billed,     \* response_bytes of the monthly tables, per month and scope
    reserved,   \* reserved_bytes of the same rows
    flagged,    \* traffic_monthly.quota_exceeded
    req,        \* the requests: handler, guard and settlement task
    charged,    \* history: bytes billed by charge_download
    granted,    \* history: the highest cap an admission was made under
    excess      \* history: bytes settled beyond what was reserved for them

admin == <<month, cfg, profile, groupLimit>>
ledger == <<billed, reserved>>
history == <<charged, granted, excess>>
vars == <<month, cfg, profile, groupLimit, billed, reserved, flagged, req,
          charged, granted, excess>>

-----------------------------------------------------------------------------
(* Requests.  reserving: the detached reservation task runs; exceeded: the  *)
(* handler is about to set the month's flag; awaiting: guard armed, handler *)
(* awaits the response; streaming: the guard moved into the body; settling: *)
(* the detached settlement task runs; done, rejected: over; lost: over, and *)
(* the settlement never happened (crash or failed write).                   *)

Phases == {"idle", "reserving", "exceeded", "awaiting", "streaming",
           "settling", "done", "rejected", "lost"}

Request == [phase : Phases, user : Users \cup {Anonymous},
            month : Months, globalCap : OptCap, userCap : OptCap,
            mult : {1, 2}, group : Groups \cup {NoGroup},
            amount : {0, R, 2 * R}, bytes : 0..MaxBody,
            cancelled : BOOLEAN]

\* The scopes a request reserves at and is billed to (TrafficRecord's month
\* row, user_id and the group_id captured when the reservation was made).
ScopesOf(q) == {Global, q.user, q.group} \ {Anonymous, NoGroup}

\* reserve() looked the group up in its transaction: None until then.
NewRequest(u) ==
    [phase |-> "reserving", user |-> u, month |-> month,
     globalCap |-> cfg.globalCap, userCap |-> cfg.userCap,
     mult |-> IF cfg.bidirectional THEN 2 ELSE 1,
     group |-> NoGroup, amount |-> 0, bytes |-> 0, cancelled |-> FALSE]

TypeOK ==
    /\ month \in Months
    /\ cfg \in Config
    /\ profile \in [Users -> Profile]
    /\ groupLimit \in [Groups -> OptCap]
    /\ billed \in [Months -> [Scopes -> Nat]]
    /\ reserved \in [Months -> [Scopes -> Nat]]
    /\ flagged \in SUBSET Months
    /\ req \in [Requests -> Request]
    /\ charged \in [Months -> [Scopes -> Nat]]
    /\ granted \in [Months -> [Scopes -> Nat \cup {NoLimit}]]
    /\ excess \in [Months -> [Scopes -> Nat]]

Zero == [m \in Months |-> [s \in Scopes |-> 0]]

Init ==
    /\ month = 1
    /\ cfg \in Configs
    /\ profile \in [Users -> Profiles]
    /\ groupLimit \in [Groups -> GroupCaps]
    /\ billed = Zero /\ reserved = Zero
    /\ flagged = {}
    /\ req \in [Requests -> {[phase |-> "idle", user |-> Anonymous,
                              month |-> 1, globalCap |-> NoLimit,
                              userCap |-> NoLimit, mult |-> 1,
                              group |-> NoGroup, amount |-> 0, bytes |-> 0,
                              cancelled |-> FALSE]}]
    /\ charged = Zero /\ granted = Zero /\ excess = Zero

-----------------------------------------------------------------------------
(* The ledger: what the SQL statements do to one month's rows.              *)

\* The cap of each scope for user u: the caller's global and default user
\* caps, an override of the user, and the billing group's setting.
CapsAt(scopes, u, globalCap, userCap) ==
    [s \in scopes |->
        CASE s = Global -> globalCap
          [] s \in Groups -> groupLimit[s]
          [] OTHER -> CASE profile[u].mode = "unlimited" -> NoLimit
                        [] profile[u].mode = "custom" -> profile[u].limit
                        [] OTHER -> userCap]

\* Mutant: outstanding reservations are not counted.
FitsIgnoringReserved(m, s, bytes, cap) ==
    cap # NoLimit => billed[m][s] + bytes <= cap

\* UPDATE ... WHERE response_bytes + reserved_bytes + bytes <= limit
Fits(m, s, bytes, cap) ==
    cap # NoLimit => billed[m][s] + reserved[m][s] + bytes <= cap

Admits(m, bytes, caps) == \A s \in DOMAIN caps : Fits(m, s, bytes, caps[s])

\* Add bytes to the counter at the given scopes of month m.
AddAt(counter, m, scopes, bytes) ==
    [counter EXCEPT ![m] =
        [s \in Scopes |-> IF s \in scopes THEN @[s] + bytes ELSE @[s]]]

\* Mutant: the multiplier is applied once more, and the clamp is missing.
ReleaseDoubled(counter, m, scopes, bytes) ==
    [counter EXCEPT ![m] =
        [s \in Scopes |-> IF s \in scopes THEN @[s] - 2 * bytes ELSE @[s]]]

\* reserved_bytes = MAX(0, reserved_bytes - bytes)
ReleaseAt(counter, m, scopes, bytes) ==
    [counter EXCEPT ![m] =
        [s \in Scopes |->
            IF s \in scopes /\ @[s] >= bytes THEN @[s] - bytes
            ELSE IF s \in scopes THEN 0 ELSE @[s]]]

\* History: the widest cap that admitted traffic at each scope.
Widen(m, caps) ==
    [granted EXCEPT ![m] =
        [s \in Scopes |->
            IF s \notin DOMAIN caps \/ @[s] = NoLimit THEN @[s]
            ELSE IF caps[s] = NoLimit THEN NoLimit
            ELSE IF caps[s] > @[s] THEN caps[s] ELSE @[s]]]

-----------------------------------------------------------------------------
(* The middleware and the guard.                                            *)

\* The middleware takes its snapshot of the configuration and the period and
\* spawns the reservation.
Start(r, u) ==
    /\ req[r].phase = "idle"
    /\ req' = [req EXCEPT ![r] = NewRequest(u)]
    /\ UNCHANGED <<admin, ledger, flagged, history>>

\* Mutant: a reservation that outlives its handler is not settled.
ArmedRegardless(q) == "awaiting"

\* Where a committed reservation leads: to the handler, or, when the handler
\* was dropped meanwhile, straight to settlement by the guard's Drop.
Armed(q) == IF q.cancelled THEN "settling" ELSE "awaiting"

\* try_reserve_hierarchical_bytes: one transaction over the three scopes.
\* Without a global cap the global row is still reserved.
ReserveUser(r) ==
    LET q == req[r]
        amount == R * q.mult
        asked == [q EXCEPT !.group = profile[q.user].group]
        caps == CapsAt(ScopesOf(asked), q.user, q.globalCap, q.userCap)
    IN  /\ q.phase = "reserving" /\ q.user # Anonymous
        /\ profile[q.user].active
        /\ Admits(q.month, amount, caps)
        /\ reserved' = AddAt(reserved, q.month, ScopesOf(asked), amount)
        /\ granted' = Widen(q.month, caps)
        /\ req' = [req EXCEPT ![r] = [asked EXCEPT !.amount = amount,
                                                   !.phase = Armed(q)]]
        /\ UNCHANGED <<admin, billed, flagged, charged, excess>>

\* try_reserve_monthly_bytes, called only under a global cap; without one an
\* anonymous request is armed with nothing reserved.
ReserveAnonymous(r) ==
    LET q == req[r]
        amount == IF q.globalCap = NoLimit THEN 0 ELSE R * q.mult
        caps == [s \in {Global} |-> q.globalCap]
    IN  /\ q.phase = "reserving" /\ q.user = Anonymous
        /\ Admits(q.month, amount, caps)
        /\ reserved' = AddAt(reserved, q.month, {Global}, amount)
        /\ granted' = Widen(q.month, caps)
        /\ req' = [req EXCEPT ![r].amount = amount, ![r].phase = Armed(q)]
        /\ UNCHANGED <<admin, billed, flagged, charged, excess>>

\* Some scope is full, or the user is disabled: nothing was reserved.  Only
\* a user's request that meets the global cap goes on to set the flag.
ReserveExceeded(r) ==
    LET q == req[r]
        amount == R * q.mult
        asked == [q EXCEPT !.group = profile[q.user].group]
        globalFull == ~Fits(q.month, Global, amount, q.globalCap)
    IN  /\ q.phase = "reserving"
        /\ \/ q.user = Anonymous /\ globalFull
              /\ req' = [req EXCEPT ![r].phase = "rejected"]
           \/ q.user # Anonymous /\ profile[q.user].active /\ globalFull
              /\ req' = [req EXCEPT ![r].phase =
                            IF q.cancelled THEN "rejected" ELSE "exceeded"]
           \/ q.user # Anonymous
              /\ \/ ~profile[q.user].active
                 \/ /\ ~globalFull
                    /\ ~Admits(q.month, amount,
                           CapsAt(ScopesOf(asked), q.user, q.globalCap, q.userCap))
              /\ req' = [req EXCEPT ![r].phase = "rejected"]
        /\ UNCHANGED <<admin, ledger, flagged, history>>

\* The reservation's transaction fails: ReservationError::Database.
ReserveFails(r) ==
    /\ req[r].phase = "reserving"
    /\ req' = [req EXCEPT ![r].phase = "rejected"]
    /\ UNCHANGED <<admin, ledger, flagged, history>>

\* mark_month_quota_exceeded; its error is ignored.
MarkExceeded(r) ==
    /\ req[r].phase = "exceeded"
    /\ flagged' \in {flagged, flagged \cup {req[r].month}}
    /\ req' = [req EXCEPT ![r].phase = "rejected"]
    /\ UNCHANGED <<admin, ledger, history>>

\* The client goes away.  While the reservation runs only the handler is
\* dropped; afterwards the guard is dropped with the handler or the body.
Cancel(r) ==
    /\ \/ req[r].phase = "reserving" /\ ~req[r].cancelled
          /\ req' = [req EXCEPT ![r].cancelled = TRUE]
       \/ req[r].phase \in {"awaiting", "streaming"}
          /\ req' = [req EXCEPT ![r].cancelled = TRUE, ![r].phase = "settling"]
    /\ UNCHANGED <<admin, ledger, flagged, history>>

\* track_proxy_response: a response without a body (HEAD, 1xx, 204, 304)
\* settles at once, any other is wrapped.
Respond(r) ==
    /\ req[r].phase = "awaiting"
    /\ \E p \in {"settling", "streaming"} : req' = [req EXCEPT ![r].phase = p]
    /\ UNCHANGED <<admin, ledger, flagged, history>>

\* The wrapped body yields a chunk.
StreamChunk(r) ==
    /\ req[r].phase = "streaming"
    /\ \E n \in Chunks :
        /\ req[r].bytes + n <= MaxBody
        /\ req' = [req EXCEPT ![r].bytes = @ + n]
    /\ UNCHANGED <<admin, ledger, flagged, history>>

\* End of the body, or an upstream error: finish() settles.
StreamEnd(r) ==
    /\ req[r].phase = "streaming"
    /\ req' = [req EXCEPT ![r].phase = "settling"]
    /\ UNCHANGED <<admin, ledger, flagged, history>>

\* Mutant: settlement looks the period up again.
SettleInCurrentMonth(r) ==
    LET q == req[r]
    IN  /\ q.phase = "settling"
        /\ billed' = AddAt(billed, month, ScopesOf(q), q.bytes * q.mult)
        /\ reserved' = ReleaseAt(reserved, month, ScopesOf(q), q.amount)
        /\ req' = [req EXCEPT ![r].phase = "done"]
        /\ UNCHANGED <<admin, flagged, history>>

\* Mutant: settlement looks the user's group up again.
SettleInCurrentGroup(r) ==
    LET q == req[r]
        now == IF q.user = Anonymous THEN q
               ELSE [q EXCEPT !.group = profile[q.user].group]
    IN  /\ q.phase = "settling"
        /\ billed' = AddAt(billed, q.month, ScopesOf(now), q.bytes * q.mult)
        /\ reserved' = ReleaseAt(reserved, q.month, ScopesOf(now), q.amount)
        /\ req' = [req EXCEPT ![r].phase = "done"]
        /\ UNCHANGED <<admin, flagged, history>>

\* record_proxy_response: one transaction, against the month, user and group
\* the reservation was made for.
Settle(r) ==
    LET q == req[r]
        over == q.bytes * q.mult - q.amount
    IN  /\ q.phase = "settling"
        /\ billed' = AddAt(billed, q.month, ScopesOf(q), q.bytes * q.mult)
        /\ reserved' = ReleaseAt(reserved, q.month, ScopesOf(q), q.amount)
        /\ req' = [req EXCEPT ![r].phase = "done"]
        /\ excess' = AddAt(excess, q.month, ScopesOf(q),
                           IF over > 0 THEN over ELSE 0)
        /\ UNCHANGED <<admin, flagged, charged, granted>>

\* The settlement's transaction fails and is only logged.
SettleFails(r) ==
    /\ req[r].phase = "settling"
    /\ req' = [req EXCEPT ![r].phase = "lost"]
    /\ UNCHANGED <<admin, ledger, flagged, history>>

\* The process stops: guards and detached tasks are gone, the rows stay.
Crash ==
    /\ \E r \in Requests : req[r].phase \notin {"idle", "done", "rejected", "lost"}
    /\ req' = [r \in Requests |->
                CASE req[r].phase \in {"reserving", "exceeded"} ->
                        [req[r] EXCEPT !.phase = "rejected"]
                  [] req[r].phase \in {"awaiting", "streaming", "settling"} ->
                        [req[r] EXCEPT !.phase = "lost"]
                  [] OTHER -> req[r]]
    /\ UNCHANGED <<admin, ledger, flagged, history>>

-----------------------------------------------------------------------------
(* Custom downloads and administration.                                     *)

\* charge_download: one part is billed to all scopes or to none.  The daily
\* budget, which may refuse it as well, belongs to the download component.
ChargeDownload(u, n) ==
    LET bytes == n * (IF cfg.bidirectional THEN 2 ELSE 1)
        scopes == {Global, u, profile[u].group} \ {NoGroup}
        caps == CapsAt(scopes, u, cfg.globalCap, cfg.userCap)
    IN  /\ profile[u].active
        /\ charged[month][Global] + bytes <= MaxCharged
        /\ Admits(month, bytes, caps)
        /\ billed' = AddAt(billed, month, scopes, bytes)
        /\ charged' = AddAt(charged, month, scopes, bytes)
        /\ granted' = Widen(month, caps)
        /\ UNCHANGED <<admin, reserved, flagged, req, excess>>

\* update_admin_config, the quota section.  A new time zone can move the
\* current period by one month either way.
UpdateConfig ==
    /\ cfg' \in Configs
    /\ month' \in {month - 1, month, month + 1} \cap Months
    /\ UNCHANGED <<profile, groupLimit, ledger, flagged, req, history>>

\* set_user_billing_profile, and an administrator enabling or disabling u.
SetProfile(u) ==
    /\ \E p \in Profiles : profile' = [profile EXCEPT ![u] = p]
    /\ UNCHANGED <<month, cfg, groupLimit, ledger, flagged, req, history>>

\* update_billing_group
UpdateGroup(g) ==
    /\ \E c \in GroupCaps : groupLimit' = [groupLimit EXCEPT ![g] = c]
    /\ UNCHANGED <<month, cfg, profile, ledger, flagged, req, history>>

\* quota_period: the calendar reaches the next month.
NextMonth ==
    /\ month < LastMonth
    /\ month' = month + 1
    /\ UNCHANGED <<cfg, profile, groupLimit, ledger, flagged, req, history>>

Server(r) ==
    \/ ReserveUser(r) \/ ReserveAnonymous(r) \/ ReserveExceeded(r)
    \/ ReserveFails(r) \/ MarkExceeded(r)
    \/ Settle(r) \/ SettleFails(r)

Next ==
    \/ \E r \in Requests :
        \/ \E u \in Users \cup {Anonymous} : Start(r, u)
        \/ Server(r)
        \/ Cancel(r) \/ Respond(r) \/ StreamChunk(r) \/ StreamEnd(r)
    \/ Crash
    \/ \E u \in Users, n \in Chunks : ChargeDownload(u, n)
    \/ UpdateConfig
    \/ \E u \in Users : SetProfile(u)
    \/ \E g \in Groups : UpdateGroup(g)
    \/ NextMonth

Spec == Init /\ [][Next]_vars

\* The runtime polls spawned tasks and live handlers to completion, whatever
\* clients do: nothing else is assumed fair.
FairSpec == Spec /\ \A r \in Requests : WF_vars(Server(r))

-----------------------------------------------------------------------------
(* What the quota promises.                                                 *)

Holding == {"awaiting", "streaming", "settling", "lost"}

\* The requests whose reservation of the given amount is outstanding in the
\* rows of scope s in month m.
Holds(q, m, s, amount) ==
    /\ q.phase \in Holding /\ q.month = m
    /\ s \in ScopesOf(q) /\ q.amount = amount

Held(m, s, amount) == {r \in Requests : Holds(req[r], m, s, amount)}

\* Every reserved_bytes counter is exactly what the live requests hold there,
\* plus what a crash or a failed write orphaned: releases are made once, in
\* the month, user and group of the reservation, and MAX(0, ..) never hides
\* a double release, however caps, groups, months and accounting change
\* meanwhile (traffic.rs settle, database.rs record_proxy_response).
ReservationsBalanced ==
    \A m \in Months, s \in Scopes :
        reserved[m][s] = R * Cardinality(Held(m, s, R))
                         + 2 * R * Cardinality(Held(m, s, 2 * R))

\* Proxy requests and downloads together never take a scope beyond the widest
\* cap that admitted them, except by what responses delivered beyond their
\* own reservation (try_reserve_hierarchical_bytes, charge_download).
AdmissionBound ==
    \A m \in Months, s \in Scopes :
        granted[m][s] # NoLimit =>
            billed[m][s] + reserved[m][s] <= granted[m][s] + excess[m][s]

\* What request q was billed at scope s of month m.
BilledTo(q, m, s) ==
    IF q.phase = "done" /\ q.month = m /\ s \in ScopesOf(q)
    THEN q.bytes * q.mult ELSE 0

\* response_bytes is the multiplied body of every settled request, each once
\* and at the scopes it reserved at, plus the parts downloads were charged.
BilledOnce ==
    \A m \in Months, s \in Scopes :
        billed[m][s] = charged[m][s]
                       + SumFunction([r \in Requests |-> BilledTo(req[r], m, s)])

\* Mutant: outstanding reservations are not part of the status.
StatusIgnoringReserved ==
    IF cfg.globalCap # NoLimit /\ billed[month][Global] >= cfg.globalCap
    THEN "exhausted" ELSE "available"

\* public_quota_status, computed from monthly_quota_totals.
PublicStatus ==
    LET size == R * (IF cfg.bidirectional THEN 2 ELSE 1)
    IN  CASE cfg.globalCap = NoLimit -> "available"
          [] cfg.globalCap # NoLimit /\ billed[month][Global] >= cfg.globalCap -> "exhausted"
          [] OTHER -> IF billed[month][Global] + reserved[month][Global] + size
                          > cfg.globalCap THEN "reserved" ELSE "available"

\* The banner agrees with admission: a request that took its snapshot in the
\* current month and configuration is refused for the global cap exactly when
\* the public status is not "available".
StatusMatchesAdmission ==
    \A r \in Requests :
        /\ req[r].phase = "reserving" /\ req[r].month = month
        /\ req[r].globalCap = cfg.globalCap
        /\ req[r].mult = (IF cfg.bidirectional THEN 2 ELSE 1)
        => (PublicStatus = "available"
              <=> Fits(month, Global, R * req[r].mult, req[r].globalCap))

\* A client that goes away at any moment, the reservation included, leaves
\* nothing behind: its request is settled or was never admitted, unless the
\* settlement itself is lost to a crash or a failed write.
CancelledIsSettled ==
    \A r \in Requests :
        (req[r].cancelled \/ req[r].phase = "settling")
            ~> req[r].phase \in {"done", "rejected", "lost"}
-----------------------------------------------------------------------------
(* The ledger that the counters stand for.                                  *)

Policy == [month |-> month, cfg |-> cfg, profile |-> profile, groupLimit |-> groupLimit]

\* What a request reads of the policy when it starts.
SnapshotOf(p, u) ==
    [user |-> u, month |-> p.month, globalCap |-> p.cfg.globalCap,
     userCap |-> p.cfg.userCap, mult |-> IF p.cfg.bidirectional THEN 2 ELSE 1]

\* Anonymous requests have no account that could be disabled.
ServedUnder(p, a) == a.user # Anonymous => p.profile[a.user].active

\* The limits at the scopes of a: an anonymous request meets the global cap
\* only, a user's also its own and its group's.
LimitsOf(p, a) ==
    IF a.user = Anonymous THEN [s \in {Global} |-> a.globalCap]
    ELSE LET own == p.profile[a.user]
         IN  [s \in {Global, a.user, own.group} \ {NoGroup} |->
                IF s = Global THEN a.globalCap
                ELSE IF s \in Groups THEN p.groupLimit[s]
                ELSE IF own.mode = "unlimited" THEN NoLimit
                ELSE IF own.mode = "custom" THEN own.limit ELSE a.userCap]

SizeOf(a) == IF a.user = Anonymous /\ a.globalCap = NoLimit THEN 0 ELSE R * a.mult

EntryOf(q) ==
    CASE q.phase = "idle" -> [state |-> "new"]
      [] q.phase = "reserving" ->
            [state |-> "asking",
             ask |-> [user |-> q.user, month |-> q.month, globalCap |-> q.globalCap,
                      userCap |-> q.userCap, mult |-> q.mult]]
      [] q.phase \in Holding ->
            [state |-> "holding", month |-> q.month, scopes |-> ScopesOf(q),
             amount |-> q.amount]
      [] OTHER -> [state |-> "over"]

Ledger == INSTANCE QuotaLedger WITH
    Amounts <- {n * k : n \in 0..MaxBody \cup Chunks, k \in {1, 2}},
    Payers <- Requests, Callers <- Users \cup {Anonymous}, Members <- Users,
    Snapshot <- SnapshotOf, Served <- ServedUnder, Limits <- LimitsOf, Size <- SizeOf,
    policy <- Policy, entry <- [r \in Requests |-> EntryOf(req[r])], paid <- billed

\* The counters of the tables implement a ledger that knows every hold: each
\* admission leaves room for all holds there are, at the limits of that
\* moment, and each settlement pays once, at the month, user and group of its
\* hold, whatever changes, fails or stops meanwhile
\* (try_reserve_hierarchical_bytes, record_proxy_response, charge_download).
LedgerKept == Ledger!LSpec
=============================================================================
