----------------------------- MODULE RequestGate -----------------------------
(***************************************************************************)
(* What a request passes before an adapter sees it (the middleware layers  *)
(* of main.rs): whose address it has behind proxies, whose subdomain it    *)
(* names, the requests per minute, the IP policy and the team's targets;   *)
(* and the limiter of the administrator's sign-in.  Requests interleave:   *)
(* each reads the clock before it takes the lock of the limiter, and the   *)
(* sign-in checks its limits long before it records a failure.             *)
(***************************************************************************)
EXTENDS Integers, FiniteSets, Sequences

CONSTANTS Visitors,    \* requests that run at the same time
          Calls,       \* requests: host, xhost, path, peer, via, and the name of a sign-in
          Spots,       \* addresses of clients and proxies
          Trusted,     \* trusted_proxies, as addresses
          Denied,      \* addresses that the IP policy does not allow
          BaseDomain,  \* user_access.base_domain, "" for none
          Subdomains,  \* hosts one label below it
          Reserved,    \* those that no user may have
          UserOf,      \* routing ids, as subdomains, and their users
          MirrorNames, \* targets of proxied paths; others: "control", "login", "token", "static"
          Minute, Quarter,                     \* lengths of the two windows
          MinuteLimit, NameLimit, SourceLimit, \* requests or failures in them
          EndOfTime,   \* bound on the clock
          MaxVisits    \* bound on the number of requests

ASSUME GateAssumption ==
    /\ {Minute, Quarter, MinuteLimit, NameLimit, SourceLimit, EndOfTime, MaxVisits} \subseteq Nat
    /\ DOMAIN UserOf \subseteq Subdomains \ Reserved /\ "" \notin {UserOf[l] : l \in DOMAIN UserOf}
    /\ \A c \in Calls : c.peer \in Spots /\ c.via \in Seq(Spots)
    /\ MirrorNames \cap {"control", "login", "token", "static"} = {}
    /\ IsFiniteSet(Visitors) /\ Visitors # {}

VARIABLES clock,
          required, \* user_access.mode = "subdomain_required"
          active,   \* routing ids in use, of users that are not disabled
          team,     \* the targets of each user's team, {} for all
          minute,   \* RateLimiter.windows
          attempts, \* AdminLoginRateLimiter.attempts
          visit,    \* each request: its progress, call, user, reading of the clock
          visits,   \* number of requests so far
          passed,   \* history: readings of all requests that passed the limiter
          missed    \* history: failures since the last success, by the same keys

qvars == <<clock, required, active, team, minute, attempts, visit, visits, passed, missed>>

People == {UserOf[l] : l \in DOMAIN UserOf}
Rates == ({"user"} \X People) \cup ({"ip"} \X Spots)
Tries == ({"name"} \X {c.name : c \in Calls}) \cup ({"source"} \X (Spots \cup {"unknown"}))

Away == [pc |-> "away", call |-> "", user |-> "", at |-> 0, behind |-> FALSE]

(* Forwarded headers count only from a trusted peer. *)
HostOf(c) == IF c.peer \in Trusted /\ c.xhost # "" THEN c.xhost ELSE c.host

(* Back along the proxies, as long as each is trusted. *)
ResolveClientIp(c) ==
    LET current[i \in 0..Len(c.via)] ==
            IF i = 0 THEN c.peer
            ELSE IF current[i - 1] \in Trusted THEN c.via[Len(c.via) + 1 - i] ELSE current[i - 1]
    IN  current[Len(c.via)]

RateKey(v) == IF visit[v].user # "" THEN <<"user", visit[v].user>>
              ELSE <<"ip", ResolveClientIp(visit[v].call)>>

(* Readings that are over leave from the front, up to one that is not. *)
OverBy(window, at, span) ==
    CHOOSE n \in 0..Len(window) :
        /\ \A i \in 1..n : window[i] + span <= at
        /\ n < Len(window) => window[n + 1] + span > at

\* Mutant: a reading is over one moment early.
RecentEarly(window, at, span) == SubSeq(window, OverBy(window, at + 1, span) + 1, Len(window))

Recent(window, at, span) == SubSeq(window, OverBy(window, at, span) + 1, Len(window))

GateInit ==
    /\ clock = 0 /\ required \in BOOLEAN
    /\ active = DOMAIN UserOf
    /\ team = [u \in People |-> {}]
    /\ minute = [k \in Rates |-> <<>>] /\ passed = minute
    /\ attempts = [k \in Tries |-> <<>>] /\ missed = attempts
    /\ visit = [v \in Visitors |-> Away] /\ visits = 0

Is(v, pc) == visit[v].pc = pc
Proceed(v, pc) == visit' = [visit EXCEPT ![v].pc = pc]

Tick == /\ clock < EndOfTime /\ clock' = clock + 1
        /\ UNCHANGED <<required, active, team, minute, attempts, visit, visits, passed, missed>>

Arrive(v, c) ==
    /\ Is(v, "away") /\ visits < MaxVisits /\ visits' = visits + 1
    /\ visit' = [visit EXCEPT ![v] = [Away EXCEPT !.pc = "route", !.call = c]]
    /\ UNCHANGED <<clock, required, active, team, minute, attempts, passed, missed>>

(* user_routing_middleware: paths of accounts and of the console are not   *)
(* served below a user's name (the administrators' token API is), nor      *)
(* mirrors above it if the mode says so.                                   *)
UserRouting(v) ==
    LET c == visit[v].call  host == HostOf(c)
        go(pc, u) == visit' = [visit EXCEPT ![v].pc = pc, ![v].user = u]
    IN  /\ Is(v, "route")
        /\ IF BaseDomain = "" THEN go("limit", "")
           ELSE IF host = BaseDomain
           THEN go(IF required /\ c.path \in MirrorNames THEN "refused" ELSE "limit", "")
           ELSE IF host \in active \ Reserved /\ c.path \notin {"control", "login"}
           THEN go("limit", UserOf[host])
           ELSE go("refused", "")
        /\ UNCHANGED <<clock, required, active, team, minute, attempts, visits, passed, missed>>

(* rate_limit_middleware: other paths are not limited here. *)
ReadClock(v) ==
    /\ Is(v, "limit")
    /\ visit' = [visit EXCEPT ![v].at = clock,
                   ![v].pc = CASE visit[v].call.path \in MirrorNames -> "lock"
                               [] visit[v].call.path \in {"login", "token"} -> "login"
                               [] OTHER -> "served"]
    /\ UNCHANGED <<clock, required, active, team, minute, attempts, visits, passed, missed>>

(* RateLimiter::check, under the lock, with the reading made before it. *)
Check(v) ==
    LET now  == [k \in Rates |-> Recent(minute[k], visit[v].at, Minute)]
        full == Len(now[RateKey(v)]) >= MinuteLimit
    IN  /\ Is(v, "lock")
        /\ minute' = IF full THEN now ELSE [now EXCEPT ![RateKey(v)] = Append(@, visit[v].at)]
        /\ passed' = IF full THEN passed
                     ELSE [passed EXCEPT ![RateKey(v)] = Append(@, visit[v].at)]
        /\ Proceed(v, IF full THEN "refused" ELSE "policy")
        /\ UNCHANGED <<clock, required, active, team, attempts, visits, missed>>

(* The IP policy, then for users the targets of the team. *)
Admit(v) ==
    LET u == visit[v].user
    IN  /\ Is(v, "policy")
        /\ Proceed(v, IF \/ ResolveClientIp(visit[v].call) \in Denied
                         \/ u # "" /\ team[u] # {} /\ visit[v].call.path \notin team[u]
                      THEN "refused" ELSE "served")
        /\ UNCHANGED <<clock, required, active, team, minute, attempts, visits, passed, missed>>

-----------------------------------------------------------------------------
(* Administrators: changes of routing ids, users and teams *)

Overtaken == [v \in Visitors |-> [visit[v] EXCEPT !.behind = visit[v].pc # "away"]]

(* A routing id is rotated, or its user disabled or deleted; no request    *)
(* here asks for the id that takes its place.                              *)
Retire(l) ==
    /\ l \in active /\ active' = active \ {l}
    /\ visit' = Overtaken
    /\ UNCHANGED <<clock, required, team, minute, attempts, visits, passed, missed>>

(* All rows of the team are replaced, in one transaction. *)
SetGroupTargetAccess(u, targets) ==
    /\ team[u] = {} /\ targets # {} /\ team' = [team EXCEPT ![u] = targets]
    /\ visit' = Overtaken
    /\ UNCHANGED <<clock, required, active, minute, attempts, visits, passed, missed>>

-----------------------------------------------------------------------------
(* Sign-in of the administrator *)

(* admin_cookie_login knows the client, admin_login, for a token, does not. *)
SourceOf(c) == IF c.path = "token" THEN "unknown" ELSE ResolveClientIp(c)

TriesOf(v) == {<<"name", visit[v].call.name>>, <<"source", SourceOf(visit[v].call)>>}

(* is_limited for both keys; the second is only asked if the first is not. *)
LoginLimited(v) ==
    LET now == [k \in Tries |-> Recent(attempts[k], visit[v].at, Quarter)]
        limit(k) == IF k[1] = "name" THEN NameLimit ELSE SourceLimit
    IN  /\ Is(v, "login")
        /\ attempts' = now
        /\ Proceed(v, IF \E k \in TriesOf(v) : Len(now[k]) >= limit(k) THEN "refused" ELSE "verify")
        /\ UNCHANGED <<clock, required, active, team, minute, visits, passed, missed>>

(* A failure is recorded with the reading of the start, a session clears   *)
(* both keys, and a password that the passkey policy rejects does neither. *)
LoginEnds(v, result) ==
    LET with(f) == [k \in Tries |->
                       IF k \notin TriesOf(v) THEN f[k]
                       ELSE CASE result = "failure" -> Append(f[k], visit[v].at)
                              [] result = "session" -> <<>>
                              [] OTHER -> f[k]]
    IN  /\ Is(v, "verify")
        /\ attempts' = with(attempts) /\ missed' = with(missed)
        /\ Proceed(v, IF result = "session" THEN "served" ELSE "refused")
        /\ UNCHANGED <<clock, required, active, team, minute, visits, passed>>

(* The answer is complete. *)
Respond(v) ==
    /\ visit[v].pc \in {"served", "refused"}
    /\ visit' = [visit EXCEPT ![v] = Away]
    /\ UNCHANGED <<clock, required, active, team, minute, attempts, visits, passed, missed>>

GateNext ==
    \/ Tick
    \/ \E l \in DOMAIN UserOf : Retire(l)
    \/ \E u \in People, targets \in SUBSET MirrorNames : SetGroupTargetAccess(u, targets)
    \/ \E v \in Visitors :
          \/ \E c \in Calls : Arrive(v, c)
          \/ UserRouting(v) \/ ReadClock(v) \/ Check(v) \/ Admit(v) \/ LoginLimited(v)
          \/ \E result \in {"failure", "session", "passkey"} : LoginEnds(v, result)
          \/ Respond(v)

-----------------------------------------------------------------------------
(* Properties *)

Inside(readings, t, span) == {i \in DOMAIN readings : readings[i] <= t /\ t < readings[i] + span}

(* The limits hold up to what runs at the same time: in no minute do more  *)
(* requests of a user or an address pass than the limit and one for each   *)
(* other request whose reading of the clock may be late, and no more       *)
(* failed sign-ins are recorded, between successes, than the limit and two *)
(* for each other request: its reading may be late, and its check may      *)
(* precede the record of the last.                                         *)
RatesKept ==
    LET late == Cardinality(Visitors) - 1
    IN  \A t \in 0..EndOfTime :
          /\ \A k \in Rates : Cardinality(Inside(passed[k], t, Minute)) <= MinuteLimit + late
          /\ \A k \in Tries : Cardinality(Inside(missed[k], t, Quarter))
                                 <= (IF k[1] = "name" THEN NameLimit ELSE SourceLimit) + 2 * late

(* The address of a client is the last one that no trusted proxy wrote     *)
(* about itself: every hop after it is trusted, and it is not, unless it   *)
(* is the first.                                                           *)
FirstUntrusted(c) ==
    LET chain == c.via \o <<c.peer>>
    IN  CHOOSE a \in Spots : \E i \in DOMAIN chain :
            /\ chain[i] = a
            /\ \A j \in i + 1..Len(chain) : chain[j] \in Trusted
            /\ a \notin Trusted \/ i = 1

(* No request gets past the gate (main.rs, user_routing_middleware,        *)
(* rate_limit_middleware, resolve_client_ip, RateLimiter): the limits hold *)
(* as RatesKept says; a mirror that is served was asked for by an address  *)
(* the policy allows, below the name of a user if that is required, and,   *)
(* unless an administrator changed something meanwhile, of a user in use   *)
(* whose team may have it; accounts and the console are not served there.  *)
GateKept ==
    /\ RatesKept
    /\ \A v \in Visitors : visit[v].pc = "served" =>
          LET c == visit[v].call
          IN  /\ c.path \in MirrorNames =>
                    /\ FirstUntrusted(c) \notin Denied
                    /\ BaseDomain # "" /\ required => visit[v].user # ""
              /\ visit[v].user # "" =>
                    /\ c.path \notin {"control", "login"}
                    /\ ~visit[v].behind =>
                          /\ visit[v].user = UserOf[HostOf(c)] /\ HostOf(c) \in active
                          /\ c.path \in MirrorNames =>
                                team[visit[v].user] = {} \/ c.path \in team[visit[v].user]
=============================================================================
