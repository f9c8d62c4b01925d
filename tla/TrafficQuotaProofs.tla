------------------------- MODULE TrafficQuotaProofs -------------------------
(***************************************************************************)
(* TLAPS proofs about TrafficQuota, for every finite set of requests and   *)
(* every choice of users, groups, caps, configurations and bounds.         *)
(***************************************************************************)
EXTENDS TrafficQuota, SumProofs, TLAPS

Counters == [Months -> [Scopes -> Nat]]

-----------------------------------------------------------------------------
(* The operators of the ledger.                                             *)

\* Adding to a counter changes the named scopes of one month and nothing else.
LEMMA AddAtFacts ==
    ASSUME NEW c \in Counters, NEW m \in Months, NEW S, NEW n \in Nat
    PROVE  /\ AddAt(c, m, S, n) \in Counters
           /\ \A m2 \in Months, s \in Scopes :
                AddAt(c, m, S, n)[m2][s] =
                    IF m2 = m /\ s \in S THEN c[m2][s] + n ELSE c[m2][s]
  BY DEF AddAt, Counters

\* Releasing subtracts where the counter covers the amount, as it always does
\* (see BalanceStep), and stays a natural number in any case.
LEMMA ReleaseAtFacts ==
    ASSUME NEW c \in Counters, NEW m \in Months, NEW S, NEW n \in Nat
    PROVE  /\ ReleaseAt(c, m, S, n) \in Counters
           /\ \A m2 \in Months, s \in Scopes :
                c[m2][s] >= n =>
                ReleaseAt(c, m, S, n)[m2][s] =
                    IF m2 = m /\ s \in S THEN c[m2][s] - n ELSE c[m2][s]
           /\ \A m2 \in Months, s \in Scopes :
                m2 # m \/ s \notin S => ReleaseAt(c, m, S, n)[m2][s] = c[m2][s]
  BY DEF ReleaseAt, Counters

\* The caps an admission compares with are limits an administrator set.
LEMMA CapsAtType ==
    ASSUME TypeOK, NEW u \in Users, NEW S \in SUBSET Scopes,
           NEW gc \in OptCap, NEW uc \in OptCap
    PROVE  CapsAt(S, u, gc, uc) \in [S -> OptCap]
  BY ConstantsAssumption DEF ConstantsAssumption, CapsAt, TypeOK, Profile, OptCap, Scopes

\* The history of caps only widens: it covers its old value and, at the
\* scopes of an admission, the cap of that admission.
LEMMA WidenFacts ==
    ASSUME TypeOK, NEW m \in Months, NEW S \in SUBSET Scopes,
           NEW caps \in [S -> OptCap]
    PROVE  /\ Widen(m, caps) \in [Months -> [Scopes -> Nat \cup {NoLimit}]]
           /\ \A m2 \in Months, s \in Scopes :
                /\ m2 # m \/ s \notin S => Widen(m, caps)[m2][s] = granted[m2][s]
                /\ m2 = m /\ s \in S /\ Widen(m, caps)[m2][s] # NoLimit =>
                    /\ granted[m2][s] # NoLimit /\ caps[s] # NoLimit
                    /\ granted[m2][s] <= Widen(m, caps)[m2][s]
                    /\ caps[s] <= Widen(m, caps)[m2][s]
  <1> USE ConstantsAssumption DEF ConstantsAssumption, TypeOK, OptCap
  <1> DEFINE W(s) == IF s \notin DOMAIN caps \/ granted[m][s] = NoLimit
                     THEN granted[m][s]
                     ELSE IF caps[s] = NoLimit THEN NoLimit
                     ELSE IF caps[s] > granted[m][s] THEN caps[s]
                     ELSE granted[m][s]
  <1>1. Widen(m, caps) = [granted EXCEPT ![m] = [s \in Scopes |-> W(s)]]
    BY DEF Widen
  <1>2. ASSUME NEW s \in Scopes
        PROVE  /\ W(s) \in Nat \cup {NoLimit}
               /\ s \notin S => W(s) = granted[m][s]
               /\ s \in S /\ W(s) # NoLimit =>
                    /\ granted[m][s] # NoLimit /\ caps[s] # NoLimit
                    /\ granted[m][s] <= W(s) /\ caps[s] <= W(s)
    <2>1. granted[m][s] \in Nat \cup {NoLimit}
      OBVIOUS
    <2>2. s \in S => caps[s] \in Nat \cup {NoLimit}
      OBVIOUS
    <2>3. DOMAIN caps = S
      OBVIOUS
    <2> QED
      BY <2>1, <2>2, <2>3
  <1>3. \A m2 \in Months, s \in Scopes :
            Widen(m, caps)[m2][s] = IF m2 = m THEN W(s) ELSE granted[m2][s]
    BY <1>1
  <1> QED
    BY <1>1, <1>2, <1>3

-----------------------------------------------------------------------------
(* Type correctness.                                                        *)

\* The scopes of a request are scopes of the ledger.
LEMMA ScopesOfType ==
    ASSUME NEW q \in Request
    PROVE  ScopesOf(q) \in SUBSET Scopes
  BY DEF ScopesOf, Request, Scopes

\* A request stays well typed when its phase moves or its client goes away.
LEMMA PhaseType ==
    ASSUME NEW q \in Request, NEW p \in Phases
    PROVE  /\ [q EXCEPT !.phase = p] \in Request
           /\ [q EXCEPT !.cancelled = TRUE] \in Request
           /\ [q EXCEPT !.cancelled = TRUE, !.phase = p] \in Request
  BY DEF Request

\* What one action does to a single request keeps the requests well typed.
LEMMA RequestUpdate ==
    ASSUME TypeOK, NEW r \in Requests, NEW q \in Request,
           req' = [req EXCEPT ![r] = q]
    PROVE  req' \in [Requests -> Request]
  BY DEF TypeOK

\* The amount a request asks for is one of the two reservation sizes.
LEMMA AmountType ==
    ASSUME NEW mult \in {1, 2}
    PROVE  R * mult \in {R, 2 * R} /\ R * mult \in Nat
  BY ConstantsAssumption DEF ConstantsAssumption

LEMMA TypeInit == Init => TypeOK
  <1> SUFFICES ASSUME Init PROVE TypeOK
    OBVIOUS
  <1> USE ConstantsAssumption DEF ConstantsAssumption, Init
  <1>1. Zero \in Counters /\ 1 \in Months
    BY DEF Zero, Counters, Months
  <1>2. granted \in [Months -> [Scopes -> Nat \cup {NoLimit}]]
    BY DEF Zero
  <1>3. req \in [Requests -> Request]
    <2> DEFINE idle == [phase |-> "idle", user |-> Anonymous,
                        month |-> 1, globalCap |-> NoLimit,
                        userCap |-> NoLimit, mult |-> 1,
                        group |-> NoGroup, amount |-> 0, bytes |-> 0,
                        cancelled |-> FALSE]
    <2>1. NoLimit \in OptCap /\ 0 \in 0..MaxBody /\ "idle" \in Phases
      BY DEF OptCap, Phases
    <2>2. idle \in Request
      BY <1>1, <2>1 DEF Request
    <2> HIDE DEF idle
    <2>3. req \in [Requests -> {idle}]
      BY DEF idle
    <2> QED
      BY <2>2, <2>3
  <1> QED
    BY <1>1, <1>2, <1>3 DEF TypeOK, Counters, OptCap

LEMMA TypeStep == TypeOK /\ [Next]_vars => TypeOK'
  <1> SUFFICES ASSUME TypeOK, [Next]_vars PROVE TypeOK'
    OBVIOUS
  <1> USE ConstantsAssumption DEF ConstantsAssumption
  <1>0. /\ billed \in Counters /\ reserved \in Counters
        /\ charged \in Counters /\ excess \in Counters
    BY DEF TypeOK, Counters
  <1>1. ASSUME NEW r \in Requests, NEW u \in Users \cup {Anonymous}, Start(r, u)
        PROVE  TypeOK'
    <2>1. NewRequest(u) \in Request
      BY DEF NewRequest, Request, Phases, TypeOK, Config, OptCap
    <2> QED
      BY <1>1, <2>1, RequestUpdate DEF Start, TypeOK, admin, ledger, history
  <1>2. ASSUME NEW r \in Requests, ReserveUser(r) PROVE TypeOK'
    <2> DEFINE q == req[r]
               asked == [q EXCEPT !.group = profile[q.user].group]
               amount == R * q.mult
               caps == CapsAt(ScopesOf(asked), q.user, q.globalCap, q.userCap)
    <2>1. q \in Request /\ q.user \in Users /\ q.month \in Months
      BY <1>2 DEF ReserveUser, TypeOK, Request
    <2>2. asked \in Request
      BY <2>1 DEF Request, TypeOK, Profile
    <2>3. amount \in Nat /\ amount \in {R, 2 * R}
      BY <2>1, AmountType DEF Request
    <2>4. [asked EXCEPT !.amount = amount, !.phase = Armed(q)] \in Request
      BY <2>2, <2>3 DEF Request, Phases, Armed
    <2>5. reserved' \in Counters
      BY <1>0, <1>2, <2>1, <2>3, AddAtFacts DEF ReserveUser
    <2>6. caps \in [ScopesOf(asked) -> OptCap]
      BY <2>1, <2>2, ScopesOfType, CapsAtType DEF Request
    <2>7. granted' \in [Months -> [Scopes -> Nat \cup {NoLimit}]]
      BY <1>2, <2>1, <2>2, <2>6, ScopesOfType, WidenFacts DEF ReserveUser
    <2>8. req' \in [Requests -> Request]
      BY <1>2, <2>4, RequestUpdate DEF ReserveUser
    <2> QED
      BY <1>2, <2>5, <2>7, <2>8 DEF ReserveUser, TypeOK, admin, Counters
  <1>3. ASSUME NEW r \in Requests, ReserveAnonymous(r) PROVE TypeOK'
    <2> DEFINE q == req[r]
               amount == IF q.globalCap = NoLimit THEN 0 ELSE R * q.mult
               caps == [s \in {Global} |-> q.globalCap]
    <2>1. q \in Request /\ q.month \in Months /\ q.globalCap \in OptCap
      BY DEF TypeOK, Request
    <2>3. amount \in Nat /\ amount \in {0, R, 2 * R}
      BY <2>1, AmountType DEF Request
    <2>4. [q EXCEPT !.amount = amount, !.phase = Armed(q)] \in Request
      BY <2>1, <2>3 DEF Request, Phases, Armed
    <2>5. reserved' \in Counters
      BY <1>0, <1>3, <2>1, <2>3, AddAtFacts DEF ReserveAnonymous
    <2>6. caps \in [{Global} -> OptCap] /\ {Global} \in SUBSET Scopes
      BY <2>1 DEF Scopes
    <2>7. granted' \in [Months -> [Scopes -> Nat \cup {NoLimit}]]
      BY <1>3, <2>1, <2>6, WidenFacts DEF ReserveAnonymous
    <2>8. req' = [req EXCEPT ![r] = [q EXCEPT !.amount = amount, !.phase = Armed(q)]]
      BY <1>3, <2>1 DEF ReserveAnonymous, TypeOK
    <2>9. req' \in [Requests -> Request]
      BY <2>4, <2>8, RequestUpdate
    <2> QED
      BY <1>3, <2>5, <2>7, <2>9 DEF ReserveAnonymous, TypeOK, admin, Counters
  <1>4. ASSUME NEW r \in Requests,
               \/ ReserveExceeded(r) \/ ReserveFails(r) \/ Respond(r)
               \/ StreamEnd(r) \/ SettleFails(r) \/ Cancel(r)
        PROVE  TypeOK'
    <2>1. PICK q \in Request : req' = [req EXCEPT ![r] = q]
      <3>1. req[r] \in Request /\ req \in [Requests -> Request]
        BY DEF TypeOK
      <3>2. \/ \E p \in Phases : req' = [req EXCEPT ![r] = [req[r] EXCEPT !.phase = p]]
            \/ req' = [req EXCEPT ![r] = [req[r] EXCEPT !.cancelled = TRUE]]
            \/ req' = [req EXCEPT ![r] = [req[r] EXCEPT !.cancelled = TRUE,
                                                      !.phase = "settling"]]
        BY <1>4, <3>1 DEF ReserveExceeded, ReserveFails, Respond, StreamEnd,
            SettleFails, Cancel, Phases
      <3>3. "settling" \in Phases
        BY DEF Phases
      <3> QED
        BY <3>1, <3>2, <3>3, PhaseType
    <2> QED
      BY <1>4, <2>1, RequestUpdate DEF ReserveExceeded, ReserveFails, Respond,
         StreamEnd, SettleFails, Cancel, TypeOK, admin, ledger, history
  <1>5. ASSUME NEW r \in Requests, MarkExceeded(r) PROVE TypeOK'
    <2>0. req[r] \in Request /\ "rejected" \in Phases
      BY DEF TypeOK, Phases
    <2>1. [req[r] EXCEPT !.phase = "rejected"] \in Request /\ req[r].month \in Months
      BY <2>0, PhaseType DEF Request
    <2>2. req' \in [Requests -> Request]
      BY <1>5, <2>1 DEF MarkExceeded, TypeOK
    <2> QED
      BY <1>5, <2>1, <2>2 DEF MarkExceeded, TypeOK, admin, ledger, history
  <1>6. ASSUME NEW r \in Requests, StreamChunk(r) PROVE TypeOK'
    <2>1. PICK n \in Chunks : /\ req[r].bytes + n <= MaxBody
                              /\ req' = [req EXCEPT ![r].bytes = @ + n]
      BY <1>6 DEF StreamChunk
    <2>2. [req[r] EXCEPT !.bytes = @ + n] \in Request
      <3>1. req[r] \in Request /\ n \in Nat
        BY DEF TypeOK
      <3>2. req[r].bytes + n \in 0..MaxBody
        BY <2>1, <3>1 DEF Request
      <3> QED
        BY <3>1, <3>2 DEF Request
    <2>3. req' \in [Requests -> Request]
      BY <2>1, <2>2 DEF TypeOK
    <2> QED
      BY <1>6, <2>3 DEF StreamChunk, TypeOK, admin, ledger, history
  <1>7. ASSUME NEW r \in Requests, Settle(r) PROVE TypeOK'
    <2> DEFINE q == req[r]
               over == q.bytes * q.mult - q.amount
    <2>1. /\ q \in Request /\ q.month \in Months /\ q.amount \in Nat
          /\ q.bytes * q.mult \in Nat
          /\ (IF over > 0 THEN over ELSE 0) \in Nat
      BY DEF TypeOK, Request
    <2>2. billed' \in Counters /\ reserved' \in Counters /\ excess' \in Counters
      BY <1>0, <1>7, <2>1, AddAtFacts, ReleaseAtFacts DEF Settle
    <2>3. [q EXCEPT !.phase = "done"] \in Request
      BY <2>1 DEF Request, Phases
    <2>4. req' \in [Requests -> Request]
      BY <1>7, <2>3 DEF Settle, TypeOK
    <2> QED
      BY <1>7, <2>2, <2>4 DEF Settle, TypeOK, admin, Counters
  <1>8. CASE Crash
    <2>1. req' \in [Requests -> Request]
      <3>1. /\ \A r \in Requests : req[r] \in Request
            /\ "rejected" \in Phases /\ "lost" \in Phases
        BY DEF TypeOK, Phases
      <3>2. \A r \in Requests :
              /\ [req[r] EXCEPT !.phase = "rejected"] \in Request
              /\ [req[r] EXCEPT !.phase = "lost"] \in Request
        BY <3>1, PhaseType
      <3> QED
        BY <1>8, <3>1, <3>2 DEF Crash
    <2> QED
      BY <1>8, <2>1 DEF Crash, TypeOK, admin, ledger, history
  <1>9. ASSUME NEW u \in Users, NEW n \in Chunks, ChargeDownload(u, n)
        PROVE  TypeOK'
    <2> DEFINE bytes == n * (IF cfg.bidirectional THEN 2 ELSE 1)
               scopes == {Global, u, profile[u].group} \ {NoGroup}
               caps == CapsAt(scopes, u, cfg.globalCap, cfg.userCap)
    <2>1. bytes \in Nat /\ month \in Months
      BY DEF TypeOK, Config
    <2>2. scopes \in SUBSET Scopes
      BY DEF TypeOK, Profile, Scopes
    <2>3. caps \in [scopes -> OptCap]
      BY <2>2, CapsAtType DEF TypeOK, Config
    <2>4. billed' \in Counters /\ charged' \in Counters
      BY <1>0, <1>9, <2>1, AddAtFacts DEF ChargeDownload
    <2>5. granted' \in [Months -> [Scopes -> Nat \cup {NoLimit}]]
      BY <1>9, <2>1, <2>2, <2>3, WidenFacts DEF ChargeDownload
    <2> QED
      BY <1>9, <2>4, <2>5 DEF ChargeDownload, TypeOK, admin, Counters
  <1>10. CASE UpdateConfig \/ NextMonth
    <2>1. month' \in Months
      BY <1>10 DEF UpdateConfig, NextMonth, TypeOK, Months
    <2>2. cfg' \in Config
      BY <1>10 DEF UpdateConfig, NextMonth, TypeOK
    <2> QED
      BY <1>10, <2>1, <2>2 DEF UpdateConfig, NextMonth, TypeOK, ledger, history
  <1>11. ASSUME NEW u \in Users, SetProfile(u) PROVE TypeOK'
    BY <1>11 DEF SetProfile, TypeOK, ledger, history
  <1>12. ASSUME NEW g \in Groups, UpdateGroup(g) PROVE TypeOK'
    BY <1>12 DEF UpdateGroup, TypeOK, ledger, history
  <1>13. CASE UNCHANGED vars
    BY <1>13 DEF vars, TypeOK
  <1> QED
    BY <1>1, <1>2, <1>3, <1>4, <1>5, <1>6, <1>7, <1>8, <1>9, <1>10, <1>11,
       <1>12, <1>13 DEF Next, Server

\* Every reachable state of the quota component is well typed: counters never
\* become negative and a request's reservation is 0, R or 2R.
THEOREM TypeCorrect == Spec => []TypeOK
  BY TypeInit, TypeStep, PTL DEF Spec

-----------------------------------------------------------------------------
(* Reservations are balanced.  The sum of the outstanding reservations of a *)
(* row is counted as two cardinalities, one per reservation size.           *)

\* A step that touches no request but r.
Only(r) == \A x \in Requests \ {r} : req'[x] = req[x]

\* Such a step moves r in or out of a set of holders and no other request.
LEMMA HeldUpdate ==
    ASSUME NEW r \in Requests, Only(r), NEW m, NEW s, NEW a
    PROVE  Held(m, s, a)' = IF Holds(req'[r], m, s, a)
                            THEN Held(m, s, a) \cup {r}
                            ELSE Held(m, s, a) \ {r}
  BY DEF Held, Only, Holds, ScopesOf

\* Sets of holders are finite, so their cardinalities are natural numbers.
LEMMA HeldFinite ==
    ASSUME NEW m, NEW s, NEW a
    PROVE  IsFiniteSet(Held(m, s, a)) /\ Cardinality(Held(m, s, a)) \in Nat
  <1>1. Held(m, s, a) \in SUBSET Requests /\ IsFiniteSet(Requests)
    BY ConstantsAssumption DEF ConstantsAssumption, Held
  <1> QED
    BY <1>1, FS_Subset, FS_CardinalityType

\* The count of a single request that satisfies P.
One(P) == IF P THEN 1 ELSE 0

\* One request joins or leaves a set of holders at most once.
LEMMA HeldCount ==
    ASSUME NEW r \in Requests, Only(r), NEW m, NEW s, NEW a
    PROVE  Cardinality(Held(m, s, a)') = Cardinality(Held(m, s, a))
             + One(Holds(req'[r], m, s, a)) - One(Holds(req[r], m, s, a))
  <1>1. r \in Held(m, s, a) <=> Holds(req[r], m, s, a)
    BY DEF Held
  <1>2. IsFiniteSet(Held(m, s, a)) /\ Cardinality(Held(m, s, a)) \in Nat
    BY HeldFinite
  <1>0. Held(m, s, a)' = IF Holds(req'[r], m, s, a) THEN Held(m, s, a) \cup {r}
                                             ELSE Held(m, s, a) \ {r}
    BY HeldUpdate
  <1>3. CASE Holds(req'[r], m, s, a)
    <2>1. Held(m, s, a)' = Held(m, s, a) \cup {r}
      BY <1>0, <1>3
    <2>2. Cardinality(Held(m, s, a) \cup {r}) =
            IF r \in Held(m, s, a) THEN Cardinality(Held(m, s, a))
            ELSE Cardinality(Held(m, s, a)) + 1
      BY <1>2, FS_AddElement
    <2> QED
      BY <1>1, <1>2, <1>3, <2>1, <2>2 DEF One
  <1>4. CASE ~Holds(req'[r], m, s, a)
    <2>1. Held(m, s, a)' = Held(m, s, a) \ {r}
      BY <1>0, <1>4
    <2>2. Cardinality(Held(m, s, a) \ {r}) =
            IF r \in Held(m, s, a) THEN Cardinality(Held(m, s, a)) - 1
            ELSE Cardinality(Held(m, s, a))
      BY <1>2, FS_RemoveElement
    <2> QED
      BY <1>1, <1>2, <1>4, <2>1, <2>2 DEF One
  <1> QED
    BY <1>3, <1>4

\* The share of a row that one request accounts for.
Share(q, m, s) ==
    IF q.phase \in Holding /\ q.month = m /\ s \in ScopesOf(q)
    THEN q.amount ELSE 0

\* What the holders of a row add up to.
Total(m, s) == R * Cardinality(Held(m, s, R))
               + 2 * R * Cardinality(Held(m, s, 2 * R))

\* The total moves by exactly the difference of the shares.
LEMMA TotalUpdate ==
    ASSUME TypeOK, TypeOK', NEW r \in Requests, Only(r), NEW m, NEW s
    PROVE  Total(m, s)' = Total(m, s) + Share(req'[r], m, s) - Share(req[r], m, s)
  <1> DEFINE c1 == Cardinality(Held(m, s, R))
             c2 == Cardinality(Held(m, s, 2 * R))
             d(x, a) == One(Holds(x, m, s, a))
  <1> USE ConstantsAssumption DEF ConstantsAssumption
  <1>1. c1 \in Nat /\ c2 \in Nat
    BY HeldFinite
  <1>2. /\ Cardinality(Held(m, s, R)') = c1 + d(req'[r], R) - d(req[r], R)
        /\ Cardinality(Held(m, s, 2 * R)') = c2 + d(req'[r], 2 * R) - d(req[r], 2 * R)
    <2>1. Cardinality(Held(m, s, R)') = c1 + d(req'[r], R) - d(req[r], R)
      BY HeldCount
    <2>2. Cardinality(Held(m, s, 2 * R)') = c2 + d(req'[r], 2 * R) - d(req[r], 2 * R)
      BY HeldCount
    <2> QED
      BY <2>1, <2>2
  <1>3. ASSUME NEW x \in Request
        PROVE  Share(x, m, s) = R * d(x, R) + 2 * R * d(x, 2 * R)
    <2>1. x.amount \in {0, R, 2 * R} /\ R # 2 * R /\ R # 0
      BY DEF Request
    <2> QED
      BY <2>1 DEF Share, Holds, One
  <1>4. /\ Share(req'[r], m, s) = R * d(req'[r], R) + 2 * R * d(req'[r], 2 * R)
        /\ Share(req[r], m, s) = R * d(req[r], R) + 2 * R * d(req[r], 2 * R)
    BY <1>3 DEF TypeOK
  <1>5. /\ Total(m, s) = R * c1 + 2 * R * c2
        /\ Total(m, s)' = R * (c1 + d(req'[r], R) - d(req[r], R))
                           + 2 * R * (c2 + d(req'[r], 2 * R) - d(req[r], 2 * R))
    BY <1>2 DEF Total
  <1>6. /\ d(req'[r], R) \in Int /\ d(req[r], R) \in Int
        /\ d(req'[r], 2 * R) \in Int /\ d(req[r], 2 * R) \in Int
    BY DEF One
  <1> DEFINE y == d(req'[r], R)
             z == d(req[r], R)
             u == d(req'[r], 2 * R)
             v == d(req[r], 2 * R)
  <1>7. /\ y \in Int /\ z \in Int /\ u \in Int /\ v \in Int
        /\ Share(req'[r], m, s) = R * y + 2 * R * u
        /\ Share(req[r], m, s) = R * z + 2 * R * v
        /\ Total(m, s)' = R * (c1 + y - z) + 2 * R * (c2 + u - v)
    BY <1>4, <1>5, <1>6
  <1> HIDE DEF c1, c2, y, z, u, v
  <1> QED
    BY <1>1, <1>5, <1>7

\* A row covers the share of each request that holds it: MAX(0, ..) in the
\* release is never needed.
LEMMA ShareCovered ==
    ASSUME TypeOK, NEW r \in Requests, NEW m, NEW s
    PROVE  Share(req[r], m, s) \in Nat /\ Total(m, s) >= Share(req[r], m, s)
  <1> DEFINE c1 == Cardinality(Held(m, s, R))
             c2 == Cardinality(Held(m, s, 2 * R))
  <1> USE ConstantsAssumption DEF ConstantsAssumption
  <1>1. c1 \in Nat /\ c2 \in Nat
    BY HeldFinite
  <1>2. req[r].amount \in {0, R, 2 * R}
    BY DEF TypeOK, Request
  <1>3. ASSUME NEW a, Holds(req[r], m, s, a)
        PROVE  Cardinality(Held(m, s, a)) >= 1
    <2>1. Held(m, s, a) # {} /\ IsFiniteSet(Held(m, s, a))
      BY <1>3, HeldFinite DEF Held
    <2>2. Cardinality(Held(m, s, a)) # 0
      BY <2>1, FS_EmptySet
    <2> QED
      BY <2>2, HeldFinite
  <1>4. CASE Share(req[r], m, s) = 0
    <2>1. Total(m, s) = R * c1 + 2 * R * c2
      BY DEF Total
    <2> HIDE DEF c1, c2
    <2> QED
      BY <1>1, <1>4, <2>1
  <1>5. CASE Share(req[r], m, s) # 0
    <2>1. /\ Share(req[r], m, s) = req[r].amount
          /\ Holds(req[r], m, s, req[r].amount)
      BY <1>5 DEF Share, Holds
    <2>2. CASE req[r].amount = R
      <3>1. c1 >= 1
        BY <1>3, <2>1, <2>2
      <3>2. Total(m, s) = R * c1 + 2 * R * c2
        BY DEF Total
      <3> HIDE DEF c1, c2
      <3>3. R * c1 >= R /\ R * c1 \in Nat /\ 2 * R * c2 \in Nat
        BY <1>1, <3>1
      <3> QED
        BY <2>1, <2>2, <3>2, <3>3
    <2>3. CASE req[r].amount = 2 * R
      <3>1. c2 >= 1
        BY <1>3, <2>1, <2>3
      <3>2. Total(m, s) = R * c1 + 2 * R * c2
        BY DEF Total
      <3> HIDE DEF c1, c2
      <3>3. 2 * R * c2 >= 2 * R /\ R * c1 \in Nat /\ 2 * R * c2 \in Nat
        BY <1>1, <3>1
      <3> QED
        BY <2>1, <2>3, <3>2, <3>3
    <2> QED
      BY <1>2, <1>5, <2>1, <2>2, <2>3
  <1> QED
    BY <1>4, <1>5

\* The inductive invariant.  AdmissionBound alone is not inductive: a release
\* that MAX(0, ..) cut short would break it, so it needs the balance, and the
\* balance needs the types and that a request has no group before its
\* reservation looked one up.
Ungrouped == \A r \in Requests : req[r].phase = "reserving" => req[r].group = NoGroup

IInv == TypeOK /\ Ungrouped /\ ReservationsBalanced /\ AdmissionBound

LEMMA InvInit == Init => IInv
  <1> SUFFICES ASSUME Init PROVE IInv
    OBVIOUS
  <1> USE ConstantsAssumption DEF ConstantsAssumption
  <1>1. TypeOK
    BY TypeInit
  <1>2. \A m, s, a : Held(m, s, a) = {}
    BY DEF Init, Held, Holds, Holding
  <1>3. \A m, s : R * Cardinality(Held(m, s, R))
                   + 2 * R * Cardinality(Held(m, s, 2 * R)) = 0
    BY <1>2, FS_EmptySet
  <1>4. ReservationsBalanced
    BY <1>3 DEF ReservationsBalanced, Init, Zero
  <1>5. AdmissionBound
    BY DEF AdmissionBound, Init, Zero
  <1>6. Ungrouped
    BY DEF Init, Ungrouped
  <1> QED
    BY <1>1, <1>4, <1>5, <1>6 DEF IInv

\* Only Start brings a request to "reserving", without a group.
LEMMA UngroupedStep ==
    ASSUME TypeOK, Ungrouped, [Next]_vars
    PROVE  Ungrouped'
  <1>1. ASSUME NEW r \in Requests,
               \/ \E u \in Users \cup {Anonymous} : Start(r, u)
               \/ ReserveExceeded(r) \/ ReserveFails(r) \/ MarkExceeded(r)
               \/ Cancel(r) \/ Respond(r) \/ StreamChunk(r) \/ StreamEnd(r)
               \/ SettleFails(r) \/ Settle(r)
        PROVE  Ungrouped'
    <2>1. req[r] \in Request /\ req \in [Requests -> Request]
      BY DEF TypeOK
    <2>2. /\ Only(r)
          /\ \/ req'[r].phase # "reserving"
             \/ req'[r].group = NoGroup
             \/ req[r].phase = "reserving" /\ req'[r].group = req[r].group
      <3>1. CASE \E u \in Users \cup {Anonymous} : Start(r, u)
        BY <2>1, <3>1 DEF Start, NewRequest, Only
      <3>2. CASE ReserveExceeded(r) \/ ReserveFails(r) \/ MarkExceeded(r)
                 \/ Respond(r) \/ StreamEnd(r) \/ SettleFails(r) \/ Settle(r)
        <4>1. \E p \in {"rejected", "exceeded", "settling", "streaming", "lost", "done"} :
                req' = [req EXCEPT ![r].phase = p]
          BY <3>2 DEF ReserveExceeded, ReserveFails, MarkExceeded, Respond,
             StreamEnd, SettleFails, Settle
        <4> QED
          BY <2>1, <4>1 DEF Only, Request
      <3>3. CASE Cancel(r) \/ StreamChunk(r)
        BY <2>1, <3>3 DEF Cancel, StreamChunk, Only, Request
      <3> QED
        BY <1>1, <3>1, <3>2, <3>3
    <2> QED
      BY <2>2 DEF Only, Ungrouped
  <1>2. ASSUME NEW r \in Requests, ReserveUser(r) \/ ReserveAnonymous(r)
        PROVE  Ungrouped'
    <2>1. req[r] \in Request /\ req \in [Requests -> Request]
      BY DEF TypeOK
    <2>2. Only(r) /\ req'[r].phase = Armed(req[r])
      <3>1. CASE ReserveUser(r)
        BY <2>1, <3>1 DEF ReserveUser, Only, Request
      <3>2. CASE ReserveAnonymous(r)
        BY <2>1, <3>2 DEF ReserveAnonymous, Only, Request
      <3> QED
        BY <1>2, <3>1, <3>2
    <2> QED
      BY <2>2 DEF Only, Armed, Ungrouped
  <1>3. CASE Crash
    BY <1>3 DEF Crash, TypeOK, Request, Ungrouped
  <1>4. CASE \/ \E u \in Users, n \in Chunks : ChargeDownload(u, n)
             \/ UpdateConfig \/ \E u \in Users : SetProfile(u)
             \/ \E g \in Groups : UpdateGroup(g)
             \/ NextMonth \/ UNCHANGED vars
    BY <1>4 DEF ChargeDownload, UpdateConfig, SetProfile, UpdateGroup,
       NextMonth, vars, Ungrouped
  <1> QED
    BY <1>1, <1>2, <1>3, <1>4 DEF Next, Server

\* A step that touches only request r keeps the balance when it moves every
\* row by the change of r's share.
LEMMA BalanceFromShares ==
    ASSUME TypeOK, TypeOK', ReservationsBalanced,
           NEW r \in Requests, Only(r),
           \A m \in Months, s \in Scopes :
              reserved'[m][s] = reserved[m][s] + Share(req'[r], m, s)
                                               - Share(req[r], m, s)
    PROVE  ReservationsBalanced'
  <1> SUFFICES ASSUME NEW m \in Months, NEW s \in Scopes
               PROVE  reserved'[m][s] = Total(m, s)'
    BY DEF ReservationsBalanced, Total
  <1>1. reserved[m][s] = Total(m, s)
    BY DEF ReservationsBalanced, Total
  <1>2. Total(m, s)' = Total(m, s) + Share(req'[r], m, s) - Share(req[r], m, s)
    BY TotalUpdate
  <1> QED
    BY <1>1, <1>2

\* Steps of the middleware and the body that leave the ledger alone also
\* leave the share of their request alone.
LEMMA QuietStep ==
    ASSUME TypeOK, NEW r \in Requests,
           \/ \E u \in Users \cup {Anonymous} : Start(r, u)
           \/ ReserveExceeded(r) \/ ReserveFails(r) \/ MarkExceeded(r)
           \/ Cancel(r) \/ Respond(r) \/ StreamChunk(r) \/ StreamEnd(r)
           \/ SettleFails(r)
    PROVE  /\ Only(r) /\ UNCHANGED <<ledger, history>>
           /\ \A m, s : Share(req'[r], m, s) = Share(req[r], m, s)
  <1>1. req[r] \in Request /\ req \in [Requests -> Request]
    BY DEF TypeOK
  <1>2. CASE \E u \in Users \cup {Anonymous} : Start(r, u)
    BY <1>1, <1>2 DEF Start, NewRequest, Only, Share, Holding, ledger, history
  <1>3. CASE ReserveExceeded(r) \/ ReserveFails(r) \/ MarkExceeded(r)
    <2>1. /\ req[r].phase \notin Holding /\ UNCHANGED <<ledger, history>>
          /\ \E p \in {"rejected", "exceeded"} : req' = [req EXCEPT ![r].phase = p]
      BY <1>3 DEF ReserveExceeded, ReserveFails, MarkExceeded, Holding, ledger, history
    <2> QED
      BY <1>1, <2>1 DEF Only, Share, Holding
  <1>4. CASE Cancel(r) \/ Respond(r) \/ StreamChunk(r) \/ StreamEnd(r) \/ SettleFails(r)
    <2>1. /\ UNCHANGED <<ledger, history>> /\ Only(r)
          /\ req'[r].month = req[r].month /\ req'[r].user = req[r].user
          /\ req'[r].group = req[r].group /\ req'[r].amount = req[r].amount
          /\ req'[r].phase \in Holding <=> req[r].phase \in Holding
      BY <1>1, <1>4 DEF Cancel, Respond, StreamChunk, StreamEnd, SettleFails,
         Request, Only, Holding, ledger, history
    <2> QED
      BY <2>1 DEF Share, ScopesOf
  <1> QED
    BY <1>2, <1>3, <1>4

\* An admission that reserves n at the scopes of caps and bills b there keeps
\* every row within the widest cap that admitted traffic to it.
LEMMA AdmissionStep ==
    ASSUME TypeOK, TypeOK', AdmissionBound,
           NEW m \in Months, NEW S \in SUBSET Scopes, NEW caps \in [S -> OptCap],
           NEW b \in Nat, NEW n \in Nat, NEW need \in Nat,
           \A s \in S : caps[s] # NoLimit => b + n = need,
           Admits(m, need, caps), granted' = Widen(m, caps), excess' = excess,
           billed' = AddAt(billed, m, S, b), reserved' = AddAt(reserved, m, S, n)
    PROVE  AdmissionBound'
  <1> SUFFICES ASSUME NEW m2 \in Months, NEW s \in Scopes,
                      granted'[m2][s] # NoLimit
               PROVE  billed'[m2][s] + reserved'[m2][s]
                        <= granted'[m2][s] + excess'[m2][s]
    BY DEF AdmissionBound
  <1> USE ConstantsAssumption DEF ConstantsAssumption
  <1>1. /\ billed \in Counters /\ reserved \in Counters
        /\ billed[m2][s] \in Nat /\ reserved[m2][s] \in Nat
        /\ excess[m2][s] \in Nat /\ granted'[m2][s] \in Nat
        /\ granted[m2][s] \in Nat \cup {NoLimit}
    BY DEF TypeOK, Counters
  <1>2. /\ billed'[m2][s] = IF m2 = m /\ s \in S THEN billed[m2][s] + b
                            ELSE billed[m2][s]
        /\ reserved'[m2][s] = IF m2 = m /\ s \in S THEN reserved[m2][s] + n
                              ELSE reserved[m2][s]
    BY <1>1, AddAtFacts
  <1>3. CASE m2 = m /\ s \in S
    <2>1. caps[s] # NoLimit /\ caps[s] <= granted'[m2][s]
      BY <1>3, WidenFacts
    <2>2. billed[m2][s] + reserved[m2][s] + need <= caps[s] /\ b + n = need
      BY <1>3, <2>1 DEF Admits, Fits
    <2>3. caps[s] \in Nat
      BY <1>3, <2>1 DEF OptCap
    <2> QED
      BY <1>1, <1>2, <1>3, <2>1, <2>2, <2>3
  <1>4. CASE ~(m2 = m /\ s \in S)
    <2>1. granted'[m2][s] = granted[m2][s]
      BY <1>4, WidenFacts
    <2>2. billed[m2][s] + reserved[m2][s] <= granted[m2][s] + excess[m2][s]
      BY <2>1 DEF AdmissionBound
    <2> QED
      BY <1>2, <1>4, <2>1, <2>2
  <1> QED
    BY <1>3, <1>4

LEMMA InvStep == IInv /\ [Next]_vars => IInv'
  <1> SUFFICES ASSUME IInv, [Next]_vars PROVE IInv'
    OBVIOUS
  <1> USE ConstantsAssumption DEF ConstantsAssumption
  <1>0. /\ TypeOK /\ TypeOK' /\ ReservationsBalanced /\ AdmissionBound
        /\ Ungrouped /\ Ungrouped'
        /\ billed \in Counters /\ reserved \in Counters /\ excess \in Counters
    BY TypeStep, UngroupedStep DEF IInv, TypeOK, Counters
  <1>1. ASSUME NEW r \in Requests,
           \/ \E u \in Users \cup {Anonymous} : Start(r, u)
           \/ ReserveExceeded(r) \/ ReserveFails(r) \/ MarkExceeded(r)
           \/ Cancel(r) \/ Respond(r) \/ StreamChunk(r) \/ StreamEnd(r)
           \/ SettleFails(r)
        PROVE  IInv'
    <2>1. /\ Only(r) /\ UNCHANGED <<ledger, history>>
          /\ \A m, s : Share(req'[r], m, s) = Share(req[r], m, s)
      BY <1>0, <1>1, QuietStep
    <2>2. \A m \in Months, s \in Scopes :
             reserved'[m][s] = reserved[m][s] + Share(req'[r], m, s)
                                              - Share(req[r], m, s)
      <3>1. reserved' = reserved
        BY <2>1 DEF ledger
      <3>2. \A m, s : Share(req[r], m, s) \in Nat
        BY <1>0, ShareCovered
      <3> QED
        BY <1>0, <2>1, <3>1, <3>2 DEF Counters
    <2>3. ReservationsBalanced'
      BY <1>0, <2>1, <2>2, BalanceFromShares
    <2>4. AdmissionBound'
      BY <1>0, <2>1 DEF AdmissionBound, ledger, history
    <2> QED
      BY <1>0, <2>3, <2>4 DEF IInv
  <1>2. ASSUME NEW r \in Requests, ReserveUser(r) PROVE IInv'
    <2> DEFINE q == req[r]
               asked == [q EXCEPT !.group = profile[q.user].group]
               amount == R * q.mult
               caps == CapsAt(ScopesOf(asked), q.user, q.globalCap, q.userCap)
    <2>1. q \in Request /\ q.user \in Users /\ q.month \in Months
      BY <1>0, <1>2 DEF ReserveUser, TypeOK, Request
    <2>2. asked \in Request /\ asked.month = q.month
      BY <1>0, <2>1 DEF Request, TypeOK, Profile
    <2>3. amount \in Nat
      BY <2>1, AmountType DEF Request
    <2>4. ScopesOf(asked) \in SUBSET Scopes /\ caps \in [ScopesOf(asked) -> OptCap]
      BY <1>0, <2>1, <2>2, ScopesOfType, CapsAtType DEF Request
    <2>5. /\ Only(r) /\ req'[r] = [asked EXCEPT !.amount = amount, !.phase = Armed(q)]
          /\ q.phase = "reserving"
      BY <1>0, <1>2 DEF ReserveUser, TypeOK, Only
    <2>6. /\ req'[r].phase \in Holding /\ req'[r].month = q.month
          /\ req'[r].amount = amount /\ ScopesOf(req'[r]) = ScopesOf(asked)
          /\ q.phase \notin Holding
      BY <2>1, <2>2, <2>5 DEF Armed, Holding, ScopesOf, Request
    <2>7. \A m \in Months, s \in Scopes :
             /\ Share(req[r], m, s) = 0
             /\ Share(req'[r], m, s) =
                  IF m = q.month /\ s \in ScopesOf(asked) THEN amount ELSE 0
      BY <2>6 DEF Share
    <2>8. reserved' = AddAt(reserved, q.month, ScopesOf(asked), amount)
      BY <1>2 DEF ReserveUser
    <2>9. \A m \in Months, s \in Scopes :
             /\ reserved[m][s] \in Nat
             /\ reserved'[m][s] =
                  IF m = q.month /\ s \in ScopesOf(asked)
                  THEN reserved[m][s] + amount ELSE reserved[m][s]
      BY <1>0, <2>1, <2>3, <2>8, AddAtFacts DEF Counters
    <2> HIDE DEF q, asked, amount, caps
    <2>10. \A m \in Months, s \in Scopes :
             reserved'[m][s] = reserved[m][s] + Share(req'[r], m, s)
                                              - Share(req[r], m, s)
      BY <2>3, <2>7, <2>9
    <2>11. ReservationsBalanced'
      BY <1>0, <2>5, <2>10, BalanceFromShares
    <2>12. /\ Admits(q.month, amount, caps) /\ granted' = Widen(q.month, caps)
           /\ excess' = excess /\ billed' = billed
      BY <1>2 DEF ReserveUser, q, asked, amount, caps
    <2>13. AddAt(billed, q.month, ScopesOf(asked), 0) = billed
      BY <1>0, <2>1 DEF AddAt, Counters
    <2>14. AdmissionBound'
      BY <1>0, <2>1, <2>3, <2>4, <2>8, <2>12, <2>13, AdmissionStep
    <2> QED
      BY <1>0, <2>11, <2>14 DEF IInv
  <1>3. ASSUME NEW r \in Requests, ReserveAnonymous(r) PROVE IInv'
    <2> DEFINE q == req[r]
               amount == IF q.globalCap = NoLimit THEN 0 ELSE R * q.mult
               caps == [s \in {Global} |-> q.globalCap]
    <2>1. /\ q \in Request /\ q.month \in Months /\ q.globalCap \in OptCap
          /\ q.user = Anonymous /\ q.group = NoGroup /\ q.phase = "reserving"
      BY <1>0, <1>3 DEF ReserveAnonymous, TypeOK, Request, Ungrouped
    <2>3. amount \in Nat
      BY <2>1, AmountType DEF Request
    <2>4. {Global} \in SUBSET Scopes /\ caps \in [{Global} -> OptCap]
      BY <2>1 DEF Scopes
    <2>5. Only(r) /\ req'[r] = [q EXCEPT !.amount = amount, !.phase = Armed(q)]
      BY <1>0, <1>3 DEF ReserveAnonymous, TypeOK, Only
    <2>6. /\ req'[r].phase \in Holding /\ req'[r].month = q.month
          /\ req'[r].amount = amount /\ ScopesOf(req'[r]) = {Global}
          /\ q.phase \notin Holding
      BY <2>1, <2>5 DEF Armed, Holding, ScopesOf, Request, Scopes
    <2>7. \A m \in Months, s \in Scopes :
             /\ Share(req[r], m, s) = 0
             /\ Share(req'[r], m, s) =
                  IF m = q.month /\ s \in {Global} THEN amount ELSE 0
      BY <2>6 DEF Share
    <2>8. reserved' = AddAt(reserved, q.month, {Global}, amount)
      BY <1>3 DEF ReserveAnonymous
    <2>9. \A m \in Months, s \in Scopes :
             /\ reserved[m][s] \in Nat
             /\ reserved'[m][s] = IF m = q.month /\ s \in {Global}
                                  THEN reserved[m][s] + amount ELSE reserved[m][s]
      BY <1>0, <2>1, <2>3, <2>8, AddAtFacts DEF Counters
    <2> HIDE DEF q, amount, caps
    <2>10. \A m \in Months, s \in Scopes :
             reserved'[m][s] = reserved[m][s] + Share(req'[r], m, s)
                                              - Share(req[r], m, s)
      BY <2>3, <2>7, <2>9
    <2>11. ReservationsBalanced'
      BY <1>0, <2>5, <2>10, BalanceFromShares
    <2>12. /\ Admits(q.month, amount, caps) /\ granted' = Widen(q.month, caps)
           /\ excess' = excess /\ billed' = billed
      BY <1>3 DEF ReserveAnonymous, q, amount, caps
    <2>13. AddAt(billed, q.month, {Global}, 0) = billed
      BY <1>0, <2>1 DEF AddAt, Counters
    <2>14. AdmissionBound'
      BY <1>0, <2>1, <2>3, <2>4, <2>8, <2>12, <2>13, AdmissionStep
    <2> QED
      BY <1>0, <2>11, <2>14 DEF IInv
  <1>4. ASSUME NEW r \in Requests, Settle(r) PROVE IInv'
    <2> DEFINE q == req[r]
               b == q.bytes * q.mult
               over == b - q.amount
               more == IF over > 0 THEN over ELSE 0
               S == ScopesOf(q)
    <2>1. /\ q \in Request /\ q.month \in Months /\ q.amount \in Nat
          /\ b \in Nat /\ more \in Nat /\ q.phase = "settling"
      BY <1>0, <1>4 DEF Settle, TypeOK, Request
    <2>2. /\ billed' = AddAt(billed, q.month, S, b)
          /\ reserved' = ReleaseAt(reserved, q.month, S, q.amount)
          /\ excess' = AddAt(excess, q.month, S, more)
          /\ granted' = granted
      BY <1>4 DEF Settle
    <2>3. Only(r) /\ req'[r].phase = "done"
      BY <1>0, <1>4 DEF Settle, TypeOK, Request, Only
    <2>4. \A m \in Months, s \in Scopes :
             /\ Share(req'[r], m, s) = 0
             /\ Share(req[r], m, s) = IF m = q.month /\ s \in S THEN q.amount ELSE 0
      BY <2>1, <2>3 DEF Share, Holding
    <2>5. \A m \in Months, s \in Scopes : reserved[m][s] >= Share(req[r], m, s)
      BY <1>0, ShareCovered DEF ReservationsBalanced, Total
    <2> HIDE DEF q, b, over, more, S
    <2>6. \A m \in Months, s \in Scopes :
             /\ reserved[m][s] \in Nat /\ billed[m][s] \in Nat
             /\ excess[m][s] \in Nat
             /\ reserved'[m][s] = IF m = q.month /\ s \in S
                                  THEN reserved[m][s] - q.amount ELSE reserved[m][s]
      <3>1. SUFFICES ASSUME NEW m \in Months, NEW s \in Scopes
                     PROVE  reserved'[m][s] = IF m = q.month /\ s \in S
                              THEN reserved[m][s] - q.amount ELSE reserved[m][s]
        BY <1>0 DEF Counters
      <3>2. CASE m = q.month /\ s \in S
        <4>1. reserved[m][s] >= q.amount
          BY <2>4, <2>5, <3>2
        <4> QED
          BY <1>0, <2>1, <2>2, <3>2, <4>1, ReleaseAtFacts
      <3>3. CASE ~(m = q.month /\ s \in S)
        BY <1>0, <2>1, <2>2, <3>3, ReleaseAtFacts
      <3> QED
        BY <3>2, <3>3
    <2>7. \A m \in Months, s \in Scopes :
             reserved'[m][s] = reserved[m][s] + Share(req'[r], m, s)
                                              - Share(req[r], m, s)
      BY <2>1, <2>4, <2>6
    <2>8. ReservationsBalanced'
      BY <1>0, <2>3, <2>7, BalanceFromShares
    <2>9. \A m \in Months, s \in Scopes :
             /\ billed'[m][s] = IF m = q.month /\ s \in S
                                THEN billed[m][s] + b ELSE billed[m][s]
             /\ excess'[m][s] = IF m = q.month /\ s \in S
                                THEN excess[m][s] + more ELSE excess[m][s]
      BY <1>0, <2>1, <2>2, AddAtFacts
    <2>10. b - q.amount <= more
      BY <2>1 DEF more, over
    <2>11. AdmissionBound'
      <3> SUFFICES ASSUME NEW m \in Months, NEW s \in Scopes,
                          granted[m][s] # NoLimit
                   PROVE  billed'[m][s] + reserved'[m][s]
                            <= granted[m][s] + excess'[m][s]
        BY <2>2 DEF AdmissionBound
      <3>1. /\ billed[m][s] + reserved[m][s] <= granted[m][s] + excess[m][s]
            /\ granted[m][s] \in Nat
        BY <1>0 DEF AdmissionBound, TypeOK
      <3> QED
        BY <2>1, <2>6, <2>9, <2>10, <3>1
    <2> QED
      BY <1>0, <2>8, <2>11 DEF IInv
  <1>5. CASE Crash
    <2>1. \A m, s, a : Held(m, s, a)' = Held(m, s, a)
      <3> SUFFICES ASSUME NEW m, NEW s, NEW a, NEW r \in Requests
                   PROVE  Holds(req'[r], m, s, a) <=> Holds(req[r], m, s, a)
        BY DEF Held
      <3>1. /\ req'[r].month = req[r].month /\ req'[r].user = req[r].user
            /\ req'[r].group = req[r].group /\ req'[r].amount = req[r].amount
            /\ req'[r].phase \in Holding <=> req[r].phase \in Holding
        BY <1>0, <1>5 DEF Crash, TypeOK, Request, Holding
      <3> QED
        BY <3>1 DEF Holds, ScopesOf
    <2>2. ReservationsBalanced' /\ AdmissionBound'
      BY <1>0, <1>5, <2>1 DEF Crash, ReservationsBalanced, AdmissionBound,
         ledger, history
    <2> QED
      BY <1>0, <2>2 DEF IInv
  <1>6. ASSUME NEW u \in Users, NEW n \in Chunks, ChargeDownload(u, n)
        PROVE  IInv'
    <2> DEFINE bytes == n * (IF cfg.bidirectional THEN 2 ELSE 1)
               scopes == {Global, u, profile[u].group} \ {NoGroup}
               caps == CapsAt(scopes, u, cfg.globalCap, cfg.userCap)
    <2>1. bytes \in Nat /\ month \in Months
      BY <1>0 DEF TypeOK, Config
    <2>2. scopes \in SUBSET Scopes
      BY <1>0 DEF TypeOK, Profile, Scopes
    <2>3. caps \in [scopes -> OptCap]
      BY <1>0, <2>2, CapsAtType DEF TypeOK, Config
    <2>4. /\ billed' = AddAt(billed, month, scopes, bytes)
          /\ Admits(month, bytes, caps) /\ granted' = Widen(month, caps)
          /\ excess' = excess /\ reserved' = reserved /\ req' = req
      BY <1>6 DEF ChargeDownload
    <2> HIDE DEF bytes, scopes, caps
    <2>5. AddAt(reserved, month, scopes, 0) = reserved
      BY <1>0, <2>1 DEF AddAt, Counters
    <2>6. AdmissionBound'
      BY <1>0, <2>1, <2>2, <2>3, <2>4, <2>5, AdmissionStep
    <2>7. ReservationsBalanced'
      BY <1>0, <2>4 DEF ReservationsBalanced, Held
    <2> QED
      BY <1>0, <2>6, <2>7 DEF IInv
  <1>7. CASE \/ UpdateConfig \/ \E u \in Users : SetProfile(u)
             \/ \E g \in Groups : UpdateGroup(g)
             \/ NextMonth \/ UNCHANGED vars
    <2>1. UNCHANGED <<billed, reserved, req, granted, excess>>
      BY <1>7 DEF UpdateConfig, SetProfile, UpdateGroup, NextMonth, vars,
         ledger, history
    <2> QED
      BY <1>0, <2>1 DEF IInv, ReservationsBalanced, Held, AdmissionBound
  <1> QED
    BY <1>1, <1>2, <1>3, <1>4, <1>5, <1>6, <1>7 DEF Next, Server

\* For any number of requests, users, groups and months: the reserved bytes of
\* every row are exactly what its live and orphaned requests hold.
THEOREM QuotaBalanced == Spec => []ReservationsBalanced
  <1>1. IInv => ReservationsBalanced
    BY DEF IInv
  <1> QED
    BY <1>1, InvInit, InvStep, PTL DEF Spec

\* For any number of requests, users, groups and months: traffic exceeds the
\* widest cap it was admitted under only by what responses delivered beyond
\* their reservation.
THEOREM QuotaBounded == Spec => []AdmissionBound
  <1>1. IInv => AdmissionBound
    BY DEF IInv
  <1> QED
    BY <1>1, InvInit, InvStep, PTL DEF Spec
-----------------------------------------------------------------------------
(* Every settled request is billed once.  The sum runs over all requests,   *)
(* the ones that are not settled counting nothing.                          *)

BilledAt(reqs, m, s) == [r \in Requests |-> BilledTo(reqs[r], m, s)]

LEMMA BilledNatural ==
    ASSUME NEW reqs \in [Requests -> Request], NEW m, NEW s
    PROVE  /\ \A r \in Requests : /\ BilledAt(reqs, m, s)[r] = BilledTo(reqs[r], m, s)
                                  /\ BilledAt(reqs, m, s)[r] \in Nat
           /\ SumFunction(BilledAt(reqs, m, s)) = SumFunctionOnSet(BilledAt(reqs, m, s), Requests)
           /\ SumFunctionOnSet(BilledAt(reqs, m, s), Requests) \in Nat
  <1>1. ASSUME NEW r \in Requests
        PROVE  BilledAt(reqs, m, s)[r] = BilledTo(reqs[r], m, s) /\ BilledTo(reqs[r], m, s) \in Nat
    <2>1. reqs[r].bytes \in Nat /\ reqs[r].mult \in {1, 2}
      BY ConstantsAssumption DEF ConstantsAssumption, Request
    <2>2. reqs[r].bytes * reqs[r].mult \in Nat
      BY <2>1
    <2> QED
      BY <2>2 DEF BilledAt, BilledTo
  <1>2. DOMAIN BilledAt(reqs, m, s) = Requests
    BY DEF BilledAt
  <1>3. SumFunction(BilledAt(reqs, m, s)) = SumFunctionOnSet(BilledAt(reqs, m, s), Requests)
    BY <1>2, Zenon DEF SumFunction
  <1>4. SumFunctionOnSet(BilledAt(reqs, m, s), Requests) \in Nat
    BY <1>1, ConstantsAssumption, SumWithout DEF ConstantsAssumption
  <1> QED
    BY <1>1, <1>3, <1>4

\* A step that touches only request r moves the sum by what r was billed.
LEMMA BilledMoves ==
    ASSUME NEW before \in [Requests -> Request], NEW after \in [Requests -> Request],
           NEW r \in Requests, \A x \in Requests \ {r} : after[x] = before[x], NEW m, NEW s
    PROVE  SumFunction(BilledAt(after, m, s)) + BilledTo(before[r], m, s)
             = SumFunction(BilledAt(before, m, s)) + BilledTo(after[r], m, s)
  <1>e. PICK e : e = BilledAt(before, m, s)
    OBVIOUS
  <1>f. PICK f : f = BilledAt(after, m, s)
    OBVIOUS
  <1>1. \A x \in Requests : e[x] = BilledTo(before[x], m, s) /\ e[x] \in Nat
    BY <1>e, BilledNatural
  <1>2. \A x \in Requests : f[x] = BilledTo(after[x], m, s) /\ f[x] \in Nat
    BY <1>f, BilledNatural
  <1>3. \A x \in Requests : x # r => e[x] = f[x]
    BY <1>1, <1>2
  <1>4. IsFiniteSet(Requests)
    BY ConstantsAssumption DEF ConstantsAssumption
  <1>5. SumFunctionOnSet(f, Requests) + e[r] = SumFunctionOnSet(e, Requests) + f[r]
    BY <1>1, <1>2, <1>3, <1>4, SumChanges
  <1>6. SumFunction(e) = SumFunctionOnSet(e, Requests) /\ SumFunction(f) = SumFunctionOnSet(f, Requests)
    BY <1>e, <1>f, BilledNatural
  <1> QED
    BY <1>1, <1>2, <1>5, <1>6, <1>e, <1>f

BilledInv == TypeOK /\ BilledOnce

LEMMA BilledOf ==
    BilledOnce <=> \A m \in Months, s \in Scopes :
                      billed[m][s] = charged[m][s] + SumFunction(BilledAt(req, m, s))
  BY Zenon DEF BilledOnce, BilledAt

\* A step that bills request r what it adds to the rows keeps the sums.
LEMMA BilledFromRequest ==
    ASSUME TypeOK, TypeOK', BilledOnce, NEW r \in Requests, Only(r), charged' = charged,
           \A m \in Months, s \in Scopes :
              billed'[m][s] + BilledTo(req[r], m, s) = billed[m][s] + BilledTo(req'[r], m, s)
    PROVE  BilledOnce'
  <1> SUFFICES ASSUME NEW m \in Months, NEW s \in Scopes
               PROVE  billed'[m][s] = charged'[m][s] + SumFunction(BilledAt(req', m, s))
    BY DEF BilledOnce, BilledAt
  <1>1. req \in [Requests -> Request] /\ req' \in [Requests -> Request]
    BY DEF TypeOK
  <1>2. SumFunction(BilledAt(req', m, s)) + BilledTo(req[r], m, s)
          = SumFunction(BilledAt(req, m, s)) + BilledTo(req'[r], m, s)
    <2>a. PICK after \in [Requests -> Request] : after = req'
      BY <1>1
    <2>b. PICK before \in [Requests -> Request] : before = req
      BY <1>1
    <2>1. \A x \in Requests \ {r} : after[x] = before[x]
      BY <2>a, <2>b DEF Only
    <2>2. SumFunction(BilledAt(after, m, s)) + BilledTo(before[r], m, s)
            = SumFunction(BilledAt(before, m, s)) + BilledTo(after[r], m, s)
      BY <2>1, BilledMoves
    <2> QED
      BY <2>2, <2>a, <2>b
  <1>3. billed[m][s] = charged[m][s] + SumFunction(BilledAt(req, m, s))
    BY BilledOf
  <1>4. billed[m][s] \in Nat /\ billed'[m][s] \in Nat /\ charged[m][s] \in Nat
    BY DEF TypeOK
  <1>5. /\ SumFunction(BilledAt(req, m, s)) \in Nat /\ BilledTo(req[r], m, s) \in Nat
        /\ SumFunction(BilledAt(req', m, s)) \in Nat /\ BilledTo(req'[r], m, s) \in Nat
    <2>1. ASSUME NEW reqs \in [Requests -> Request]
          PROVE  SumFunction(BilledAt(reqs, m, s)) \in Nat /\ BilledTo(reqs[r], m, s) \in Nat
      BY BilledNatural
    <2> QED
      BY <1>1, <2>1
  <1> QED
    BY <1>2, <1>3, <1>4, <1>5

LEMMA BilledStep == BilledInv /\ [Next]_vars => BilledInv'
  <1> SUFFICES ASSUME BilledInv, [Next]_vars PROVE BilledInv'
    OBVIOUS
  <1>0. /\ TypeOK /\ TypeOK' /\ BilledOnce /\ req \in [Requests -> Request]
        /\ billed \in Counters /\ charged \in Counters
    BY TypeStep DEF BilledInv, TypeOK, Counters
  <1>1. SUFFICES BilledOnce'
    BY <1>0 DEF BilledInv
  <1>2. ASSUME NEW r \in Requests, Only(r), UNCHANGED <<billed, charged>>,
               req[r].phase # "done", req'[r].phase # "done"
        PROVE  BilledOnce'
    <2>1. \A m, s : BilledTo(req[r], m, s) = 0 /\ BilledTo(req'[r], m, s) = 0
      BY <1>2 DEF BilledTo
    <2> QED
      BY <1>0, <1>2, <2>1, BilledFromRequest
  <1>3. ASSUME NEW r \in Requests,
           \/ \E u \in Users \cup {Anonymous} : Start(r, u)
           \/ ReserveExceeded(r) \/ ReserveFails(r) \/ MarkExceeded(r)
           \/ Cancel(r) \/ Respond(r) \/ StreamChunk(r) \/ StreamEnd(r)
           \/ SettleFails(r)
        PROVE  BilledOnce'
    <2>1. Only(r) /\ UNCHANGED <<billed, charged>>
      BY <1>0, <1>3, QuietStep DEF ledger, history
    <2>2. req[r] \in Request /\ req[r].phase # "done"
      BY <1>0, <1>3 DEF Start, ReserveExceeded, ReserveFails, MarkExceeded, Cancel, Respond,
         StreamChunk, StreamEnd, SettleFails
    <2>3. req'[r].phase # "done"
      BY <1>0, <1>3, <2>2 DEF Start, NewRequest, ReserveExceeded, ReserveFails, MarkExceeded, Cancel,
         Respond, StreamChunk, StreamEnd, SettleFails, Request
    <2> QED
      BY <1>2, <2>1, <2>2, <2>3
  <1>4. ASSUME NEW r \in Requests, ReserveUser(r) \/ ReserveAnonymous(r) PROVE BilledOnce'
    <2>1. req[r] \in Request /\ req[r].phase # "done"
      BY <1>0, <1>4 DEF ReserveUser, ReserveAnonymous
    <2>2. Only(r) /\ req'[r].phase = Armed(req[r]) /\ UNCHANGED <<billed, charged>>
      <3>1. CASE ReserveUser(r)
        BY <1>0, <2>1, <3>1 DEF ReserveUser, Only, Request
      <3>2. CASE ReserveAnonymous(r)
        BY <1>0, <2>1, <3>2 DEF ReserveAnonymous, Only, Request
      <3> QED
        BY <1>4, <3>1, <3>2
    <2>3. req'[r].phase # "done"
      BY <2>2 DEF Armed
    <2> QED
      BY <1>2, <2>1, <2>2, <2>3
  <1>5. ASSUME NEW r \in Requests, Settle(r) PROVE BilledOnce'
    <2>q. PICK q : q = req[r]
      OBVIOUS
    <2>b. PICK b : b = q.bytes * q.mult
      OBVIOUS
    <2>1. q \in Request /\ q.month \in Months /\ b \in Nat /\ q.phase = "settling"
      BY <1>0, <1>5, <2>q, <2>b, ConstantsAssumption DEF Settle, Request, ConstantsAssumption
    <2>2. /\ req' = [req EXCEPT ![r] = [q EXCEPT !.phase = "done"]]
          /\ billed' = AddAt(billed, q.month, ScopesOf(q), b) /\ charged' = charged
      BY <1>0, <1>5, <2>q, <2>b DEF Settle
    <2>3. /\ Only(r) /\ req'[r].phase = "done" /\ req'[r].month = q.month
          /\ req'[r].user = q.user /\ req'[r].group = q.group
          /\ req'[r].bytes = q.bytes /\ req'[r].mult = q.mult
      BY <1>0, <2>1, <2>2 DEF Only, Request
    <2>4. ASSUME NEW m \in Months, NEW s \in Scopes
          PROVE  billed'[m][s] + BilledTo(req[r], m, s) = billed[m][s] + BilledTo(req'[r], m, s)
      <3>1. BilledTo(req[r], m, s) = 0
        BY <2>1, <2>q DEF BilledTo
      <3>2. BilledTo(req'[r], m, s) = IF m = q.month /\ s \in ScopesOf(q) THEN b ELSE 0
        BY <2>3, <2>b DEF BilledTo, ScopesOf
      <3>3. /\ billed[m][s] \in Nat
            /\ billed'[m][s] = IF m = q.month /\ s \in ScopesOf(q) THEN billed[m][s] + b ELSE billed[m][s]
        BY <1>0, <2>1, <2>2, AddAtFacts DEF Counters
      <3> QED
        BY <2>1, <3>1, <3>2, <3>3
    <2> QED
      BY <1>0, <2>2, <2>3, <2>4, BilledFromRequest
  <1>6. ASSUME Crash PROVE BilledOnce'
    <2>1. UNCHANGED <<billed, charged>>
      BY <1>6 DEF Crash, ledger, history
    <2>2. ASSUME NEW m, NEW s PROVE BilledAt(req', m, s) = BilledAt(req, m, s)
      <3>1. ASSUME NEW r \in Requests PROVE BilledTo(req'[r], m, s) = BilledTo(req[r], m, s)
        <4>1. /\ req'[r] = req[r] \/ (req[r].phase # "done" /\ req'[r].phase # "done")
          BY <1>0, <1>6 DEF Crash, Request
        <4> QED
          BY <4>1 DEF BilledTo
      <3> QED
        BY <3>1 DEF BilledAt
    <2>3. \A m \in Months, s \in Scopes : billed'[m][s] = charged'[m][s] + SumFunction(BilledAt(req', m, s))
      BY <1>0, <2>1, <2>2, BilledOf
    <2> QED
      BY <2>3 DEF BilledOnce, BilledAt
  <1>7. ASSUME NEW u \in Users, NEW n \in Chunks, ChargeDownload(u, n) PROVE BilledOnce'
    <2>b. PICK bytes : bytes = n * (IF cfg.bidirectional THEN 2 ELSE 1)
      OBVIOUS
    <2>s. PICK S : S = {Global, u, profile[u].group} \ {NoGroup}
      OBVIOUS
    <2>1. bytes \in Nat /\ month \in Months
      BY <1>0, <2>b, ConstantsAssumption DEF TypeOK, ConstantsAssumption
    <2>2. billed' = AddAt(billed, month, S, bytes) /\ charged' = AddAt(charged, month, S, bytes) /\ req' = req
      BY <1>7, <2>b, <2>s DEF ChargeDownload
    <2>3. ASSUME NEW m \in Months, NEW s \in Scopes
          PROVE  billed'[m][s] = charged'[m][s] + SumFunction(BilledAt(req, m, s))
      <3>1. /\ billed'[m][s] = IF m = month /\ s \in S THEN billed[m][s] + bytes ELSE billed[m][s]
            /\ charged'[m][s] = IF m = month /\ s \in S THEN charged[m][s] + bytes ELSE charged[m][s]
            /\ billed[m][s] \in Nat /\ charged[m][s] \in Nat
        BY <1>0, <2>1, <2>2, AddAtFacts DEF Counters
      <3>2. billed[m][s] = charged[m][s] + SumFunction(BilledAt(req, m, s))
        BY <1>0, BilledOf
      <3>3. SumFunction(BilledAt(req, m, s)) \in Nat
        BY <1>0, BilledNatural
      <3> QED
        BY <2>1, <3>1, <3>2, <3>3
    <2> QED
      BY <2>2, <2>3 DEF BilledOnce, BilledAt
  <1>8. CASE \/ UpdateConfig \/ \E u \in Users : SetProfile(u)
             \/ \E g \in Groups : UpdateGroup(g)
             \/ NextMonth \/ UNCHANGED vars
    <2>1. UNCHANGED <<billed, charged, req>>
      BY <1>8 DEF UpdateConfig, SetProfile, UpdateGroup, NextMonth, vars, ledger, history
    <2> QED
      BY <1>0, <2>1 DEF BilledOnce
  <1> QED
    BY <1>3, <1>4, <1>5, <1>6, <1>7, <1>8 DEF Next, Server

\* For any number of requests, users, groups and months: response_bytes is
\* what the settled requests and the charged downloads add up to, each once,
\* in the month, user and group the reservation was made for.
THEOREM QuotaBilled == Spec => []BilledOnce
  <1>1. ASSUME Init PROVE BilledOnce
    <2>1. TypeOK
      BY <1>1, TypeInit
    <2>2. ASSUME NEW m \in Months, NEW s \in Scopes
          PROVE  billed[m][s] = charged[m][s] + SumFunction(BilledAt(req, m, s))
      <3>1. req \in [Requests -> Request] /\ billed[m][s] = 0 /\ charged[m][s] = 0
        BY <1>1, <2>1 DEF Init, TypeOK, Zero
      <3>2. \A r \in Requests : BilledAt(req, m, s)[r] = 0
        BY <1>1 DEF Init, BilledAt, BilledTo
      <3>3. SumFunctionOnSet(BilledAt(req, m, s), Requests) = 0
        BY <3>2, ConstantsAssumption, SumOfZeros DEF ConstantsAssumption
      <3> QED
        BY <3>1, <3>3, BilledNatural
    <2> QED
      BY <2>2, BilledOf
  <1>2. Init => BilledInv
    BY <1>1, TypeInit DEF BilledInv
  <1>3. BilledInv => BilledOnce
    BY DEF BilledInv
  <1> QED
    BY <1>2, <1>3, BilledStep, PTL DEF Spec

\* The public status says "available" exactly when a request of the current
\* configuration and month would be admitted at the global cap, whatever the
\* counters: the boundary of public_quota_status is that of the reservation.
THEOREM StatusIsAdmission == Spec => []StatusMatchesAdmission
  <1>1. ASSUME TypeOK PROVE StatusMatchesAdmission
    <2> SUFFICES ASSUME NEW r \in Requests, req[r].globalCap = cfg.globalCap,
                        req[r].mult = (IF cfg.bidirectional THEN 2 ELSE 1)
                 PROVE  PublicStatus = "available"
                          <=> Fits(month, Global, R * req[r].mult, req[r].globalCap)
      BY DEF StatusMatchesAdmission
    <2>b. PICK b : b = billed[month][Global]
      OBVIOUS
    <2>v. PICK v : v = reserved[month][Global]
      OBVIOUS
    <2>z. PICK z : z = R * (IF cfg.bidirectional THEN 2 ELSE 1)
      OBVIOUS
    <2>c. PICK c : c = cfg.globalCap
      OBVIOUS
    <2>1. b \in Nat /\ v \in Nat /\ (c = NoLimit \/ c \in Nat)
      BY <1>1, <2>b, <2>v, <2>c, ConstantsAssumption
         DEF TypeOK, Scopes, Config, OptCap, ConstantsAssumption
    <2>2. z \in Nat /\ z > 0
      BY <2>z, ConstantsAssumption DEF ConstantsAssumption
    <2>3. Fits(month, Global, R * req[r].mult, req[r].globalCap) <=> (c # NoLimit => b + v + z <= c)
      BY <2>b, <2>v, <2>z, <2>c DEF Fits
    <2>4. PublicStatus = CASE c = NoLimit -> "available"
                           [] c # NoLimit /\ b >= c -> "exhausted"
                           [] OTHER -> IF b + v + z > c THEN "reserved" ELSE "available"
      BY <2>b, <2>v, <2>z, <2>c DEF PublicStatus
    <2>5. CASE c = NoLimit
      BY <2>3, <2>4, <2>5
    <2>6. CASE c # NoLimit /\ b >= c
      BY <2>1, <2>2, <2>3, <2>4, <2>6
    <2>7. CASE c # NoLimit /\ ~(b >= c)
      BY <2>1, <2>2, <2>3, <2>4, <2>7
    <2> QED
      BY <2>5, <2>6, <2>7
  <1> QED
    BY <1>1, TypeCorrect, PTL

-----------------------------------------------------------------------------
(* The counters implement the ledger of holds.                              *)

\* The sum in the ledger is the sum of SumProofs.
LEMMA LedgerSum == ASSUME NEW f PROVE Ledger!SumFunction(f) = SumFunction(f)
  BY Zenon DEF Ledger!SumFunction, Ledger!SumFunctionOnSet, Ledger!FoldFunctionOnSet,
               Ledger!MapThenFoldSet, SumFunction, SumFunctionOnSet, FoldFunctionOnSet,
               MapThenFoldSet

\* A sum of plain and doubled reservations is counted by the two sizes.
LEMMA CountedSum ==
    ASSUME NEW S, IsFiniteSet(S), NEW f, \A x \in S : f[x] \in {0, R, 2 * R}
    PROVE  SumFunctionOnSet(f, S) = R * Cardinality({x \in S : f[x] = R})
                                    + 2 * R * Cardinality({x \in S : f[x] = 2 * R})
  <1> DEFINE C(T, a) == {x \in T : f[x] = a}
             G == {T \in SUBSET S : SumFunctionOnSet(f, T) = R * Cardinality(C(T, R))
                                            + 2 * R * Cardinality(C(T, 2 * R))}
  <1>0. R \in Nat \ {0} /\ 2 * R \in Nat \ {0} /\ R # 2 * R
    BY ConstantsAssumption DEF ConstantsAssumption
  <1>1. {} \in G
    <2>1. C({}, R) = {} /\ C({}, 2 * R) = {}
      OBVIOUS
    <2>2. Cardinality(C({}, R)) = 0 /\ Cardinality(C({}, 2 * R)) = 0
      BY <2>1, FS_EmptySet
    <2> HIDE DEF C
    <2> QED
      BY <1>0, <2>2, SumOfNothing
  <1>2. ASSUME NEW T \in SUBSET S, T # {}, \A x \in T : T \ {x} \in G PROVE T \in G
    <2>1. PICK x : x \in T
      BY <1>2
    <2>2. IsFiniteSet(T) /\ \A y \in T : f[y] \in Nat
      BY <1>0, FS_Subset
    <2>3. SumFunctionOnSet(f, T) = f[x] + SumFunctionOnSet(f, T \ {x})
      BY <2>1, <2>2, SumWithout
    <2>4. SumFunctionOnSet(f, T \ {x}) = R * Cardinality(C(T \ {x}, R))
                                            + 2 * R * Cardinality(C(T \ {x}, 2 * R))
      BY <1>2, <2>1
    <2>5. ASSUME NEW a
          PROVE  /\ Cardinality(C(T \ {x}, a)) \in Nat
                 /\ Cardinality(C(T, a)) = Cardinality(C(T \ {x}, a)) + One(f[x] = a)
      <3>1. IsFiniteSet(C(T \ {x}, a)) /\ x \notin C(T \ {x}, a)
        <4>1. C(T \ {x}, a) \subseteq T /\ x \notin C(T \ {x}, a)
          OBVIOUS
        <4> QED
          BY <2>2, <4>1, FS_Subset
      <3>2. C(T, a) = IF f[x] = a THEN C(T \ {x}, a) \cup {x} ELSE C(T \ {x}, a)
        BY <2>1
      <3>3. Cardinality(C(T \ {x}, a)) \in Nat
        BY <3>1, FS_CardinalityType
      <3> HIDE DEF C
      <3>4. Cardinality(C(T \ {x}, a) \cup {x}) = Cardinality(C(T \ {x}, a)) + 1
        BY <3>1, FS_AddElement
      <3> QED
        BY <3>2, <3>3, <3>4 DEF One
    <2>6. PICK c \in Nat : c = Cardinality(C(T \ {x}, R))
      BY <2>5
    <2>7. PICK d \in Nat : d = Cardinality(C(T \ {x}, 2 * R))
      BY <2>5
    <2>8. /\ Cardinality(C(T, R)) = c + One(f[x] = R)
          /\ Cardinality(C(T, 2 * R)) = d + One(f[x] = 2 * R)
      BY <2>5, <2>6, <2>7
    <2>9. f[x] = R * One(f[x] = R) + 2 * R * One(f[x] = 2 * R)
      BY <1>0, <2>1 DEF One
    <2>10. PICK y \in Nat : y = One(f[x] = R)
      BY DEF One
    <2>11. PICK z \in Nat : z = One(f[x] = 2 * R)
      BY DEF One
    <2>12. PICK k \in Nat : k = SumFunctionOnSet(f, T)
      BY <2>2, SumWithout
    <2> HIDE DEF C
    <2>13. k = (R * y + 2 * R * z) + (R * c + 2 * R * d)
      BY <2>3, <2>4, <2>6, <2>7, <2>9, <2>10, <2>11, <2>12
    <2>14. k = R * (c + y) + 2 * R * (d + z)
      BY <1>0, <2>13
    <2> QED
      BY <2>8, <2>10, <2>11, <2>12, <2>14
  <1>3. G = SUBSET S
    <2> HIDE DEF G
    <2>1. G \in SUBSET SUBSET S
      BY DEF G
    <2> QED
      BY <1>1, <1>2, <2>1, SubsetInduction
  <1> QED
    BY <1>3

\* What the ledger knows of each request.
Known == [r \in Requests |-> EntryOf(req[r])]

LEMMA EntryFacts ==
    ASSUME NEW q \in Request
    PROVE  /\ q.phase = "idle" => EntryOf(q) = [state |-> "new"]
           /\ q.phase = "reserving" =>
                EntryOf(q) = [state |-> "asking",
                              ask |-> [user |-> q.user, month |-> q.month,
                                       globalCap |-> q.globalCap, userCap |-> q.userCap,
                                       mult |-> q.mult]]
           /\ q.phase \in Holding =>
                EntryOf(q) = [state |-> "holding", month |-> q.month,
                              scopes |-> ScopesOf(q), amount |-> q.amount]
           /\ q.phase \in {"exceeded", "done", "rejected"} => EntryOf(q) = [state |-> "over"]
  BY DEF EntryOf, Holding, Request, Phases

\* A step of request r changes its entry only.
LEMMA KnownUpdate ==
    ASSUME TypeOK, NEW r \in Requests, NEW q, req' = [req EXCEPT ![r] = q]
    PROVE  Known' = [Known EXCEPT ![r] = EntryOf(q)]
  <1>1. \A x \in Requests : req'[x] = IF x = r THEN q ELSE req[x]
    BY DEF TypeOK
  <1>2. Known' = [x \in Requests |-> EntryOf(req'[x])]
    BY DEF Known, EntryOf, ScopesOf
  <1>3. \A x \in Requests : EntryOf(req'[x]) = IF x = r THEN EntryOf(q) ELSE Known[x]
    <2> SUFFICES ASSUME NEW x \in Requests
                 PROVE  EntryOf(req'[x]) = IF x = r THEN EntryOf(q) ELSE Known[x]
      OBVIOUS
    <2>1. CASE x = r
      BY <1>1, <2>1
    <2>2. CASE x # r
      <3>1. req'[x] = req[x]
        BY <1>1, <2>2
      <3>2. Known[x] = EntryOf(req[x])
        BY DEF Known
      <3> QED
        BY <2>2, <3>1, <3>2
    <2> QED
      BY <2>1, <2>2
  <1> QED
    BY <1>2, <1>3 DEF Known

\* The counter reserved_bytes is the sum of the holds of the ledger.
LEMMA OpenIsReserved ==
    ASSUME IInv, NEW m \in Months, NEW s \in Scopes
    PROVE  Ledger!Open(m, s) = reserved[m][s]
  <1>f. PICK f : f = [r \in Requests |-> Share(req[r], m, s)]
    OBVIOUS
  <1>0. /\ TypeOK /\ IsFiniteSet(Requests) /\ R \in Nat \ {0}
        /\ reserved[m][s] = R * Cardinality(Held(m, s, R))
                            + 2 * R * Cardinality(Held(m, s, 2 * R))
    BY ConstantsAssumption DEF ConstantsAssumption, IInv, ReservationsBalanced
  <1>1. ASSUME NEW r \in Requests
        PROVE  (IF Known[r].state = "holding" /\ Known[r].month = m /\ s \in Known[r].scopes
                THEN Known[r].amount ELSE 0) = f[r]
    <2>1. PICK q \in Request : q = req[r]
      BY <1>0 DEF TypeOK
    <2>2. Known[r] = EntryOf(q)
      BY <2>1 DEF Known
    <2>3. f[r] = IF q.phase \in Holding /\ q.month = m /\ s \in ScopesOf(q) THEN q.amount ELSE 0
      BY <1>f, <2>1 DEF Share
    <2>4. CASE q.phase \in Holding
      <3>1. Known[r] = [state |-> "holding", month |-> q.month,
                        scopes |-> ScopesOf(q), amount |-> q.amount]
        BY <2>2, <2>4, EntryFacts
      <3> QED
        BY <2>3, <2>4, <3>1
    <2>5. CASE q.phase \notin Holding
      <3>1. q.phase \in {"idle", "reserving", "exceeded", "done", "rejected"}
        BY <2>5 DEF Request, Phases, Holding
      <3>2. EntryOf(q).state # "holding"
        BY <3>1, EntryFacts
      <3> QED
        BY <2>2, <2>3, <2>5, <3>2
    <2> QED
      BY <2>4, <2>5
  <1>2. Ledger!Open(m, s) = Ledger!SumFunction([r \in Requests |->
            IF Known[r].state = "holding" /\ Known[r].month = m /\ s \in Known[r].scopes
            THEN Known[r].amount ELSE 0])
    BY Zenon DEF Ledger!Open, Known
  <1>3. [r \in Requests |->
            IF Known[r].state = "holding" /\ Known[r].month = m /\ s \in Known[r].scopes
            THEN Known[r].amount ELSE 0] = f
    BY <1>f, <1>1
  <1>4. Ledger!Open(m, s) = SumFunctionOnSet(f, Requests)
    <2>1. DOMAIN f = Requests
      BY <1>f
    <2> QED
      BY <1>2, <1>3, <2>1, LedgerSum, Zenon DEF SumFunction
  <1>5. ASSUME NEW r \in Requests
        PROVE  /\ f[r] \in {0, R, 2 * R}
               /\ \A a \in {R, 2 * R} : f[r] = a <=> Holds(req[r], m, s, a)
    <2>1. PICK q \in Request : q = req[r]
      BY <1>0 DEF TypeOK
    <2>2. q.amount \in {0, R, 2 * R}
      BY DEF Request
    <2>3. f[r] = IF q.phase \in Holding /\ q.month = m /\ s \in ScopesOf(q) THEN q.amount ELSE 0
      BY <1>f, <2>1 DEF Share
    <2>4. 0 # R /\ 0 # 2 * R
      BY <1>0
    <2> QED
      BY <2>1, <2>2, <2>3, <2>4 DEF Holds
  <1>6. /\ {r \in Requests : f[r] = R} = Held(m, s, R)
        /\ {r \in Requests : f[r] = 2 * R} = Held(m, s, 2 * R)
    BY <1>5 DEF Held
  <1>7. SumFunctionOnSet(f, Requests) = R * Cardinality({x \in Requests : f[x] = R})
                                    + 2 * R * Cardinality({x \in Requests : f[x] = 2 * R})
    BY <1>0, <1>5, CountedSum
  <1> QED
    BY <1>0, <1>4, <1>6, <1>7

\* So what the statements admit, the ledger has room for.
LEMMA RoomToAdmit ==
    ASSUME IInv, NEW a, a.month \in Months, NEW caps, DOMAIN caps \subseteq Scopes,
           LimitsOf(Policy, a) = caps, NEW n, Admits(a.month, n, caps)
    PROVE  Ledger!Room(a, n)
  <1>1. \A s \in DOMAIN caps : Ledger!Open(a.month, s) = reserved[a.month][s]
    BY OpenIsReserved
  <1>2. \A s \in DOMAIN caps : caps[s] # NoLimit
            => billed[a.month][s] + reserved[a.month][s] + n <= caps[s]
    BY DEF Admits, Fits
  <1>3. \A s \in DOMAIN caps : caps[s] # NoLimit
            => billed[a.month][s] + Ledger!Open(a.month, s) + n <= caps[s]
    BY <1>1, <1>2, Zenon
  <1> QED
    BY <1>3, Zenon DEF Ledger!Room

\* The limits of the ledger are those that the statements compare with.
LEMMA LimitsAreCaps ==
    ASSUME TypeOK, NEW u \in Users, NEW a, a.user = u
    PROVE  LimitsOf(Policy, a)
            = CapsAt({Global, u, profile[u].group} \ {NoGroup}, u, a.globalCap, a.userCap)
  <1>1. u # Anonymous
    BY ConstantsAssumption DEF ConstantsAssumption, Scopes
  <1>2. Policy.profile = profile /\ Policy.groupLimit = groupLimit
    BY DEF Policy
  <1>3. LimitsOf(Policy, a) =
            [s \in {Global, u, profile[u].group} \ {NoGroup} |->
                IF s = Global THEN a.globalCap
                ELSE IF s \in Groups THEN groupLimit[s]
                ELSE IF profile[u].mode = "unlimited" THEN NoLimit
                ELSE IF profile[u].mode = "custom" THEN profile[u].limit ELSE a.userCap]
    BY <1>1, <1>2 DEF LimitsOf
  <1>4. ASSUME NEW s \in {Global, u, profile[u].group} \ {NoGroup}
        PROVE  CapsAt({Global, u, profile[u].group} \ {NoGroup}, u, a.globalCap, a.userCap)[s]
                = IF s = Global THEN a.globalCap
                  ELSE IF s \in Groups THEN groupLimit[s]
                  ELSE IF profile[u].mode = "unlimited" THEN NoLimit
                  ELSE IF profile[u].mode = "custom" THEN profile[u].limit ELSE a.userCap
    BY ConstantsAssumption DEF ConstantsAssumption, CapsAt
  <1>5. CapsAt({Global, u, profile[u].group} \ {NoGroup}, u, a.globalCap, a.userCap)
            = [s \in {Global, u, profile[u].group} \ {NoGroup} |->
                CapsAt({Global, u, profile[u].group} \ {NoGroup}, u, a.globalCap, a.userCap)[s]]
    BY DEF CapsAt
  <1> QED
    BY <1>3, <1>4, <1>5

LEMMA LedgerInit == Init => Ledger!LInit
  <1> SUFFICES ASSUME Init PROVE Ledger!LInit
    OBVIOUS
  <1>1. \A r \in Requests : req[r].phase = "idle" /\ req[r] \in Request
    BY TypeInit DEF Init, TypeOK
  <1>2. \A r \in Requests : EntryOf(req[r]) = [state |-> "new"]
    BY <1>1, EntryFacts
  <1>3. [r \in Requests |-> EntryOf(req[r])] = [r \in Requests |-> [state |-> "new"]]
    BY <1>2
  <1>4. \A m \in DOMAIN billed : billed[m] = [s \in Scopes |-> 0]
    BY DEF Init, Zero
  <1> QED
    BY <1>3, <1>4, Zenon DEF Ledger!LInit

LEMMA LedgerStep == IInv /\ [Next]_vars => [Ledger!LNext]_Ledger!lvars
  <1> SUFFICES ASSUME IInv, [Next]_vars
               PROVE  Ledger!LNext \/ UNCHANGED <<Policy, Known, billed>>
    BY Zenon DEF Ledger!lvars, Known
  <1>0. /\ TypeOK /\ TypeOK' /\ Ungrouped
        /\ billed \in Counters /\ req \in [Requests -> Request]
        /\ Global \in Scopes /\ Global # Anonymous /\ Global # NoGroup
        /\ Anonymous \notin Users /\ NoGroup \notin Users
    BY TypeStep, ConstantsAssumption
       DEF ConstantsAssumption, IInv, TypeOK, Counters, Scopes
  <1>a. UNCHANGED admin => UNCHANGED Policy
    BY DEF admin, Policy
  <1>1. ASSUME NEW r \in Requests, NEW u \in Users \cup {Anonymous}, Start(r, u)
        PROVE  Ledger!LNext
    <2>1. req[r].phase = "idle" /\ req' = [req EXCEPT ![r] = NewRequest(u)]
          /\ UNCHANGED <<Policy, billed>>
      BY <1>1, <1>a DEF Start, ledger
    <2>2. NewRequest(u) \in Request
      BY <1>0, <2>1 DEF TypeOK
    <2>3. EntryOf(NewRequest(u)) = [state |-> "asking", ask |-> SnapshotOf(Policy, u)]
      <3>1. PICK q \in Request : q = NewRequest(u)
        BY <2>2
      <3>2. /\ q.phase = "reserving" /\ q.user = u /\ q.month = month
            /\ q.globalCap = cfg.globalCap /\ q.userCap = cfg.userCap
            /\ q.mult = IF cfg.bidirectional THEN 2 ELSE 1
        BY <3>1 DEF NewRequest
      <3>3. SnapshotOf(Policy, u) = [user |-> q.user, month |-> q.month,
                globalCap |-> q.globalCap, userCap |-> q.userCap, mult |-> q.mult]
        BY <3>2 DEF SnapshotOf, Policy
      <3> QED
        BY <3>1, <3>2, <3>3, EntryFacts
    <2>4. Known' = [Known EXCEPT ![r] = [state |-> "asking", ask |-> SnapshotOf(Policy, u)]]
      BY <1>0, <2>1, <2>3, KnownUpdate
    <2>5. Known[r] = [state |-> "new"]
      BY <1>0, <2>1, EntryFacts DEF Known
    <2>6. Ledger!Ask(r, u)
      BY <2>1, <2>4, <2>5 DEF Ledger!Ask, Known
    <2> QED
      BY <2>6 DEF Ledger!LNext
  <1>2. ASSUME NEW r \in Requests, ReserveUser(r) PROVE Ledger!LNext
    <2>q. PICK q \in Request : q = req[r]
      BY <1>0
    <2>u. PICK u \in Users : u = q.user
      BY <1>2, <2>q DEF ReserveUser, Request
    <2>g. PICK asked \in Request : asked = [q EXCEPT !.group = profile[u].group]
      <3>1. profile[u].group \in Groups \cup {NoGroup}
        BY <1>0 DEF TypeOK, Profile
      <3> QED
        BY <3>1 DEF Request
    <2>c. PICK caps : caps = CapsAt(ScopesOf(asked), u, q.globalCap, q.userCap)
      OBVIOUS
    <2>n. PICK n : n = R * q.mult
      OBVIOUS
    <2>1. /\ q.phase = "reserving" /\ profile[u].active
          /\ Admits(q.month, n, caps)
          /\ req' = [req EXCEPT ![r] = [asked EXCEPT !.amount = n, !.phase = Armed(q)]]
          /\ UNCHANGED <<Policy, billed>>
      BY <1>2, <1>a, <2>q, <2>u, <2>g, <2>c, <2>n DEF ReserveUser
    <2>a. PICK a : a = [user |-> q.user, month |-> q.month, globalCap |-> q.globalCap,
                        userCap |-> q.userCap, mult |-> q.mult]
      OBVIOUS
    <2>2. /\ a.user = u /\ a.month = q.month /\ a.month \in Months
          /\ a.globalCap = q.globalCap /\ a.userCap = q.userCap /\ a.mult = q.mult
      BY <2>a, <2>u DEF Request
    <2>3. Known[r] = [state |-> "asking", ask |-> a]
      BY <2>q, <2>1, <2>a, EntryFacts DEF Known
    <2>4. ScopesOf(asked) = {Global, u, profile[u].group} \ {NoGroup}
      <3>1. asked.user = u /\ asked.group = profile[u].group
        BY <2>g, <2>u DEF Request
      <3>2. profile[u].group = Anonymous => Anonymous = NoGroup
        BY <1>0, ConstantsAssumption DEF ConstantsAssumption, TypeOK, Profile, Scopes
      <3> QED
        BY <1>0, <3>1, <3>2 DEF ScopesOf
    <2>5. LimitsOf(Policy, a) = caps
      BY <1>0, <2>c, <2>2, <2>4, LimitsAreCaps
    <2>6. DOMAIN caps = ScopesOf(asked) /\ ScopesOf(asked) \subseteq Scopes
      BY <2>c, ScopesOfType DEF CapsAt
    <2>7. SizeOf(a) = n
      BY <1>0, <2>2, <2>n DEF SizeOf
    <2>8. Ledger!Room(a, n)
      <3>1. Admits(a.month, n, caps)
        BY <2>1, <2>2
      <3> QED
        BY <2>2, <2>5, <2>6, <3>1, RoomToAdmit
    <2>9. ServedUnder(Policy, a)
      BY <2>1, <2>2 DEF ServedUnder, Policy
    <2>10. Known' = [Known EXCEPT ![r] =
                [state |-> "holding", month |-> a.month,
                 scopes |-> DOMAIN LimitsOf(Policy, a), amount |-> SizeOf(a)]]
      <3>1. PICK p : p = [asked EXCEPT !.amount = n, !.phase = Armed(q)]
        OBVIOUS
      <3>2. p \in Request
        <4>1. p = req'[r]
          BY <1>0, <2>1, <3>1
        <4> QED
          BY <1>0, <4>1 DEF TypeOK
      <3>3. /\ p.phase \in Holding /\ p.month = a.month /\ p.amount = n
            /\ ScopesOf(p) = ScopesOf(asked)
        BY <2>g, <2>2, <3>1 DEF Armed, Holding, ScopesOf, Request
      <3>4. EntryOf(p) = [state |-> "holding", month |-> a.month,
                          scopes |-> ScopesOf(asked), amount |-> n]
        BY <3>2, <3>3, EntryFacts
      <3> QED
        BY <1>0, <2>1, <2>5, <2>6, <2>7, <3>1, <3>4, KnownUpdate, ZenonT(30)
    <2>11. Known[r].state = "asking" /\ Known[r].ask = a
      BY <2>3
    <2>12. /\ ServedUnder(Policy, Known[r].ask)
           /\ Ledger!Room(Known[r].ask, SizeOf(Known[r].ask))
           /\ Known' = [Known EXCEPT ![r] =
                [state |-> "holding", month |-> Known[r].ask.month,
                 scopes |-> DOMAIN LimitsOf(Policy, Known[r].ask),
                 amount |-> SizeOf(Known[r].ask)]]
      BY <2>7, <2>8, <2>9, <2>10, <2>11, Zenon
    <2>13. Ledger!Admit(r)
      BY <2>1, <2>11, <2>12, Zenon DEF Ledger!Admit, Known
    <2> QED
      BY <2>13 DEF Ledger!LNext
  <1>3. ASSUME NEW r \in Requests, ReserveAnonymous(r) PROVE Ledger!LNext
    <2>q. PICK q \in Request : q = req[r]
      BY <1>0
    <2>n. PICK n : n = IF q.globalCap = NoLimit THEN 0 ELSE R * q.mult
      OBVIOUS
    <2>c. PICK caps : caps = [s \in {Global} |-> q.globalCap]
      OBVIOUS
    <2>1. /\ q.phase = "reserving" /\ q.user = Anonymous
          /\ Admits(q.month, n, caps)
          /\ req' = [req EXCEPT ![r] = [q EXCEPT !.amount = n, !.phase = Armed(q)]]
          /\ UNCHANGED <<Policy, billed>>
      BY <1>0, <1>3, <1>a, <2>q, <2>n, <2>c DEF ReserveAnonymous
    <2>a. PICK a : a = [user |-> q.user, month |-> q.month, globalCap |-> q.globalCap,
                        userCap |-> q.userCap, mult |-> q.mult]
      OBVIOUS
    <2>2. /\ a.user = Anonymous /\ a.month = q.month /\ a.month \in Months
          /\ a.globalCap = q.globalCap /\ a.mult = q.mult
      BY <2>a, <2>1 DEF Request
    <2>3. Known[r] = [state |-> "asking", ask |-> a]
      BY <2>q, <2>1, <2>a, EntryFacts DEF Known
    <2>5. LimitsOf(Policy, a) = caps
      BY <2>c, <2>2 DEF LimitsOf
    <2>6. DOMAIN caps = {Global} /\ {Global} \subseteq Scopes
      BY <1>0, <2>c
    <2>7. SizeOf(a) = n
      BY <2>2, <2>n DEF SizeOf
    <2>8. Ledger!Room(a, n)
      <3>1. Admits(a.month, n, caps)
        BY <2>1, <2>2
      <3> QED
        BY <2>2, <2>5, <2>6, <3>1, RoomToAdmit
    <2>9. ServedUnder(Policy, a)
      BY <2>2 DEF ServedUnder
    <2>10. Known' = [Known EXCEPT ![r] =
                [state |-> "holding", month |-> a.month,
                 scopes |-> DOMAIN LimitsOf(Policy, a), amount |-> SizeOf(a)]]
      <3>1. PICK p : p = [q EXCEPT !.amount = n, !.phase = Armed(q)]
        OBVIOUS
      <3>2. p \in Request
        <4>1. p = req'[r]
          BY <1>0, <2>1, <3>1
        <4> QED
          BY <1>0, <4>1 DEF TypeOK
      <3>3. q.group = NoGroup
        BY <1>0, <2>q, <2>1 DEF Ungrouped
      <3>4. /\ p.phase \in Holding /\ p.month = a.month /\ p.amount = n
            /\ p.user = Anonymous /\ p.group = NoGroup
        BY <2>1, <2>2, <3>1, <3>3 DEF Armed, Holding, Request
      <3>5. ScopesOf(p) = {Global}
        BY <1>0, <3>4 DEF ScopesOf
      <3>6. EntryOf(p) = [state |-> "holding", month |-> a.month,
                          scopes |-> {Global}, amount |-> n]
        BY <3>2, <3>4, <3>5, EntryFacts
      <3> QED
        BY <1>0, <2>1, <2>5, <2>6, <2>7, <3>1, <3>6, KnownUpdate, ZenonT(30)
    <2>11. Known[r].state = "asking" /\ Known[r].ask = a
      BY <2>3
    <2>12. /\ ServedUnder(Policy, Known[r].ask)
           /\ Ledger!Room(Known[r].ask, SizeOf(Known[r].ask))
           /\ Known' = [Known EXCEPT ![r] =
                [state |-> "holding", month |-> Known[r].ask.month,
                 scopes |-> DOMAIN LimitsOf(Policy, Known[r].ask),
                 amount |-> SizeOf(Known[r].ask)]]
      BY <2>7, <2>8, <2>9, <2>10, <2>11, Zenon
    <2>13. Ledger!Admit(r)
      BY <2>1, <2>11, <2>12, Zenon DEF Ledger!Admit, Known
    <2> QED
      BY <2>13 DEF Ledger!LNext
  <1>4. ASSUME NEW r \in Requests, ReserveExceeded(r) \/ ReserveFails(r)
        PROVE  Ledger!LNext
    <2>q. PICK q \in Request : q = req[r]
      BY <1>0
    <2>1. /\ q.phase = "reserving"
          /\ \E p \in {"rejected", "exceeded"} : req' = [req EXCEPT ![r].phase = p]
          /\ UNCHANGED <<Policy, billed>>
      BY <1>4, <1>a, <2>q DEF ReserveExceeded, ReserveFails, ledger
    <2>2. PICK p \in {"rejected", "exceeded"} : req' = [req EXCEPT ![r] = [q EXCEPT !.phase = p]]
      BY <1>0, <2>q, <2>1
    <2>3. EntryOf([q EXCEPT !.phase = p]) = [state |-> "over"]
      <3>1. p \in Phases
        BY DEF Phases
      <3>2. [q EXCEPT !.phase = p] \in Request /\ [q EXCEPT !.phase = p].phase = p
        BY <3>1, PhaseType DEF Request
      <3> QED
        BY <3>2, EntryFacts
    <2>4. Known' = [Known EXCEPT ![r] = [state |-> "over"]]
      BY <1>0, <2>2, <2>3, KnownUpdate
    <2>5. Known[r].state = "asking"
      BY <2>q, <2>1, EntryFacts DEF Known
    <2>6. Ledger!Refuse(r)
      BY <2>1, <2>4, <2>5 DEF Ledger!Refuse, Known
    <2> QED
      BY <2>6 DEF Ledger!LNext
  <1>5. ASSUME NEW r \in Requests, Settle(r) PROVE Ledger!LNext
    <2>q. PICK q \in Request : q = req[r]
      BY <1>0
    <2>1. /\ q.phase = "settling"
          /\ billed' = AddAt(billed, q.month, ScopesOf(q), q.bytes * q.mult)
          /\ req' = [req EXCEPT ![r] = [q EXCEPT !.phase = "done"]]
          /\ UNCHANGED Policy
      BY <1>0, <1>5, <1>a, <2>q DEF Settle
    <2>2. Known[r] = [state |-> "holding", month |-> q.month, scopes |-> ScopesOf(q),
                      amount |-> q.amount]
      BY <2>q, <2>1, EntryFacts DEF Known, Holding
    <2>3. EntryOf([q EXCEPT !.phase = "done"]) = [state |-> "over"]
      <3>1. "done" \in Phases
        BY DEF Phases
      <3>2. [q EXCEPT !.phase = "done"] \in Request /\ [q EXCEPT !.phase = "done"].phase = "done"
        BY <3>1, PhaseType DEF Request
      <3> QED
        BY <3>2, EntryFacts
    <2>4. Known' = [Known EXCEPT ![r] = [state |-> "over"]]
      BY <1>0, <2>1, <2>3, KnownUpdate
    <2>n. PICK n : n = q.bytes * q.mult
      OBVIOUS
    <2>5. n \in {i * k : i \in 0..MaxBody \cup Chunks, k \in {1, 2}}
      <3>1. q.bytes \in 0..MaxBody /\ q.mult \in {1, 2}
        BY DEF Request
      <3> QED
        BY <2>n, <3>1
    <2>6. Known[r].month = q.month /\ Known[r].scopes = ScopesOf(q) /\ Known[r].state = "holding"
      BY <2>2
    <2>7. billed' = Ledger!PayAt(Known[r].month, Known[r].scopes, n)
      BY <2>1, <2>n, <2>6 DEF Ledger!PayAt, AddAt
    <2>8. Ledger!Pay(r)
      BY <2>1, <2>4, <2>5, <2>6, <2>7 DEF Ledger!Pay, Known
    <2> QED
      BY <2>8 DEF Ledger!LNext
  <1>6. ASSUME NEW r \in Requests,
               \/ MarkExceeded(r) \/ Cancel(r) \/ Respond(r) \/ StreamChunk(r)
               \/ StreamEnd(r) \/ SettleFails(r)
        PROVE  UNCHANGED <<Policy, Known, billed>>
    <2>q. PICK q \in Request : q = req[r]
      BY <1>0
    <2>p. PICK p \in Request : p = req'[r]
      BY <1>0 DEF TypeOK
    <2>1. UNCHANGED <<Policy, billed>>
      BY <1>6, <1>a DEF MarkExceeded, Cancel, Respond, StreamChunk, StreamEnd, SettleFails, ledger
    <2>2. req' = [req EXCEPT ![r] = p]
      BY <1>0, <1>6, <2>p
         DEF MarkExceeded, Cancel, Respond, StreamChunk, StreamEnd, SettleFails, TypeOK
    <2>3. /\ p.user = q.user /\ p.month = q.month /\ p.globalCap = q.globalCap
          /\ p.userCap = q.userCap /\ p.mult = q.mult /\ p.group = q.group
          /\ p.amount = q.amount
          /\ \/ p.phase = "reserving" /\ q.phase = "reserving"
             \/ p.phase \in Holding /\ q.phase \in Holding
             \/ p.phase = "rejected" /\ q.phase = "exceeded"
      BY <1>0, <1>6, <2>q, <2>p
         DEF MarkExceeded, Cancel, Respond, StreamChunk, StreamEnd, SettleFails, Holding, Request
    <2>4. EntryOf(p) = EntryOf(q)
      <3>1. ScopesOf(p) = ScopesOf(q)
        BY <2>3 DEF ScopesOf
      <3> QED
        BY <2>3, <3>1, EntryFacts
    <2>5. Known' = [Known EXCEPT ![r] = EntryOf(q)]
      BY <1>0, <2>2, <2>4, KnownUpdate
    <2>6. Known[r] = EntryOf(q)
      BY <2>q DEF Known
    <2> QED
      BY <2>1, <2>5, <2>6 DEF Known
  <1>7. ASSUME Crash PROVE Ledger!LNext
    <2>1. UNCHANGED <<Policy, billed>>
      BY <1>7, <1>a DEF Crash, ledger
    <2>2. ASSUME NEW r \in Requests
          PROVE  EntryOf(req'[r]) = IF Known[r].state = "asking" THEN [state |-> "over"]
                                    ELSE Known[r]
      <3>q. PICK q \in Request : q = req[r]
        BY <1>0
      <3>p. PICK p \in Request : p = req'[r]
        BY <1>0 DEF TypeOK
      <3>1. p = CASE q.phase \in {"reserving", "exceeded"} -> [q EXCEPT !.phase = "rejected"]
                  [] q.phase \in {"awaiting", "streaming", "settling"} ->
                        [q EXCEPT !.phase = "lost"]
                  [] OTHER -> q
        BY <1>7, <3>q, <3>p DEF Crash
      <3>2. Known[r] = EntryOf(q)
        BY <3>q DEF Known
      <3>3. CASE q.phase \in {"reserving", "exceeded"}
        <4>1. p.phase = "rejected"
          BY <3>1, <3>3 DEF Request
        <4>2. EntryOf(p) = [state |-> "over"]
          BY <4>1, EntryFacts
        <4>3. EntryOf(q).state = "asking" \/ EntryOf(q) = [state |-> "over"]
          BY <3>3, EntryFacts
        <4> QED
          BY <3>p, <3>2, <4>2, <4>3
      <3>4. CASE q.phase \in {"awaiting", "streaming", "settling"}
        <4>1. /\ p.phase = "lost" /\ p.month = q.month /\ p.amount = q.amount
              /\ p.user = q.user /\ p.group = q.group
          BY <3>1, <3>4 DEF Request
        <4>2. ScopesOf(p) = ScopesOf(q) /\ p.phase \in Holding /\ q.phase \in Holding
          BY <3>4, <4>1 DEF ScopesOf, Holding
        <4>3. EntryOf(p) = EntryOf(q) /\ EntryOf(q).state = "holding"
          BY <4>1, <4>2, EntryFacts
        <4> QED
          BY <3>p, <3>2, <4>3
      <3>5. CASE q.phase \in {"idle", "done", "rejected", "lost"}
        <4>1. p = q
          BY <3>1, <3>5
        <4>2. EntryOf(q).state # "asking"
          BY <3>5, EntryFacts DEF Holding
        <4> QED
          BY <3>p, <3>2, <4>1, <4>2
      <3>6. q.phase \in Phases
        BY DEF Request
      <3> QED
        BY <3>3, <3>4, <3>5, <3>6 DEF Phases
    <2>3. Known' = [r \in Requests |-> EntryOf(req'[r])]
      BY DEF Known, EntryOf, ScopesOf
    <2>4. Known' = [r \in Requests |-> IF Known[r].state = "asking" THEN [state |-> "over"]
                                       ELSE Known[r]]
      BY <2>2, <2>3
    <2>5. Ledger!Stop
      BY <2>1, <2>4, Zenon DEF Ledger!Stop, Known
    <2> QED
      BY <2>5 DEF Ledger!LNext
  <1>8. ASSUME NEW u \in Users, NEW i \in Chunks, ChargeDownload(u, i) PROVE Ledger!LNext
    <2>k. PICK k \in {1, 2} : k = IF cfg.bidirectional THEN 2 ELSE 1
      OBVIOUS
    <2>n. PICK n : n = i * k
      OBVIOUS
    <2>s. PICK S : S = {Global, u, profile[u].group} \ {NoGroup}
      OBVIOUS
    <2>c. PICK caps : caps = CapsAt(S, u, cfg.globalCap, cfg.userCap)
      OBVIOUS
    <2>1. /\ profile[u].active /\ Admits(month, n, caps)
          /\ billed' = AddAt(billed, month, S, n)
          /\ UNCHANGED <<Policy, req>>
      BY <1>8, <1>a, <2>k, <2>n, <2>s, <2>c DEF ChargeDownload
    <2>a. PICK a : a = SnapshotOf(Policy, u)
      OBVIOUS
    <2>2. /\ a.user = u /\ a.month = month /\ a.month \in Months
          /\ a.globalCap = cfg.globalCap /\ a.userCap = cfg.userCap
      BY <1>0, <2>a DEF SnapshotOf, Policy, TypeOK
    <2>3. LimitsOf(Policy, a) = caps
      BY <1>0, <2>c, <2>s, <2>2, LimitsAreCaps
    <2>4. DOMAIN caps = S /\ S \subseteq Scopes
      <3>1. profile[u].group \in Groups \cup {NoGroup}
        BY <1>0 DEF TypeOK, Profile
      <3> QED
        BY <2>c, <2>s, <3>1 DEF CapsAt, Scopes
    <2>5. Ledger!Room(a, n)
      <3>1. Admits(a.month, n, caps)
        BY <2>1, <2>2
      <3> QED
        BY <2>2, <2>3, <2>4, <3>1, RoomToAdmit
    <2>6. ServedUnder(Policy, a)
      BY <2>1, <2>2 DEF ServedUnder, Policy
    <2>7. n \in {j * l : j \in 0..MaxBody \cup Chunks, l \in {1, 2}}
      <3>1. i \in 0..MaxBody \cup Chunks
        OBVIOUS
      <3> QED
        BY <2>n, <3>1
    <2>8. billed' = Ledger!PayAt(a.month, DOMAIN LimitsOf(Policy, a), n)
      BY <2>1, <2>2, <2>3, <2>4 DEF Ledger!PayAt, AddAt
    <2>9. UNCHANGED Known
      BY <2>1 DEF Known
    <2>10. /\ ServedUnder(Policy, SnapshotOf(Policy, u))
           /\ Ledger!Room(SnapshotOf(Policy, u), n)
           /\ billed' = Ledger!PayAt(SnapshotOf(Policy, u).month,
                            DOMAIN LimitsOf(Policy, SnapshotOf(Policy, u)), n)
      BY <2>a, <2>5, <2>6, <2>8, Zenon
    <2>11. Ledger!Charge(u)
      BY <2>1, <2>7, <2>9, <2>10 DEF Ledger!Charge, Known
    <2> QED
      BY <2>11 DEF Ledger!LNext
  <1>9. ASSUME UpdateConfig \/ (\E u \in Users : SetProfile(u))
                \/ (\E g \in Groups : UpdateGroup(g)) \/ NextMonth
        PROVE  Ledger!LNext
    <2>1. UNCHANGED <<req, billed>>
      BY <1>9 DEF UpdateConfig, SetProfile, UpdateGroup, NextMonth, ledger
    <2>2. UNCHANGED Known
      BY <2>1 DEF Known
    <2>3. Ledger!ChangePolicy
      BY <2>1, <2>2, Zenon DEF Ledger!ChangePolicy, Known
    <2> QED
      BY <2>3 DEF Ledger!LNext
  <1>10. CASE UNCHANGED vars
    <2>1. UNCHANGED <<admin, req, billed>>
      BY <1>10 DEF vars, admin
    <2> QED
      BY <1>a, <2>1 DEF Known
  <1> QED
    BY <1>1, <1>2, <1>3, <1>4, <1>5, <1>6, <1>7, <1>8, <1>9, <1>10 DEF Next, Server

\* The tables implement the ledger of holds: no admission, settlement, change
\* of limits, groups or months, cancellation or crash makes the counters lose
\* or invent a hold that an admission would have to see.
THEOREM CountersAreLedger == Spec => LedgerKept
  <1>1. Init => Ledger!LInit
    BY LedgerInit
  <1>2. IInv /\ [Next]_vars => [Ledger!LNext]_Ledger!lvars
    BY LedgerStep
  <1> QED
    BY <1>1, <1>2, InvInit, InvStep, PTL DEF Spec, LedgerKept, Ledger!LSpec
=============================================================================
