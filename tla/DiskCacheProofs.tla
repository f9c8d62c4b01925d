--------------------------- MODULE DiskCacheProofs ---------------------------
(***************************************************************************)
(* Theorems about the disk cache, for any finite set of keys and any       *)
(* handlers, versions, variants and configurations.                        *)
(***************************************************************************)
EXTENDS DiskCache, SumProofs, TLAPS

Bodies == [Keys -> {None} \cup Body]
Metas == [Keys -> {None} \cup Meta]

Sizes(b) == [k \in Keys |-> BytesOf(b[k])]

-----------------------------------------------------------------------------
(* The size of the bodies.                                                  *)

LEMMA SizesAreNatural ==
    ASSUME NEW b \in Bodies
    PROVE  /\ \A k \in Keys : Sizes(b)[k] = BytesOf(b[k]) /\ BytesOf(b[k]) \in Nat
           /\ Total(b) = SumFunctionOnSet(Sizes(b), Keys) /\ Total(b) \in Nat
  <1>1. ASSUME NEW k \in Keys PROVE Sizes(b)[k] = BytesOf(b[k]) /\ BytesOf(b[k]) \in Nat
    <2>1. b[k] = None \/ b[k].version \in Nat
      BY CacheAssumption DEF Bodies, Body, Versions
    <2> QED
      BY <2>1 DEF Sizes, BytesOf, SizeOf
  <1>2. DOMAIN Sizes(b) = Keys
    BY DEF Sizes
  <1>3. Total(b) = SumFunctionOnSet(Sizes(b), Keys)
    BY <1>2, Zenon DEF Total, SumFunction, Sizes
  <1>4. SumFunctionOnSet(Sizes(b), Keys) \in Nat
    BY <1>1, CacheAssumption, SumWithout
  <1> QED
    BY <1>1, <1>3, <1>4

LEMMA TotalReplaces ==
    ASSUME NEW b \in Bodies, NEW k \in Keys, NEW new \in Body, NEW c, c = [b EXCEPT ![k] = new]
    PROVE  /\ c \in Bodies
           /\ Total(c) + BytesOf(b[k]) = Total(b) + BytesOf(new)
           /\ BytesOf(b[k]) <= Total(b) /\ BytesOf(new) = SizeOf(new.version)
  <1>1. c \in Bodies /\ c[k] = new /\ \A x \in Keys : x # k => c[x] = b[x]
    BY DEF Bodies
  <1>e. PICK e : e = Sizes(b)
    OBVIOUS
  <1>f. PICK f : f = Sizes(c)
    OBVIOUS
  <1>2. \A x \in Keys : /\ e[x] = BytesOf(b[x]) /\ e[x] \in Nat
                        /\ f[x] = BytesOf(c[x]) /\ f[x] \in Nat
    BY <1>1, <1>e, <1>f, SizesAreNatural
  <1>3. IsFiniteSet(Keys) /\ \A x \in Keys : x # k => e[x] = f[x]
    BY <1>1, <1>2, CacheAssumption
  <1>4. SumFunctionOnSet(f, Keys) + e[k] = SumFunctionOnSet(e, Keys) + f[k]
    BY <1>2, <1>3, SumChanges
  <1>5. SumFunctionOnSet(e, Keys) = e[k] + SumFunctionOnSet(e, Keys \ {k})
    BY <1>2, <1>3, SumWithout
  <1>6. SumFunctionOnSet(e, Keys \ {k}) \in Nat
    <2>1. IsFiniteSet(Keys \ {k}) /\ \A x \in Keys \ {k} : e[x] \in Nat
      BY <1>2, <1>3, FS_RemoveElement
    <2> QED
      BY <2>1, SumWithout
  <1>7. Total(b) = SumFunctionOnSet(e, Keys) /\ Total(c) = SumFunctionOnSet(f, Keys)
    BY <1>1, <1>e, <1>f, SizesAreNatural
  <1>8. BytesOf(new) = SizeOf(new.version)
    BY CacheAssumption DEF BytesOf
  <1>9. BytesOf(b[k]) = e[k] /\ BytesOf(new) = f[k] /\ e[k] \in Nat
    BY <1>1, <1>2
  <1> QED
    BY <1>1, <1>4, <1>5, <1>6, <1>7, <1>8, <1>9

LEMMA TotalWithout ==
    ASSUME NEW b \in Bodies, NEW some \in SUBSET Keys, NEW more \in SUBSET Keys, some \subseteq more
    PROVE  /\ Without(b, more) \in Bodies /\ Present(Without(b, more)) = Present(b) \ more
           /\ Total(Without(b, more)) <= Total(Without(b, some))
           /\ Present(b) \subseteq more => Total(Without(b, more)) = 0
  <1>1. /\ Without(b, more) \in Bodies /\ Without(b, some) \in Bodies
        /\ \A k \in Keys : /\ Without(b, more)[k] = IF k \in more THEN None ELSE b[k]
                           /\ Without(b, some)[k] = IF k \in some THEN None ELSE b[k]
    BY DEF Without, Bodies
  <1>2. Present(Without(b, more)) = Present(b) \ more
    BY <1>1 DEF Present
  <1>3. \A k \in Keys : /\ Sizes(Without(b, more))[k] = BytesOf(Without(b, more)[k])
                        /\ Sizes(Without(b, some))[k] = BytesOf(Without(b, some)[k])
                        /\ BytesOf(Without(b, more)[k]) \in Nat /\ BytesOf(Without(b, some)[k]) \in Nat
    BY <1>1, SizesAreNatural
  <1>4. \A k \in Keys : Sizes(Without(b, more))[k] <= Sizes(Without(b, some))[k]
    <2>1. ASSUME NEW k \in Keys
          PROVE  BytesOf(Without(b, more)[k]) = 0 \/ BytesOf(Without(b, more)[k]) = BytesOf(Without(b, some)[k])
      BY <1>1 DEF BytesOf
    <2> QED
      BY <1>3, <2>1
  <1>5. Total(Without(b, more)) <= Total(Without(b, some))
    <2>1. SumFunctionOnSet(Sizes(Without(b, more)), Keys) <= SumFunctionOnSet(Sizes(Without(b, some)), Keys)
      BY <1>3, <1>4, CacheAssumption, SumMonotone
    <2> QED
      BY <1>1, <2>1, SizesAreNatural
  <1>6. ASSUME Present(b) \subseteq more PROVE Total(Without(b, more)) = 0
    <2>1. \A k \in Keys : Sizes(Without(b, more))[k] = 0
      BY <1>1, <1>3, <1>6 DEF Present, BytesOf
    <2>2. SumFunctionOnSet(Sizes(Without(b, more)), Keys) = 0
      BY <2>1, CacheAssumption, SumOfZeros
    <2> QED
      BY <1>1, <2>2, SizesAreNatural
  <1> QED
    BY <1>1, <1>2, <1>5, <1>6

LEMMA TotalOfNothing ==
    ASSUME NEW b, b = [k \in Keys |-> None]
    PROVE  Total(b) = 0
  <1>1. b \in Bodies /\ Present(b) = {} /\ Without(b, {}) = b
    BY DEF Bodies, Present, Without
  <1> QED
    BY <1>1, TotalWithout

-----------------------------------------------------------------------------
(* The order of the bodies, and eviction.                                   *)

LEMMA ForgetsInOrder ==
    ASSUME NEW S, NEW order \in SUBSET (S \X S), InOrder(order, S), NEW gone
    PROVE  /\ Forget(order, gone) \subseteq (S \ gone) \X (S \ gone)
           /\ InOrder(Forget(order, gone), S \ gone)
           /\ Forget(order, gone) \subseteq order
  <1>1. \A p \in order : p = <<p[1], p[2]>> /\ p[1] \in S /\ p[2] \in S
    OBVIOUS
  <1>2. \A x, y : <<x, y>> \in Forget(order, gone) <=> <<x, y>> \in order /\ x \notin gone /\ y \notin gone
    BY DEF Forget
  <1>3. Forget(order, gone) \subseteq (S \ gone) \X (S \ gone)
    BY <1>1 DEF Forget
  <1>4. InOrder(Forget(order, gone), S \ gone)
    BY <1>2 DEF InOrder
  <1> QED
    BY <1>3, <1>4 DEF Forget

\* What is touched is the newest.
LEMMA TouchesInOrder ==
    ASSUME NEW k \in Keys, older \subseteq Present(body) \X Present(body), InOrder(older, Present(body))
    PROVE  /\ Touch(k) \subseteq (Present(body) \cup {k}) \X (Present(body) \cup {k})
           /\ InOrder(Touch(k), Present(body) \cup {k})
           /\ \A x, y \in Present(body) : (x # k /\ y # k) => (<<x, y>> \in Touch(k) <=> <<x, y>> \in older)
           /\ \A x \in Present(body) : x # k => <<x, k>> \in Touch(k)
           /\ \A x : <<k, x>> \notin Touch(k)
  <1>o. PICK o : o = Forget(older, {k})
    OBVIOUS
  <1>s. PICK S : S = Present(body) \ {k}
    OBVIOUS
  <1>1. o \subseteq S \X S /\ InOrder(o, S)
    BY <1>o, <1>s, ForgetsInOrder
  <1>2. Touch(k) = o \cup (S \X {k})
    BY <1>o, <1>s DEF Touch
  <1>3. \A x, y : <<x, y>> \in Touch(k) <=> <<x, y>> \in o \/ (x \in S /\ y = k)
    BY <1>2
  <1>4. k \notin S /\ Present(body) \cup {k} = S \cup {k}
    BY <1>s
  <1>5. Touch(k) \subseteq (S \cup {k}) \X (S \cup {k})
    BY <1>1, <1>2
  <1>6. InOrder(Touch(k), S \cup {k})
    <2>1. \A x, y : <<x, y>> \in o => x \in S /\ y \in S
      BY <1>1
    <2>2. \A x \in S \cup {k} : <<x, x>> \notin Touch(k)
      BY <1>1, <1>3, <1>4, <2>1 DEF InOrder
    <2>3. ASSUME NEW x \in S \cup {k}, NEW y \in S \cup {k}, x # y
          PROVE  <<x, y>> \in Touch(k) \/ <<y, x>> \in Touch(k)
      BY <1>1, <1>3, <2>3 DEF InOrder
    <2>4. ASSUME NEW x \in S \cup {k}, NEW y \in S \cup {k}, NEW z \in S \cup {k},
                 <<x, y>> \in Touch(k), <<y, z>> \in Touch(k)
          PROVE  <<x, z>> \in Touch(k)
      <3>1. <<x, y>> \in o /\ x \in S /\ y \in S
        BY <1>3, <1>4, <2>1, <2>4
      <3>2. CASE z = k
        BY <1>3, <3>1, <3>2
      <3>3. CASE z # k
        BY <1>1, <1>3, <2>1, <2>4, <3>1, <3>3 DEF InOrder
      <3> QED
        BY <3>2, <3>3
    <2> QED
      BY <2>2, <2>3, <2>4 DEF InOrder
  <1>7. \A x, y : (x # k /\ y # k) => (<<x, y>> \in o <=> <<x, y>> \in older)
    BY <1>o DEF Forget
  <1>8. /\ \A x, y \in Present(body) : (x # k /\ y # k) => (<<x, y>> \in Touch(k) <=> <<x, y>> \in older)
        /\ \A x \in Present(body) : x # k => <<x, k>> \in Touch(k)
    BY <1>3, <1>7, <1>s
  <1>9. \A x : <<k, x>> \notin Touch(k)
    BY <1>1, <1>3, <1>4
  <1> QED
    BY <1>4, <1>5, <1>6, <1>8, <1>9

\* A set of bodies that is not empty has an oldest one.
LEMMA Oldest ==
    ASSUME NEW S \in SUBSET Keys, NEW order, InOrder(order, S),
           NEW T \in SUBSET S, T # {}
    PROVE  \E k \in T : \A x \in T : <<x, k>> \notin order
  <1> DEFINE G == {U \in SUBSET S : U = {} \/ \E k \in U : \A x \in U : <<x, k>> \notin order}
  <1>0. IsFiniteSet(S)
    BY CacheAssumption, FS_Subset
  <1>1. {} \in G
    OBVIOUS
  <1>2. ASSUME NEW U \in SUBSET S, U # {}, \A x \in U : U \ {x} \in G PROVE U \in G
    <2>1. PICK u : u \in U
      BY <1>2
    <2>2. <<u, u>> \notin order
      BY <2>1 DEF InOrder
    <2>3. CASE U \ {u} = {}
      BY <2>1, <2>2, <2>3
    <2>4. CASE U \ {u} # {}
      <3>1. PICK k \in U \ {u} : \A x \in U \ {u} : <<x, k>> \notin order
        BY <1>2, <2>1, <2>4
      <3>2. CASE <<u, k>> \notin order
        BY <3>1, <3>2
      <3>3. CASE <<u, k>> \in order
        <4>1. ASSUME NEW x \in U PROVE <<x, u>> \notin order
          <5>1. CASE x = u
            BY <2>2, <5>1
          <5>2. CASE x # u
            <6>1. <<x, k>> \notin order /\ x \in S /\ u \in S /\ k \in S
              BY <2>1, <3>1, <5>2
            <6> QED
              BY <3>3, <6>1 DEF InOrder
          <5> QED
            BY <5>1, <5>2
        <4> QED
          BY <2>1, <4>1
      <3> QED
        BY <3>2, <3>3
    <2> QED
      BY <2>3, <2>4
  <1>3. G = SUBSET S
    <2> HIDE DEF G
    <2>1. G \in SUBSET SUBSET S
      BY DEF G
    <2> QED
      BY <1>0, <1>1, <1>2, <2>1, SubsetInduction
  <1> QED
    BY <1>3

\* What eviction leaves fits, and is newer than what it takes.
LEMMA Evicts ==
    ASSUME NEW b \in Bodies, NEW order, InOrder(order, Present(b)), NEW max \in Nat,
           NEW gone, gone = Evicted(b, order, max, {})
    PROVE  /\ gone \subseteq Present(b) /\ Total(Without(b, gone)) <= max
           /\ \A x \in gone, y \in Present(b) \ gone : <<x, y>> \in order
  <1> DEFINE Before(k) == {x \in Present(b) : <<x, k>> \in order}
  <1>1. gone = {k \in Present(b) : Total(Without(b, Before(k))) > max}
    BY DEF Evicted
  <1>2. Present(b) \subseteq Keys /\ gone \subseteq Present(b)
    BY <1>1 DEF Present
  <1>3. \A k : Before(k) \in SUBSET Keys /\ Before(k) \subseteq Present(b)
    BY <1>2
  <1>4. \A k : Total(Without(b, Before(k))) \in Nat
    BY <1>3, TotalWithout, SizesAreNatural
  <1>b. \A x, k : x \in Before(k) <=> x \in Present(b) /\ <<x, k>> \in order
    OBVIOUS
  <1>g. \A k \in Present(b) : k \in gone <=> Total(Without(b, Before(k))) > max
    BY <1>1
  <1> HIDE DEF Before
  <1>5. Total(Without(b, gone)) <= max
    <2>1. CASE gone = Present(b)
      BY <1>2, <2>1, TotalWithout
    <2>2. CASE gone # Present(b)
      <3>1. PICK k \in Present(b) \ gone : \A x \in Present(b) \ gone : <<x, k>> \notin order
        <4>1. Present(b) \ gone \in SUBSET Present(b) /\ Present(b) \ gone # {}
          BY <1>2, <2>2
        <4> QED
          BY <1>2, <4>1, Oldest
      <3>2. Before(k) \subseteq gone
        BY <1>b, <3>1
      <3>3. Total(Without(b, Before(k))) <= max
        BY <1>4, <1>g, <3>1
      <3>q. gone \in SUBSET Keys
        BY <1>2
      <3>4. Total(Without(b, gone)) <= Total(Without(b, Before(k))) /\ Without(b, gone) \in Bodies
        BY <1>3, <3>2, <3>q, TotalWithout
      <3>5. Total(Without(b, gone)) \in Nat
        BY <3>4, SizesAreNatural
      <3> QED
        BY <1>4, <3>3, <3>4, <3>5
    <2> QED
      BY <2>1, <2>2
  <1>6. ASSUME NEW x \in gone, NEW y \in Present(b) \ gone PROVE <<x, y>> \in order
    <2>1. SUFFICES ASSUME <<x, y>> \notin order PROVE FALSE
      OBVIOUS
    <2>2. x \in Present(b) /\ x # y /\ <<y, x>> \in order
      BY <1>2, <2>1 DEF InOrder
    <2>3. Before(y) \subseteq Before(x)
      BY <1>b, <2>2 DEF InOrder
    <2>4. Total(Without(b, Before(x))) <= Total(Without(b, Before(y)))
      BY <1>3, <2>3, TotalWithout
    <2>5. Total(Without(b, Before(x))) > max /\ ~(Total(Without(b, Before(y))) > max)
      BY <1>g, <2>2
    <2> QED
      BY <1>4, <2>4, <2>5
  <1> QED
    BY <1>2, <1>5, <1>6

-----------------------------------------------------------------------------
(* The inductive invariant.                                                 *)

Handler == [phase : {"load", "send", "answered"}, key : Keys, variant : Variants,
            etag : ClientEtags, config : Configs, cached : {None} \cup Entry,
            status : {None, 200, 304}, version : {None} \cup Versions]
Response == [phase : {"served"}, variant : Variants, response : Entry]

HandlerOK(q) ==
    \/ q = Idle
    \/ q \in Handler /\ (q.phase = "answered" => q.version \in Versions)
    \/ q \in Response

HandlersOK == req = [r \in Requests |-> req[r]] /\ \A r \in Requests : HandlerOK(req[r])

FilesOK ==
    /\ body \in Bodies /\ meta \in Metas
    /\ older \subseteq Present(body) \X Present(body) /\ InOrder(older, Present(body))
    /\ capacity \in {None} \cup [max : Nat, bytes : Nat]
    /\ torn \subseteq Keys /\ crossed \subseteq Keys /\ drift \subseteq {"torn", "stuck", "unread"}
    /\ cfg \in Configs /\ upstream \in [Keys -> Versions]

(* The limit holds because the count is right, and the count stays right    *)
(* because a handler replaces a body in the step that reads its size.       *)
CountOK == AccountingAgrees /\ WithinLimit

CacheInv == FilesOK /\ HandlersOK /\ CountOK /\ overtaken \subseteq Requests

LEMMA PhaseOf == /\ Idle.phase = "idle"
                 /\ \A q \in Handler : q.phase \in {"load", "send", "answered"}
                 /\ \A q \in Response : q.phase = "served"
  BY DEF Idle, Handler, Response

LEMMA EntryIsEntry ==
    ASSUME FilesOK, NEW k \in Keys, body[k] # None, meta[k] # None,
           NEW e, e = [body |-> body[k], meta |-> meta[k], odd |-> k \in torn \cup crossed]
    PROVE  e \in Entry
  <1>1. body[k] \in Body /\ meta[k] \in Meta
    BY DEF FilesOK, Bodies, Metas
  <1>2. CASE k \in torn \cup crossed
    <2>1. e = [body |-> body[k], meta |-> meta[k], odd |-> TRUE]
      BY <1>2
    <2> QED
      BY <1>1, <2>1 DEF Entry
  <1>3. CASE k \notin torn \cup crossed
    <2>0. (k \in torn \cup crossed) = FALSE
      BY <1>3
    <2>1. e = [body |-> body[k], meta |-> meta[k], odd |-> FALSE]
      BY <2>0, Zenon
    <2> QED
      BY <1>1, <2>1 DEF Entry
  <1> QED
    BY <1>2, <1>3

\* One handler goes on, the others stay.
LEMMA HandlerStep ==
    ASSUME HandlersOK, NEW r \in Requests, NEW q, HandlerOK(q), req' = [req EXCEPT ![r] = q]
    PROVE  HandlersOK'
  BY DEF HandlersOK

LEMMA Handled ==
    ASSUME FilesOK, HandlersOK, [Next]_vars
    PROVE  HandlersOK'
  <1>0. HandlerOK(Idle)
    BY DEF HandlerOK
  <1>1. ASSUME NEW r \in Requests, NEW k \in Keys, NEW v \in Variants, NEW e \in ClientEtags, Begin(r, k, v, e)
        PROVE  HandlersOK'
    <2>q. PICK q : q = [phase |-> "load", key |-> k, variant |-> v, etag |-> e,
                        config |-> cfg, cached |-> None, status |-> None, version |-> None]
      OBVIOUS
    <2>1. q \in Handler /\ q.phase = "load"
      BY <2>q DEF Handler, FilesOK
    <2>2. req' = [req EXCEPT ![r] = q]
      BY <1>1, <2>q DEF Begin
    <2> QED
      BY <2>1, <2>2, HandlerStep DEF HandlerOK
  <1>2. ASSUME NEW r \in Requests, Load(r) PROVE HandlersOK'
    <2>q. PICK q : q = req[r]
      OBVIOUS
    <2>k. PICK k : k = q.key
      OBVIOUS
    <2>1. q.phase = "load" /\ q \in Handler /\ k \in Keys /\ q.variant \in Variants
      BY <1>2, <2>q, <2>k, PhaseOf DEF Load, HandlersOK, HandlerOK, Handler
    <2>2. CASE req' = [req EXCEPT ![r].phase = "send"]
      <3>1. PICK n : n = [q EXCEPT !.phase = "send"]
        OBVIOUS
      <3>2. n \in Handler /\ n.phase = "send"
        BY <2>1, <3>1 DEF Handler
      <3>3. req' = [req EXCEPT ![r] = n]
        BY <2>2, <2>q, <3>1 DEF HandlersOK
      <3> QED
        BY <3>2, <3>3, HandlerStep DEF HandlerOK
    <2>3. CASE req' # [req EXCEPT ![r].phase = "send"]
      <3>e. PICK e : e = [body |-> body[k], meta |-> meta[k], odd |-> k \in torn \cup crossed]
        OBVIOUS
      <3>1. /\ body[k] # None /\ meta[k] # None
            /\ req' = [req EXCEPT ![r] = IF meta[k].fresh THEN Served(q, e)
                                         ELSE [q EXCEPT !.phase = "send", !.cached = e]]
        BY <1>2, <2>q, <2>k, <2>3, <3>e DEF Load
      <3>2. e \in Entry
        BY <2>1, <3>1, <3>e, EntryIsEntry
      <3>3. Served(q, e) \in Response
        BY <2>1, <3>2 DEF Served, Response
      <3>4. [q EXCEPT !.phase = "send", !.cached = e] \in Handler /\ [q EXCEPT !.phase = "send", !.cached = e].phase = "send"
        BY <2>1, <3>2 DEF Handler
      <3>n. PICK n : n = IF meta[k].fresh THEN Served(q, e) ELSE [q EXCEPT !.phase = "send", !.cached = e]
        OBVIOUS
      <3>5. HandlerOK(n)
        BY <3>3, <3>4, <3>n DEF HandlerOK
      <3> QED
        BY <3>1, <3>5, <3>n, HandlerStep
    <2> QED
      BY <2>2, <2>3
  <1>3. ASSUME NEW r \in Requests, Answer(r) PROVE HandlersOK'
    <2>q. PICK q : q = req[r]
      OBVIOUS
    <2>1. q.phase = "send" /\ q \in Handler
      BY <1>3, <2>q, PhaseOf DEF Answer, HandlersOK, HandlerOK
    <2>v. PICK v : v = upstream[q.key]
      OBVIOUS
    <2>2. v \in Versions
      BY <2>1, <2>v DEF FilesOK, Handler
    <2>s. PICK st \in {200, 304} :
            req' = [req EXCEPT ![r] = [q EXCEPT !.phase = "answered", !.version = v, !.status = st]]
      BY <1>3, <2>q, <2>v DEF Answer
    <2>n. PICK n : n = [q EXCEPT !.phase = "answered", !.version = v, !.status = st]
      OBVIOUS
    <2>3. n \in Handler /\ n.version \in Versions
      <3>1. PICK ph : ph = {"load", "send", "answered"}
        OBVIOUS
      <3>2. PICK ca : ca = {None} \cup Entry
        OBVIOUS
      <3>3. PICK ss : ss = {None, 200, 304}
        OBVIOUS
      <3>4. PICK vs : vs = {None} \cup Versions
        OBVIOUS
      <3>5. Handler = [phase : ph, key : Keys, variant : Variants, etag : ClientEtags,
                       config : Configs, cached : ca, status : ss, version : vs]
        BY <3>1, <3>2, <3>3, <3>4, Zenon DEF Handler
      <3>6. "answered" \in ph /\ st \in ss /\ v \in vs
        BY <2>2, <3>1, <3>3, <3>4
      <3>7. n \in [phase : ph, key : Keys, variant : Variants, etag : ClientEtags,
                   config : Configs, cached : ca, status : ss, version : vs] /\ n.version = v
        BY <2>1, <2>n, <3>5, <3>6
      <3> QED
        BY <2>2, <3>5, <3>7, Zenon
    <2>4. req' = [req EXCEPT ![r] = n]
      BY <2>s, <2>n
    <2> QED
      BY <2>3, <2>4, HandlerStep DEF HandlerOK
  <1>4. ASSUME NEW r \in Requests, Refresh(r) PROVE HandlersOK'
    <2>q. PICK q : q = req[r]
      OBVIOUS
    <2>1. q.phase = "answered" /\ q \in Handler /\ q.version \in Versions /\ q.cached # None
      BY <1>4, <2>q, PhaseOf DEF Refresh, HandlersOK, HandlerOK
    <2>2. q.cached \in Entry /\ q.cached.meta \in Meta /\ q.variant \in Variants
      BY <2>1 DEF Handler, Entry
    <2>m. PICK m : m = Refreshed(q)
      OBVIOUS
    <2>3. m \in Meta
      BY <2>1, <2>2, <2>m DEF Refreshed, Meta
    <2>o. PICK o \in BOOLEAN : o = (q.cached.odd \/ Misled(q))
      OBVIOUS
    <2>e. PICK e : e = [q.cached EXCEPT !.meta = m, !.odd = o]
      OBVIOUS
    <2>4. e \in Entry
      BY <2>2, <2>3, <2>e DEF Entry
    <2>5. Served(q, e) \in Response /\ Served(q, q.cached) \in Response
      BY <2>2, <2>4 DEF Served, Response
    <2>6. req' = [req EXCEPT ![r] = Served(q, e)] \/ req' = [req EXCEPT ![r] = Served(q, q.cached)]
      BY <1>4, <2>q, <2>m, <2>o, <2>e, Zenon DEF Refresh
    <2> QED
      BY <2>5, <2>6, HandlerStep DEF HandlerOK
  <1>5. ASSUME NEW r \in Requests,
               Fail(r) \/ Disconnect(r) \/ PassOn(r) \/ Write(r) \/ WriteTorn(r) \/ Finish(r)
        PROVE  HandlersOK'
    BY <1>0, <1>5, HandlerStep DEF Fail, Disconnect, PassOn, Write, WriteTorn, Finish
  <1>6. CASE Crash
    BY <1>0, <1>6 DEF Crash, HandlersOK
  <1>7. CASE UNCHANGED req
    BY <1>7 DEF HandlersOK
  <1> QED
    BY <1>1, <1>2, <1>3, <1>4, <1>5, <1>6, <1>7 DEF Next, Step, Expire, Publish, Purge, UpdateConfig, vars
-----------------------------------------------------------------------------
(* The files and their count.                                               *)

LEMMA MaxWithZero ==
    ASSUME NEW a \in Int, NEW m, m = Max({a, 0})
    PROVE  /\ m \in Nat
           /\ a >= 0 => m = a
  <1>1. \E x \in {a, 0} : \A y \in {a, 0} : x >= y
    <2>1. CASE a >= 0
      BY <2>1
    <2>2. CASE ~(a >= 0)
      BY <2>2
    <2> QED
      BY <2>1, <2>2
  <1>2. m \in {a, 0} /\ \A y \in {a, 0} : m >= y
    BY <1>1 DEF Max
  <1> QED
    BY <1>2

\* The body of k is replaced.
Replaces(k, c, new, m) ==
    MaintainCapacity(k, c, [body EXCEPT ![k] = new], [meta EXCEPT ![k] = m],
                     Touch(k), BytesOf(body[k]), SizeOf(new.version))

LEMMA Maintained ==
    ASSUME CacheInv, NEW k \in Keys, NEW c \in Configs, NEW new \in Body, NEW m \in Meta,
           Replaces(k, c, new, m), UNCHANGED <<cfg, upstream>>
    PROVE  FilesOK' /\ CountOK'
  <1>b. PICK b : b = [body EXCEPT ![k] = new]
    OBVIOUS
  <1>n. PICK n : n = [meta EXCEPT ![k] = m]
    OBVIOUS
  <1>o. PICK o : o = Touch(k)
    OBVIOUS
  <1>p. PICK p : p = BytesOf(body[k])
    OBVIOUS
  <1>w. PICK w : w = SizeOf(new.version)
    OBVIOUS
  <1>0. /\ body \in Bodies /\ meta \in Metas
        /\ older \subseteq Present(body) \X Present(body) /\ InOrder(older, Present(body))
        /\ capacity \in {None} \cup [max : Nat, bytes : Nat]
        /\ torn \subseteq Keys /\ crossed \subseteq Keys /\ drift \subseteq {"torn", "stuck", "unread"}
        /\ cfg' \in Configs /\ upstream' \in [Keys -> Versions]
    BY DEF CacheInv, FilesOK
  <1>1. /\ b \in Bodies /\ Total(b) + p = Total(body) + w /\ p <= Total(body)
        /\ Total(b) \in Nat /\ Total(body) \in Nat /\ p \in Nat /\ w \in Nat
    <2>1. b \in Bodies /\ Total(b) + p = Total(body) + w /\ p <= Total(body) /\ w = BytesOf(new)
      <3>1. body \in Bodies
        BY <1>0
      <3>2. /\ b \in Bodies /\ Total(b) + BytesOf(body[k]) = Total(body) + BytesOf(new)
            /\ BytesOf(body[k]) <= Total(body) /\ BytesOf(new) = SizeOf(new.version)
        BY <1>b, <3>1, TotalReplaces
      <3> QED
        BY <1>p, <1>w, <3>2
    <2>2. b[k] = new
      BY <1>0, <1>b DEF Bodies
    <2>3. w \in Nat /\ p \in Nat /\ Total(b) \in Nat /\ Total(body) \in Nat
      BY <1>0, <1>p, <2>1, <2>2, SizesAreNatural
    <2> QED
      BY <2>1, <2>3
  <1>2. n \in Metas
    BY <1>0, <1>n DEF Metas
  <1>3. /\ Present(b) = Present(body) \cup {k}
        /\ o \subseteq Present(b) \X Present(b) /\ InOrder(o, Present(b))
    <2>1. Present(b) = Present(body) \cup {k}
      BY <1>0, <1>b, CacheAssumption DEF Present, Bodies
    <2> QED
      BY <1>0, <1>o, <2>1, TouchesInOrder
  <1>4. c.max \in Nat
    BY CacheAssumption DEF Config
  <1>5. MaintainCapacity(k, c, b, n, o, p, w)
    BY <1>b, <1>n, <1>o, <1>p, <1>w DEF Replaces
  <1>6. ASSUME NEW elapsed \in BOOLEAN, Trusted(c, p, w, elapsed),
               body' = b, meta' = n, older' = o,
               capacity' = [capacity EXCEPT !.bytes = Counted(p, w)],
               torn' = torn \ {k}, crossed' = crossed \ {k}, UNCHANGED drift
        PROVE  FilesOK' /\ CountOK'
    <2>1. capacity # None /\ capacity \in [max : Nat, bytes : Nat] /\ capacity.max = c.max
      BY <1>0, <1>6 DEF Trusted
    <2>x. PICK x : x = Counted(p, w)
      OBVIOUS
    <2>2. x \in Nat /\ (capacity.bytes = Total(body) => x = Total(b)) /\ x <= c.max
      <3>1. capacity.bytes \in Nat /\ x = Max({capacity.bytes - p, 0}) + w
        BY <2>1, <2>x DEF Counted
      <3>2. x \in Nat /\ (capacity.bytes = Total(body) => x = Total(b))
        <4>c. PICK count \in Nat : count = capacity.bytes
          BY <3>1
        <4>t. PICK total \in Nat : total = Total(body)
          BY <1>1
        <4>a. PICK after \in Nat : after = Total(b)
          BY <1>1
        <4>1. /\ after + p = total + w /\ p <= total /\ p \in Nat /\ w \in Nat
              /\ x = Max({count - p, 0}) + w
          BY <1>1, <3>1, <4>c, <4>t, <4>a
        <4>2. x \in Nat /\ (count = total => x = after)
          <5>1. PICK y : y = Max({count - p, 0})
            OBVIOUS
          <5>2. count - p \in Int
            BY <4>1
          <5>3. y \in Nat /\ (count - p >= 0 => y = count - p)
            BY <5>1, <5>2, MaxWithZero
          <5>4. x = y + w
            BY <4>1, <5>1
          <5> QED
            BY <4>1, <5>3, <5>4
        <4> QED
          BY <4>2, <4>c, <4>t, <4>a
      <3> QED
        BY <1>6, <2>x, <3>2 DEF Trusted
    <2>3. capacity' \in [max : Nat, bytes : Nat] /\ capacity'.max = c.max /\ capacity'.bytes = x
      BY <1>6, <2>1, <2>2, <2>x
    <2>4. FilesOK'
      BY <1>0, <1>1, <1>2, <1>3, <1>6, <2>3 DEF FilesOK
    <2>5. drift \subseteq {"stuck"} => x = Total(b)
      BY <2>1, <2>2 DEF CacheInv, CountOK, AccountingAgrees
    <2>6. AccountingAgrees' /\ WithinLimit'
      BY <1>6, <2>2, <2>3, <2>5 DEF AccountingAgrees, WithinLimit
    <2> QED
      BY <2>4, <2>6 DEF CountOK
  <1>7. ASSUME NEW stuck \in SUBSET Present(b), NEW gone, gone = Evicted(b, o, c.max, stuck),
               body' = Without(b, gone),
               \E left \in SUBSET gone : meta' = Without(n, gone \ left),
               older' = Forget(o, gone),
               capacity' = [max |-> c.max, bytes |-> Total(body')],
               torn' = torn \ (gone \cup {k}), crossed' = crossed \ (gone \cup {k}),
               drift' = IF stuck = {} THEN {} ELSE {"stuck"}
        PROVE  FilesOK' /\ CountOK'
    <2>1. gone \subseteq Present(b) /\ Present(b) \subseteq Keys
      BY <1>7 DEF Evicted, Present
    <2>d. PICK d : d = Without(b, gone)
      OBVIOUS
    <2>2. d \in Bodies /\ Present(d) = Present(b) \ gone /\ Total(d) \in Nat
      <3>1. gone \in SUBSET Keys /\ gone \subseteq gone
        BY <2>1
      <3>2. d \in Bodies /\ Present(d) = Present(b) \ gone
        BY <1>1, <2>d, <3>1, TotalWithout
      <3> QED
        BY <3>2, SizesAreNatural
    <2>3. meta' \in Metas
      BY <1>2, <1>7 DEF Metas, Without
    <2>4. older' \subseteq Present(d) \X Present(d) /\ InOrder(older', Present(d))
      BY <1>3, <1>7, <2>2, ForgetsInOrder
    <2>5. capacity' = [max |-> c.max, bytes |-> Total(d)] /\ body' = d
      BY <1>7, <2>d
    <2>6. capacity' \in [max : Nat, bytes : Nat] /\ capacity'.max = c.max /\ capacity'.bytes = Total(d)
      BY <1>4, <2>2, <2>5
    <2>7. FilesOK'
      BY <1>0, <1>7, <2>2, <2>3, <2>4, <2>5, <2>6 DEF FilesOK
    <2>8. drift' = {} => Total(d) <= c.max
      <3>1. SUFFICES ASSUME drift' = {} PROVE Total(d) <= c.max
        OBVIOUS
      <3>2. stuck = {}
        BY <1>7, <3>1
      <3> QED
        <4>1. PICK max \in Nat : max = c.max
          BY <1>4
        <4>2. gone = Evicted(b, o, max, {}) /\ InOrder(o, Present(b)) /\ b \in Bodies
          BY <1>1, <1>3, <1>7, <3>2, <4>1
        <4>3. Total(Without(b, gone)) <= max
          BY <4>2, Evicts
        <4> QED
          BY <2>d, <4>1, <4>3
    <2>9. AccountingAgrees' /\ WithinLimit'
      BY <2>5, <2>6, <2>8 DEF AccountingAgrees, WithinLimit
    <2> QED
      BY <2>7, <2>9 DEF CountOK
  <1>8. ASSUME body' = b, meta' = n, older' = o, capacity' = [max |-> c.max, bytes |-> 0],
               torn' = torn \ {k}, crossed' = crossed \ {k}, drift' = {"unread"}
        PROVE  FilesOK' /\ CountOK'
    <2>1. capacity' \in [max : Nat, bytes : Nat]
      BY <1>4, <1>8
    <2>2. FilesOK'
      BY <1>0, <1>1, <1>2, <1>3, <1>8, <2>1 DEF FilesOK
    <2>3. AccountingAgrees' /\ WithinLimit'
      BY <1>8 DEF AccountingAgrees, WithinLimit
    <2> QED
      BY <2>2, <2>3 DEF CountOK
  <1> QED
    <2>1. PICK elapsed \in BOOLEAN : MaintainCapacity(k, c, b, n, o, p, w)!(elapsed)
      BY <1>5 DEF MaintainCapacity
    <2>2. CASE Trusted(c, p, w, elapsed)
      BY <1>6, <2>1, <2>2
    <2>3. CASE ~Trusted(c, p, w, elapsed)
      BY <1>7, <1>8, <2>1, <2>3
    <2> QED
      BY <2>2, <2>3
LEMMA FilesKept ==
    ASSUME FilesOK, UNCHANGED <<files, capacity, cfg, upstream, torn, crossed, drift>>
    PROVE  FilesOK' /\ (CountOK => CountOK')
  <1>1. body' = body /\ meta' = meta /\ older' = older /\ capacity' = capacity /\ drift' = drift
    BY DEF files
  <1>2. FilesOK'
    BY <1>1 DEF FilesOK
  <1>3. CountOK => CountOK'
    BY <1>1 DEF CountOK, AccountingAgrees, WithinLimit
  <1> QED
    BY <1>2, <1>3

\* Who writes, and what: the handler's own response, in place of the entry of
\* its key.
LEMMA WhatIsWritten ==
    ASSUME HandlersOK, NEW r \in Requests, Write(r) \/ WriteTorn(r)
    PROVE  \E k \in Keys, c \in Configs, new \in Body, m \in Meta :
             /\ k = req[r].key /\ c = req[r].config
             /\ new = [version |-> req[r].version, variant |-> req[r].variant]
             /\ m = [version |-> req[r].version, variant |-> req[r].variant, fresh |-> TRUE]
             /\ Write(r) => Replaces(k, c, new, m) /\ UNCHANGED <<cfg, upstream>>
  <1>q. PICK q : q = req[r]
    OBVIOUS
  <1>1. q.phase = "answered"
    BY <1>q DEF Write, WriteTorn
  <1>2. q \in Handler /\ q.version \in Versions
    BY <1>q, <1>1, PhaseOf DEF HandlersOK, HandlerOK
  <1>3. q.key \in Keys /\ q.config \in Configs /\ q.variant \in Variants
    BY <1>2 DEF Handler
  <1>k. PICK k \in Keys : k = q.key
    BY <1>3
  <1>c. PICK c \in Configs : c = q.config
    BY <1>3
  <1>n. PICK new \in Body : new = [version |-> q.version, variant |-> q.variant]
    BY <1>2, <1>3 DEF Body
  <1>m. PICK m \in Meta : m = [version |-> q.version, variant |-> q.variant, fresh |-> TRUE]
    BY <1>2, <1>3 DEF Meta
  <1>4. new.version = q.version
    BY <1>n
  <1>5. ASSUME Write(r) PROVE Replaces(k, c, new, m) /\ UNCHANGED <<cfg, upstream>>
    BY <1>5, <1>q, <1>k, <1>c, <1>n, <1>m, <1>4, Zenon DEF Write, Replaces
  <1> QED
    BY <1>q, <1>k, <1>c, <1>n, <1>m, <1>5

LEMMA FilesStep ==
    ASSUME CacheInv, [Next]_vars
    PROVE  FilesOK' /\ CountOK'
  <1>0. FilesOK /\ HandlersOK /\ CountOK
    BY DEF CacheInv
  <1>1. ASSUME NEW r \in Requests, Write(r) PROVE FilesOK' /\ CountOK'
    BY <1>0, <1>1, WhatIsWritten, Maintained
  <1>2. ASSUME NEW r \in Requests, WriteTorn(r) PROVE FilesOK' /\ CountOK'
    <2>1. PICK k \in Keys, new \in Body :
            /\ k = req[r].key
            /\ new = [version |-> req[r].version, variant |-> req[r].variant]
      BY <1>0, <1>2, WhatIsWritten
    <2>2. /\ body' = [body EXCEPT ![k] = new] /\ older' = Touch(k) /\ meta' = meta
          /\ torn' = torn \cup {k} /\ drift' = drift \cup {"torn"}
          /\ UNCHANGED <<capacity, cfg, upstream, crossed>>
      BY <1>2, <2>1 DEF WriteTorn
    <2>3. body' \in Bodies /\ Present(body') = Present(body) \cup {k}
      BY <1>0, <2>2, CacheAssumption DEF FilesOK, Bodies, Present
    <2>4. older' \subseteq Present(body') \X Present(body') /\ InOrder(older', Present(body'))
      BY <1>0, <2>2, <2>3, TouchesInOrder DEF FilesOK
    <2>5. FilesOK'
      BY <1>0, <2>2, <2>3, <2>4 DEF FilesOK
    <2>6. CountOK'
      BY <2>2 DEF CountOK, AccountingAgrees, WithinLimit
    <2> QED
      BY <2>5, <2>6
  <1>3. ASSUME NEW r \in Requests, Load(r) PROVE FilesOK' /\ CountOK'
    <2>1. UNCHANGED <<body, meta, capacity, cfg, upstream, torn, crossed, drift>>
      BY <1>3 DEF Load
    <2>2. older' \subseteq Present(body) \X Present(body) /\ InOrder(older', Present(body))
      <3>1. CASE older' = older
        BY <1>0, <3>1 DEF FilesOK
      <3>2. CASE older' # older
        <4>1. PICK k : k = req[r].key
          OBVIOUS
        <4>2. older' = Touch(k) /\ body[k] # None
          BY <1>3, <3>2, <4>1 DEF Load
        <4>3. k \in Keys
          BY <1>0, <1>3, <4>1, PhaseOf DEF Load, HandlersOK, HandlerOK, Handler
        <4>4. Present(body) \cup {k} = Present(body)
          BY <4>2, <4>3 DEF Present
        <4> QED
          BY <1>0, <4>2, <4>3, <4>4, TouchesInOrder DEF FilesOK
      <3> QED
        BY <3>1, <3>2
    <2>3. FilesOK'
      BY <1>0, <2>1, <2>2 DEF FilesOK
    <2>4. CountOK'
      BY <1>0, <2>1 DEF CountOK, AccountingAgrees, WithinLimit
    <2> QED
      BY <2>3, <2>4
  <1>4. ASSUME meta' \in Metas, crossed' \subseteq Keys, UNCHANGED <<body, older, capacity, cfg, upstream, torn, drift>>
        PROVE  FilesOK' /\ CountOK'
    <2>1. FilesOK'
      BY <1>0, <1>4 DEF FilesOK
    <2>2. CountOK'
      BY <1>0, <1>4 DEF CountOK, AccountingAgrees, WithinLimit
    <2> QED
      BY <2>1, <2>2
  <1>5. ASSUME NEW r \in Requests, Refresh(r) PROVE FilesOK' /\ CountOK'
    <2>q. PICK q : q = req[r]
      OBVIOUS
    <2>1. q \in Handler /\ q.version \in Versions /\ q.cached # None
      BY <1>0, <1>5, <2>q, PhaseOf DEF Refresh, HandlersOK, HandlerOK
    <2>2. q.cached.meta \in Meta /\ q.key \in Keys
      BY <2>1 DEF Handler, Entry
    <2>3. Refreshed(q) \in Meta
      BY <2>1, <2>2 DEF Refreshed, Meta
    <2>4. meta' = meta \/ meta' = [meta EXCEPT ![q.key] = Refreshed(q)]
      BY <1>5, <2>q DEF Refresh
    <2>5. meta' \in Metas
      BY <1>0, <2>2, <2>3, <2>4 DEF FilesOK, Metas
    <2>6. UNCHANGED <<body, older, capacity, cfg, upstream, torn, drift>>
      BY <1>5 DEF Refresh
    <2>7. crossed' \subseteq crossed \cup {q.key}
      BY <1>5, <2>q DEF Refresh
    <2>8. crossed' \subseteq Keys
      BY <1>0, <2>2, <2>7 DEF FilesOK
    <2> QED
      BY <1>4, <2>5, <2>6, <2>8
  <1>6. ASSUME NEW k \in Keys, Expire(k) PROVE FilesOK' /\ CountOK'
    <2>1. meta[k] \in Meta
      BY <1>0, <1>6 DEF FilesOK, Metas, Expire
    <2>m. PICK m : m = [meta[k] EXCEPT !.fresh = FALSE]
      OBVIOUS
    <2>2. m \in Meta
      BY <2>1, <2>m DEF Meta
    <2>3. meta' = [meta EXCEPT ![k] = m]
      BY <1>6, <2>m DEF Expire
    <2>4. meta' \in Metas
      BY <1>0, <2>2, <2>3 DEF FilesOK, Metas
    <2> QED
      BY <1>0, <1>4, <1>6, <2>4 DEF Expire, FilesOK
  <1>7. ASSUME NEW k \in Keys, Publish(k) PROVE FilesOK' /\ CountOK'
    <2>1. upstream[k] \in Versions /\ upstream[k] < MaxVersion
      BY <1>0, <1>7 DEF Publish, FilesOK
    <2>2. upstream[k] + 1 \in Versions
      BY <2>1, CacheAssumption DEF Versions
    <2>3. upstream' \in [Keys -> Versions]
      BY <1>0, <1>7, <2>2 DEF Publish, FilesOK
    <2>4. FilesOK'
      BY <1>0, <1>7, <2>3 DEF FilesOK, Publish, files
    <2>5. CountOK'
      BY <1>0, <1>7 DEF Publish, files, CountOK, AccountingAgrees, WithinLimit
    <2> QED
      BY <2>4, <2>5
  <1>8. ASSUME Purge PROVE FilesOK' /\ CountOK'
    <2>1. PICK bs \in SUBSET Present(body), ms \in SUBSET Present(meta) :
            /\ body' = Without(body, bs) /\ meta' = Without(meta, ms)
            /\ older' = Forget(older, bs) /\ torn' = torn \ bs /\ crossed' = crossed \ bs
      BY <1>8 DEF Purge
    <2>2. capacity' = None /\ drift' = {} /\ UNCHANGED <<cfg, upstream>>
      BY <1>8 DEF Purge
    <2>3. body' \in Bodies /\ Present(body') = Present(body) \ bs
      BY <1>0, <2>1 DEF FilesOK, Bodies, Present, Without
    <2>4. meta' \in Metas
      BY <1>0, <2>1 DEF FilesOK, Metas, Without
    <2>5. older' \subseteq Present(body') \X Present(body') /\ InOrder(older', Present(body'))
      BY <1>0, <2>1, <2>3, ForgetsInOrder DEF FilesOK
    <2>6. FilesOK'
      BY <1>0, <2>1, <2>2, <2>3, <2>4, <2>5 DEF FilesOK
    <2>7. CountOK'
      BY <2>2 DEF CountOK, AccountingAgrees, WithinLimit
    <2> QED
      BY <2>6, <2>7
  <1>9. ASSUME UpdateConfig \/ Crash PROVE FilesOK' /\ CountOK'
    <2>1. FilesOK'
      BY <1>0, <1>9 DEF FilesOK, UpdateConfig, Crash, files
    <2>2. CASE UpdateConfig
      BY <1>0, <2>1, <2>2 DEF UpdateConfig, files, CountOK, AccountingAgrees, WithinLimit
    <2>3. CASE Crash
      BY <2>1, <2>3 DEF Crash, CountOK, AccountingAgrees, WithinLimit
    <2> QED
      BY <1>9, <2>2, <2>3
  <1>10. ASSUME UNCHANGED <<files, capacity, cfg, upstream, torn, crossed, drift>> PROVE FilesOK' /\ CountOK'
    BY <1>0, <1>10, FilesKept
  <1>11. ASSUME NEW r \in Requests, NEW k \in Keys, NEW v \in Variants, NEW e \in ClientEtags, Begin(r, k, v, e)
         PROVE  FilesOK' /\ CountOK'
    BY <1>10, <1>11 DEF Begin
  <1>12. ASSUME NEW r \in Requests, Answer(r) \/ Fail(r) \/ Disconnect(r) \/ PassOn(r) \/ Finish(r)
         PROVE  FilesOK' /\ CountOK'
    BY <1>10, <1>12 DEF Answer, Fail, Disconnect, PassOn, Finish
  <1>13. CASE UNCHANGED vars
    BY <1>10, <1>13 DEF vars, files
  <1> QED
    BY <1>1, <1>2, <1>3, <1>5, <1>6, <1>7, <1>8, <1>9, <1>11, <1>12, <1>13 DEF Next, Step

-----------------------------------------------------------------------------
(* The theorems.                                                            *)

LEMMA CacheInit ==
    ASSUME Init
    PROVE  CacheInv
  <1>1. body \in Bodies /\ meta \in Metas /\ Present(body) = {}
    BY DEF Init, Bodies, Metas, Present
  <1>2. FilesOK
    BY <1>1, CacheAssumption DEF Init, FilesOK, InOrder, Versions
  <1>3. HandlersOK
    BY DEF Init, HandlersOK, HandlerOK
  <1>4. CountOK
    BY DEF Init, CountOK, AccountingAgrees, WithinLimit
  <1> QED
    BY <1>2, <1>3, <1>4 DEF CacheInv, Init

LEMMA CacheStep ==
    ASSUME CacheInv, [Next]_vars
    PROVE  CacheInv'
  <1>1. overtaken' \subseteq Requests
    BY DEF CacheInv, Next, Overtakes, vars
  <1> QED
    BY <1>1, Handled, FilesStep DEF CacheInv

LEMMA CacheInvariant == Spec => []CacheInv
  <1>1. CacheInv /\ [Next]_vars => CacheInv'
    BY CacheStep
  <1> QED
    BY <1>1, CacheInit, PTL DEF Spec

\* The files, the count, the handlers and the histories keep their types; the
\* modification times order the bodies on disk strictly.
THEOREM CacheTypeCorrect == Spec => []TypeOK
  <1>1. ASSUME CacheInv PROVE TypeOK
    <2>1. ASSUME NEW r \in Requests PROVE req[r] \in Request
      BY <1>1 DEF CacheInv, HandlersOK, HandlerOK, Handler, Response, Request
    <2>2. req \in [Requests -> Request]
      BY <1>1, <2>1 DEF CacheInv, HandlersOK
    <2> QED
      BY <1>1, <2>2 DEF CacheInv, FilesOK, Bodies, Metas, TypeOK
  <1> QED
    BY <1>1, CacheInvariant, PTL

\* The incremental count of maintain_capacity is the size of the bodies on
\* disk, whatever writes, evictions, purges and limits came before, unless a
\* write was cut short since the last count or that count found no directory.
THEOREM CountIsRight == Spec => []AccountingAgrees
  <1>1. CacheInv => AccountingAgrees
    BY DEF CacheInv, CountOK
  <1> QED
    BY <1>1, CacheInvariant, PTL

\* While the count is kept, the bodies on disk fit the limit it was made for,
\* unless a removal failed.
THEOREM LimitHolds == Spec => []WithinLimit
  <1>1. CacheInv => WithinLimit
    BY DEF CacheInv, CountOK
  <1> QED
    BY <1>1, CacheInvariant, PTL
-----------------------------------------------------------------------------
(* Eviction is least-recently-used.                                         *)

\* Only a replacement that evicts removes a body while the count is kept.
LEMMA EvictsOlder ==
    ASSUME CacheInv, NEW k \in Keys, NEW c \in Configs, NEW new \in Body, NEW m \in Meta,
           Replaces(k, c, new, m), "stuck" \notin drift',
           NEW x \in Keys, NEW y \in Keys, NEW z \in Keys,
           body[x] # None, body'[x] = None, body[y] # None, body'[y] # None, <<y, z>> \in older'
    PROVE  <<x, y>> \in older
  <1>b. PICK b : b = [body EXCEPT ![k] = new]
    OBVIOUS
  <1>n. PICK n : n = [meta EXCEPT ![k] = m]
    OBVIOUS
  <1>o. PICK o : o = Touch(k)
    OBVIOUS
  <1>p. PICK p : p = BytesOf(body[k])
    OBVIOUS
  <1>w. PICK w : w = SizeOf(new.version)
    OBVIOUS
  <1>0. body \in Bodies /\ older \subseteq Present(body) \X Present(body) /\ InOrder(older, Present(body))
    BY DEF CacheInv, FilesOK
  <1>1. b \in Bodies /\ b[x] # None /\ b[y] # None /\ Present(b) = Present(body) \cup {k}
    BY <1>0, <1>b, CacheAssumption DEF Bodies, Present
  <1>2. MaintainCapacity(k, c, b, n, o, p, w)
    BY <1>b, <1>n, <1>o, <1>p, <1>w DEF Replaces
  <1>3. PICK stuck, gone :
           /\ gone = Evicted(b, o, c.max, stuck) /\ body' = Without(b, gone)
           /\ older' = Forget(o, gone) /\ drift' = IF stuck = {} THEN {} ELSE {"stuck"}
    <2>1. body' # b
      BY <1>1
    <2> QED
      BY <1>2, <2>1 DEF MaintainCapacity
  <1>4. PICK max \in Nat : max = c.max
    BY CacheAssumption DEF Config
  <1>5. InOrder(o, Present(b))
    BY <1>0, <1>1, <1>o, TouchesInOrder
  <1>6. gone = Evicted(b, o, max, {})
    BY <1>3, <1>4
  <1>7. \A u \in gone, v \in Present(b) \ gone : <<u, v>> \in o
    BY <1>1, <1>5, <1>6, Evicts
  <1>8. x \in gone /\ y \in Present(b) \ gone
    BY <1>1, <1>3 DEF Without, Present
  <1>9. <<x, y>> \in o /\ <<y, z>> \in o
    BY <1>3, <1>7, <1>8 DEF Forget
  <1>10. x # k /\ y # k
    BY <1>0, <1>9, <1>o, TouchesInOrder
  <1>11. x \in Present(body) /\ y \in Present(body)
    BY DEF Present
  <1> QED
    BY <1>0, <1>9, <1>10, <1>11, <1>o, TouchesInOrder

\* evict_disk_cache removes the bodies that were modified or read longest ago:
\* a write that removes x keeps y only if x is the older, or y is the body
\* just written.
THEOREM EvictionIsLRU == Spec => EvictsOldest
  <1>1. ASSUME CacheInv, [Next]_vars, capacity' # None, "stuck" \notin drift',
               NEW x \in Keys, NEW y \in Keys, NEW z \in Keys,
               body[x] # None, body'[x] = None, body[y] # None, body'[y] # None, <<y, z>> \in older'
        PROVE  <<x, y>> \in older
    <2>0. FilesOK /\ HandlersOK
      BY <1>1 DEF CacheInv
    <2>1. ASSUME NEW r \in Requests, Write(r) PROVE <<x, y>> \in older
      BY <1>1, <2>0, <2>1, WhatIsWritten, EvictsOlder
    <2>2. ASSUME NEW r \in Requests, WriteTorn(r) PROVE FALSE
      <3>1. PICK k \in Keys, new \in Body :
              /\ k = req[r].key
              /\ new = [version |-> req[r].version, variant |-> req[r].variant]
        BY <2>0, <2>2, WhatIsWritten
      <3>2. body' = [body EXCEPT ![k] = new]
        BY <2>2, <3>1 DEF WriteTorn
      <3> QED
        BY <1>1, <2>0, <3>2, CacheAssumption DEF FilesOK, Bodies
    <2>3. body' # body /\ ~Purge
      BY <1>1 DEF Purge
    <2> QED
      BY <1>1, <2>1, <2>2, <2>3 DEF Next, Step, vars, files, Begin, Load, Answer, Fail, Disconnect,
         Refresh, PassOn, Finish, Expire, Publish, UpdateConfig, Crash
  <1>2. CacheInv /\ [Next]_vars =>
           (capacity' # None /\ "stuck" \notin drift' =>
             \A x, y \in Keys :
                /\ body[x] # None /\ body'[x] = None
                /\ body[y] # None /\ body'[y] # None /\ \E z \in Keys : <<y, z>> \in older'
                => <<x, y>> \in older)
    BY <1>1
  <1> QED
    BY <1>2, CacheInvariant, PTL DEF Spec, EvictsOldest

-----------------------------------------------------------------------------
(* The pairs of files.  A refresh writes back the metadata a handler has    *)
(* read, over whatever was written since (the run CacheStaleRefresh), so    *)
(* the invariant follows each handler from its load to its answer: what it  *)
(* holds agreed when it was read, and is still the body of its key unless   *)
(* the handler was overtaken.                                               *)

Agree(b, m) == b # None /\ m # None => b.version = m.version /\ b.variant = m.variant

Described(e, v) == e.odd \/ (e.body.version = e.meta.version /\ e.body.variant = v)

\* What handler q holds agreed when it was read; so does what it serves.
Consistent(q) ==
    /\ q.phase = "load" => q.cached = None
    /\ Holds(q) => Described(q.cached, q.variant) /\ q.cached.meta.variant = q.variant
    /\ q.phase = "served" => Described(q.response, q.variant)

\* What handler q holds is the body of its key, if that has one.
InPlace(q, b) == Holds(q) => b[q.key] \in {None, q.cached.body}

PairInv ==
    /\ CacheInv
    /\ \A k \in Keys \ (torn \cup crossed) : Agree(body[k], meta[k])
    /\ \A r \in Requests : Consistent(req[r])
    /\ \A r \in Requests \ overtaken : InPlace(req[r], body)

LEMMA ConsistentIdle == Consistent(Idle) /\ ~Holds(Idle)
  BY DEF Consistent, Idle, Holds

LEMMA ConsistentStep ==
    ASSUME PairInv, [Next]_vars
    PROVE  \A r \in Requests : Consistent(req'[r])
  <1>0. /\ FilesOK /\ HandlersOK /\ req = [r \in Requests |-> req[r]]
        /\ \A r \in Requests : Consistent(req[r])
        /\ \A k \in Keys \ (torn \cup crossed) : Agree(body[k], meta[k])
    BY DEF PairInv, CacheInv, HandlersOK
  <1>1. ASSUME NEW r \in Requests, NEW q, Consistent(q), req' = [req EXCEPT ![r] = q]
        PROVE  \A s \in Requests : Consistent(req'[s])
    <2>1. \A s \in Requests : req'[s] = q \/ req'[s] = req[s]
      BY <1>0, <1>1
    <2> QED
      BY <1>0, <1>1, <2>1
  <1>2. Consistent(Idle)
    BY ConsistentIdle
  <1>3. ASSUME NEW r \in Requests, NEW k \in Keys, NEW v \in Variants, NEW e \in ClientEtags, Begin(r, k, v, e)
        PROVE  \A s \in Requests : Consistent(req'[s])
    <2>q. PICK q : q = [phase |-> "load", key |-> k, variant |-> v, etag |-> e,
                        config |-> cfg, cached |-> None, status |-> None, version |-> None]
      OBVIOUS
    <2>1. req' = [req EXCEPT ![r] = q]
      BY <1>3, <2>q DEF Begin
    <2>2. Consistent(q)
      BY <2>q DEF Consistent, Holds
    <2> QED
      BY <1>1, <2>1, <2>2
  <1>4. ASSUME NEW r \in Requests, Load(r) PROVE \A s \in Requests : Consistent(req'[s])
    <2>q. PICK q : q = req[r]
      OBVIOUS
    <2>k. PICK k : k = q.key
      OBVIOUS
    <2>1. q.phase = "load" /\ q \in Handler /\ k \in Keys /\ q.variant \in Variants /\ Consistent(q)
      BY <1>0, <1>4, <2>q, <2>k, PhaseOf DEF Load, HandlersOK, HandlerOK, Handler
    <2>2. q.cached = None
      BY <2>1 DEF Consistent
    <2>3. CASE req' = [req EXCEPT ![r].phase = "send"]
      <3>1. PICK n : n = [q EXCEPT !.phase = "send"]
        OBVIOUS
      <3>2. n.cached = None /\ n.phase = "send"
        BY <2>1, <2>2, <3>1 DEF Handler
      <3>3. req' = [req EXCEPT ![r] = n]
        BY <1>0, <2>3, <2>q, <3>1
      <3>4. Consistent(n)
        BY <3>2 DEF Consistent, Holds
      <3> QED
        BY <1>1, <3>3, <3>4
    <2>4. CASE req' # [req EXCEPT ![r].phase = "send"]
      <3>e. PICK e : e = [body |-> body[k], meta |-> meta[k], odd |-> k \in torn \cup crossed]
        OBVIOUS
      <3>1. /\ body[k] # None /\ meta[k] # None /\ meta[k].variant = q.variant
            /\ req' = [req EXCEPT ![r] = IF meta[k].fresh THEN Served(q, e)
                                         ELSE [q EXCEPT !.phase = "send", !.cached = e]]
        BY <1>4, <2>q, <2>k, <2>4, <3>e DEF Load
      <3>2. e.body = body[k] /\ e.meta = meta[k] /\ e.odd = (k \in torn \cup crossed)
        BY <3>e, Zenon
      <3>3. Described(e, q.variant) /\ e.meta.variant = q.variant
        <4>1. CASE k \in torn \cup crossed
          BY <3>1, <3>2, <4>1, Zenon DEF Described
        <4>2. CASE k \notin torn \cup crossed
          <5>1. Agree(body[k], meta[k])
            BY <1>0, <2>1, <4>2
          <5>2. body[k].version = meta[k].version /\ body[k].variant = meta[k].variant
            BY <3>1, <5>1 DEF Agree
          <5> QED
            BY <3>1, <3>2, <5>2, Zenon DEF Described
        <4> QED
          BY <4>1, <4>2
      <3>s. PICK s : s = Served(q, e)
        OBVIOUS
      <3>4. s.phase = "served" /\ s.variant = q.variant /\ s.response = e
        BY <3>s DEF Served
      <3>5. Consistent(s)
        BY <3>3, <3>4 DEF Consistent, Holds
      <3>n. PICK n : n = [q EXCEPT !.phase = "send", !.cached = e]
        OBVIOUS
      <3>6. n.phase = "send" /\ n.cached = e /\ n.variant = q.variant
        BY <2>1, <3>n DEF Handler
      <3>7. Consistent(n)
        BY <3>3, <3>6 DEF Consistent, Holds
      <3>8. req' = [req EXCEPT ![r] = s] \/ req' = [req EXCEPT ![r] = n]
        BY <3>1, <3>s, <3>n
      <3> QED
        BY <1>1, <3>5, <3>7, <3>8
    <2> QED
      BY <2>3, <2>4
  <1>5. ASSUME NEW r \in Requests, Answer(r) PROVE \A s \in Requests : Consistent(req'[s])
    <2>q. PICK q : q = req[r]
      OBVIOUS
    <2>1. q.phase = "send" /\ q \in Handler /\ Consistent(q)
      BY <1>0, <1>5, <2>q, PhaseOf DEF Answer, HandlersOK, HandlerOK
    <2>2. PICK st : req' = [req EXCEPT ![r] = [q EXCEPT !.phase = "answered", !.version = upstream[q.key], !.status = st]]
      BY <1>5, <2>q DEF Answer
    <2>n. PICK n : n = [q EXCEPT !.phase = "answered", !.version = upstream[q.key], !.status = st]
      OBVIOUS
    <2>3. n.phase = "answered" /\ n.cached = q.cached /\ n.variant = q.variant
      BY <2>1, <2>n DEF Handler
    <2>4. Consistent(n)
      BY <2>1, <2>3 DEF Consistent, Holds
    <2> QED
      BY <1>1, <2>2, <2>4, <2>n
  <1>6. ASSUME NEW r \in Requests, Refresh(r) PROVE \A s \in Requests : Consistent(req'[s])
    <2>q. PICK q : q = req[r]
      OBVIOUS
    <2>1. q.phase = "answered" /\ q \in Handler /\ q.cached # None /\ Consistent(q)
      BY <1>0, <1>6, <2>q, PhaseOf DEF Refresh, HandlersOK, HandlerOK
    <2>2. q.cached \in Entry /\ q.cached.meta \in Meta
      BY <2>1 DEF Handler, Entry
    <2>3. Described(q.cached, q.variant)
      BY <2>1 DEF Consistent, Holds
    <2>m. PICK m : m = Refreshed(q)
      OBVIOUS
    <2>4. m.version = q.version
      BY <2>2, <2>m DEF Refreshed, Meta
    <2>o. PICK o : o = (q.cached.odd \/ Misled(q))
      OBVIOUS
    <2>e. PICK e : e = [q.cached EXCEPT !.meta = m, !.odd = o]
      OBVIOUS
    <2>5. e.body = q.cached.body /\ e.meta = m /\ e.odd = o
      BY <2>2, <2>e DEF Entry
    <2>6. Described(e, q.variant)
      <3>1. CASE q.cached.odd \/ Misled(q)
        <4>1. e.odd
          BY <2>5, <2>o, <3>1, Zenon
        <4> QED
          BY <4>1 DEF Described
      <3>2. CASE ~(q.cached.odd \/ Misled(q))
        <4>1. q.version = q.cached.meta.version
          BY <3>2 DEF Misled
        <4> QED
          BY <2>3, <2>4, <2>5, <3>2, <4>1 DEF Described
      <3> QED
        BY <3>1, <3>2
    <2>7. \A d : Served(q, d).phase = "served" /\ Served(q, d).variant = q.variant /\ Served(q, d).response = d
      BY DEF Served
    <2>8. \A d : Described(d, q.variant) => Consistent(Served(q, d))
      BY <2>7 DEF Consistent, Holds
    <2>9. req' = [req EXCEPT ![r] = Served(q, e)] \/ req' = [req EXCEPT ![r] = Served(q, q.cached)]
      BY <1>6, <2>q, <2>m, <2>o, <2>e, Zenon DEF Refresh
    <2> QED
      BY <1>1, <2>3, <2>6, <2>8, <2>9
  <1>7. ASSUME NEW r \in Requests,
               Fail(r) \/ Disconnect(r) \/ PassOn(r) \/ Write(r) \/ WriteTorn(r) \/ Finish(r)
        PROVE  \A s \in Requests : Consistent(req'[s])
    BY <1>1, <1>2, <1>7 DEF Fail, Disconnect, PassOn, Write, WriteTorn, Finish
  <1>8. CASE Crash
    BY <1>2, <1>8 DEF Crash
  <1>9. CASE UNCHANGED req
    BY <1>0, <1>9
  <1> QED
    BY <1>3, <1>4, <1>5, <1>6, <1>7, <1>8, <1>9 DEF Next, Step, Expire, Publish, Purge, UpdateConfig, vars

\* A handler that comes to hold an entry has just read it from the files; one
\* that held it before still holds the same.
LEMMA WhatIsHeld ==
    ASSUME FilesOK, HandlersOK, [Next]_vars, NEW r \in Requests, Consistent(req[r]), Holds(req'[r])
    PROVE  \/ /\ Holds(req[r]) /\ req'[r].key = req[r].key
              /\ req'[r].cached = req[r].cached
           \/ ~Holds(req[r]) /\ req'[r].cached.body = body[req'[r].key] /\ body' = body
  <1>0. req = [s \in Requests |-> req[s]]
    BY DEF HandlersOK
  <1>1. ASSUME NEW p \in Requests, NEW q, ~Holds(q), req' = [req EXCEPT ![p] = q]
        PROVE  req'[r] = req[r]
    <2>1. p # r
      BY <1>0, <1>1
    <2> QED
      BY <1>0, <1>1, <2>1
  <1>2. ASSUME NEW p \in Requests, NEW k \in Keys, NEW v \in Variants, NEW e \in ClientEtags, Begin(p, k, v, e)
        PROVE  req'[r] = req[r]
    <2>q. PICK q : q = [phase |-> "load", key |-> k, variant |-> v, etag |-> e,
                        config |-> cfg, cached |-> None, status |-> None, version |-> None]
      OBVIOUS
    <2>1. req' = [req EXCEPT ![p] = q] /\ ~Holds(q)
      BY <1>2, <2>q DEF Begin, Holds
    <2> QED
      BY <1>1, <2>1
  <1>3. ASSUME NEW p \in Requests, Load(p), p = r
        PROVE  ~Holds(req[r]) /\ req'[r].cached.body = body[req'[r].key] /\ body' = body
    <2>q. PICK q : q = req[r]
      OBVIOUS
    <2>k. PICK k : k = q.key
      OBVIOUS
    <2>1. q.phase = "load" /\ q \in Handler /\ body' = body
      BY <1>3, <2>q, PhaseOf DEF Load, HandlersOK, HandlerOK
    <2>2. ~Holds(req[r])
      BY <2>1, <2>q DEF Holds
    <2>3. CASE req' = [req EXCEPT ![r].phase = "send"]
      <3>1. PICK n : n = [q EXCEPT !.phase = "send"]
        OBVIOUS
      <3>2. n.cached = q.cached /\ req' = [req EXCEPT ![r] = n] /\ n.key = k
        BY <1>0, <2>1, <2>3, <2>q, <2>k, <3>1 DEF Handler
      <3>3. req'[r] = n /\ q.cached # None
        BY <1>0, <3>2 DEF Holds
      <3> QED
        BY <2>1, <2>q, <3>3 DEF Consistent
    <2>4. CASE req' # [req EXCEPT ![r].phase = "send"]
      <3>e. PICK e : e = [body |-> body[k], meta |-> meta[k], odd |-> k \in torn \cup crossed]
        OBVIOUS
      <3>1. req' = [req EXCEPT ![r] = IF meta[k].fresh THEN Served(q, e)
                                      ELSE [q EXCEPT !.phase = "send", !.cached = e]]
        BY <1>3, <2>q, <2>k, <2>4, <3>e DEF Load
      <3>2. ~Holds(Served(q, e))
        BY DEF Holds, Served
      <3>n. PICK n : n = [q EXCEPT !.phase = "send", !.cached = e]
        OBVIOUS
      <3>3. req'[r] = n
        BY <1>0, <3>1, <3>2, <3>n
      <3>4. n.cached = e /\ n.key = k
        BY <2>1, <2>k, <3>n DEF Handler
      <3>5. e.body = body[k]
        BY <3>e, Zenon
      <3> QED
        BY <2>1, <2>2, <3>3, <3>4, <3>5
    <2> QED
      BY <2>3, <2>4
  <1>4. ASSUME NEW p \in Requests, Answer(p), p = r
        PROVE  Holds(req[r]) /\ req'[r].key = req[r].key /\ req'[r].cached = req[r].cached
    <2>q. PICK q : q = req[r]
      OBVIOUS
    <2>1. q.phase = "send" /\ q \in Handler
      BY <1>4, <2>q, PhaseOf DEF Answer, HandlersOK, HandlerOK
    <2>2. PICK st : req' = [req EXCEPT ![r] = [q EXCEPT !.phase = "answered", !.version = upstream[q.key], !.status = st]]
      BY <1>4, <2>q DEF Answer
    <2>n. PICK n : n = [q EXCEPT !.phase = "answered", !.version = upstream[q.key], !.status = st]
      OBVIOUS
    <2>3. n.cached = q.cached /\ n.key = q.key
      BY <2>1, <2>n DEF Handler
    <2>4. req'[r] = n
      BY <1>0, <2>2, <2>n
    <2> QED
      BY <2>1, <2>3, <2>4, <2>q DEF Holds
  <1>5. ASSUME NEW p \in Requests, p # r, Load(p) \/ Answer(p) PROVE req'[r] = req[r]
    <2>1. \E q : req' = [req EXCEPT ![p] = q]
      <3>1. CASE Load(p)
        BY <1>0, <3>1, Zenon DEF Load
      <3>2. CASE Answer(p)
        BY <3>2, Zenon DEF Answer
      <3> QED
        BY <1>5, <3>1, <3>2
    <2> QED
      BY <1>0, <1>5, <2>1
  <1>6. ASSUME NEW p \in Requests, Refresh(p) PROVE req'[r] = req[r]
    <2>1. \A q, e : ~Holds(Served(q, e))
      BY DEF Holds, Served
    <2>2. PICK q, e : req' = [req EXCEPT ![p] = Served(q, e)]
      <3>1. \/ req' = [req EXCEPT ![p] = Served(req[p], [req[p].cached EXCEPT !.meta = Refreshed(req[p]), !.odd = @ \/ Misled(req[p])])]
            \/ req' = [req EXCEPT ![p] = Served(req[p], req[p].cached)]
        BY <1>6, Zenon DEF Refresh
      <3> QED
        BY <3>1, Zenon
    <2> QED
      BY <1>1, <2>1, <2>2
  <1>7. ASSUME NEW p \in Requests,
               Fail(p) \/ Disconnect(p) \/ PassOn(p) \/ Write(p) \/ WriteTorn(p) \/ Finish(p)
        PROVE  req'[r] = req[r]
    <2>1. req' = [req EXCEPT ![p] = Idle]
      BY <1>7 DEF Fail, Disconnect, PassOn, Write, WriteTorn, Finish
    <2>2. ~Holds(Idle)
      BY ConsistentIdle
    <2> QED
      BY <1>1, <2>1, <2>2
  <1>8. CASE Crash
    BY <1>8, ConsistentIdle DEF Crash
  <1>9. CASE UNCHANGED req
    BY <1>9
  <1>10. CASE req'[r] = req[r]
    BY <1>10
  <1> QED
    BY <1>2, <1>3, <1>4, <1>5, <1>6, <1>7, <1>8, <1>9, <1>10
       DEF Next, Step, Expire, Publish, Purge, UpdateConfig, vars

LEMMA InPlaceStep ==
    ASSUME PairInv, [Next]_vars
    PROVE  \A r \in Requests \ overtaken' : InPlace(req'[r], body')
  <1>0. /\ FilesOK /\ HandlersOK /\ \A r \in Requests : Consistent(req[r])
        /\ \A r \in Requests \ overtaken : InPlace(req[r], body)
    BY DEF PairInv, CacheInv
  <1>1. SUFFICES ASSUME NEW r \in Requests, r \notin overtaken', Holds(req'[r])
                 PROVE  body'[req'[r].key] \in {None, req'[r].cached.body}
    BY DEF InPlace
  <1>2. CASE UNCHANGED vars
    BY <1>0, <1>1, <1>2 DEF vars, InPlace
  <1>3. CASE Next
    <2>1. r \notin overtaken /\ (Holds(req[r]) => body'[req[r].key] \in {None, body[req[r].key]})
      BY <1>1, <1>3 DEF Next, Overtakes
    <2>2. CASE /\ Holds(req[r]) /\ req'[r].key = req[r].key
               /\ req'[r].cached = req[r].cached
      BY <1>0, <2>1, <2>2 DEF InPlace
    <2>3. CASE req'[r].cached.body = body[req'[r].key] /\ body' = body
      BY <2>3
    <2> QED
      BY <1>0, <1>1, <1>3, <2>2, <2>3, WhatIsHeld
  <1> QED
    BY <1>2, <1>3

LEMMA PairsStep ==
    ASSUME PairInv, [Next]_vars
    PROVE  \A k \in Keys \ (torn' \cup crossed') : Agree(body'[k], meta'[k])
  <1>0. /\ FilesOK /\ HandlersOK /\ body \in Bodies /\ meta \in Metas
        /\ torn \subseteq Keys /\ crossed \subseteq Keys
        /\ \A j \in Keys \ (torn \cup crossed) : Agree(body[j], meta[j])
    BY DEF PairInv, CacheInv, FilesOK
  <1>2. \A m : Agree(None, m)
    BY DEF Agree
  <1>3. ASSUME NEW r \in Requests, Write(r)
        PROVE  \A j \in Keys \ (torn' \cup crossed') : Agree(body'[j], meta'[j])
    <2>1. PICK k \in Keys, c \in Configs, new \in Body, m \in Meta :
            /\ new = [version |-> req[r].version, variant |-> req[r].variant]
            /\ m = [version |-> req[r].version, variant |-> req[r].variant, fresh |-> TRUE]
            /\ Replaces(k, c, new, m)
      BY <1>0, <1>3, WhatIsWritten
    <2>b. PICK b : b = [body EXCEPT ![k] = new]
      OBVIOUS
    <2>n. PICK n : n = [meta EXCEPT ![k] = m]
      OBVIOUS
    <2>2. Agree(new, m)
      BY <2>1 DEF Agree
    <2>3. \A j \in Keys : j \notin torn \cup crossed \/ j = k => Agree(b[j], n[j])
      BY <1>0, <2>2, <2>b, <2>n DEF Bodies, Metas
    <2>4. \/ body' = b /\ meta' = n /\ torn' = torn \ {k} /\ crossed' = crossed \ {k}
          \/ \E gone : /\ body' = Without(b, gone)
                       /\ torn' = torn \ (gone \cup {k}) /\ crossed' = crossed \ (gone \cup {k})
                       /\ \E left \in SUBSET gone : meta' = Without(n, gone \ left)
      <3>o. PICK o : o = Touch(k)
        OBVIOUS
      <3>p. PICK p : p = BytesOf(body[k])
        OBVIOUS
      <3>w. PICK w : w = SizeOf(new.version)
        OBVIOUS
      <3>1. MaintainCapacity(k, c, b, n, o, p, w)
        BY <2>1, <2>b, <2>n, <3>o, <3>p, <3>w, Zenon DEF Replaces
      <3>2. PICK elapsed \in BOOLEAN :
                \/ body' = b /\ meta' = n /\ torn' = torn \ {k} /\ crossed' = crossed \ {k}
                \/ \E stuck \in SUBSET Present(b) :
                      /\ body' = Without(b, Evicted(b, o, c.max, stuck))
                      /\ \E left \in SUBSET Evicted(b, o, c.max, stuck) :
                            meta' = Without(n, Evicted(b, o, c.max, stuck) \ left)
                      /\ torn' = torn \ (Evicted(b, o, c.max, stuck) \cup {k})
                      /\ crossed' = crossed \ (Evicted(b, o, c.max, stuck) \cup {k})
        BY <3>1, Zenon DEF MaintainCapacity
      <3> QED
        BY <3>2, Zenon
    <2>5. CASE body' = b /\ meta' = n /\ torn' = torn \ {k} /\ crossed' = crossed \ {k}
      BY <2>3, <2>5
    <2>6. ASSUME NEW gone, NEW left \in SUBSET gone,
                 body' = Without(b, gone), torn' = torn \ (gone \cup {k}),
                 crossed' = crossed \ (gone \cup {k}), meta' = Without(n, gone \ left)
          PROVE  \A j \in Keys \ (torn' \cup crossed') : Agree(body'[j], meta'[j])
      <3>1. ASSUME NEW j \in Keys \ (torn' \cup crossed') PROVE Agree(body'[j], meta'[j])
        <4>1. CASE j \in gone
          <5>1. body'[j] = None
            BY <2>6, <4>1 DEF Without
          <5> QED
            BY <1>2, <5>1
        <4>2. CASE j \notin gone
          <5>1. body'[j] = b[j] /\ meta'[j] = n[j] /\ (j \notin torn \cup crossed \/ j = k)
            BY <2>6, <4>2 DEF Without
          <5> QED
            BY <2>3, <5>1
        <4> QED
          BY <4>1, <4>2
      <3> QED
        BY <3>1
    <2> QED
      BY <2>4, <2>5, <2>6
  <1>4. ASSUME NEW r \in Requests, WriteTorn(r)
        PROVE  \A j \in Keys \ (torn' \cup crossed') : Agree(body'[j], meta'[j])
    <2>1. PICK k : k = req[r].key
      OBVIOUS
    <2>2. /\ torn' = torn \cup {k} /\ crossed' = crossed /\ meta' = meta
          /\ \A j \in Keys : j # k => body'[j] = body[j]
      BY <1>0, <1>4, <2>1 DEF WriteTorn, Bodies
    <2> QED
      BY <1>0, <2>2
  <1>5. ASSUME NEW k \in Keys, Expire(k)
        PROVE  \A j \in Keys \ (torn' \cup crossed') : Agree(body'[j], meta'[j])
    <2>1. meta[k] \in Meta
      BY <1>0, <1>5 DEF Metas, Expire
    <2>m. PICK m : m = [meta[k] EXCEPT !.fresh = FALSE]
      OBVIOUS
    <2>2. m.version = meta[k].version /\ m.variant = meta[k].variant
      BY <2>1, <2>m DEF Meta
    <2>3. meta' = [meta EXCEPT ![k] = m] /\ body' = body /\ torn' = torn /\ crossed' = crossed
      BY <1>5, <2>m DEF Expire
    <2>4. \A j \in Keys : meta'[j] = IF j = k THEN m ELSE meta[j]
      BY <1>0, <2>3 DEF Metas
    <2>5. Agree(body[k], meta[k]) => Agree(body[k], m)
      BY <2>1, <2>2, CacheAssumption DEF Agree
    <2> QED
      BY <1>0, <2>3, <2>4, <2>5
  <1>6. ASSUME Purge PROVE \A j \in Keys \ (torn' \cup crossed') : Agree(body'[j], meta'[j])
    <2>1. PICK bs \in SUBSET Present(body), ms \in SUBSET Present(meta) :
            /\ body' = Without(body, bs) /\ meta' = Without(meta, ms)
            /\ torn' = torn \ bs /\ crossed' = crossed \ bs
      BY <1>6 DEF Purge
    <2>2. ASSUME NEW j \in Keys \ (torn' \cup crossed') PROVE Agree(body'[j], meta'[j])
      <3>1. CASE j \in bs \/ j \in ms
        BY <2>1, <3>1 DEF Without, Agree
      <3>2. CASE ~(j \in bs \/ j \in ms)
        <4>1. body'[j] = body[j] /\ meta'[j] = meta[j] /\ j \notin torn \cup crossed
          BY <2>1, <3>2 DEF Without
        <4> QED
          BY <1>0, <4>1
      <3> QED
        BY <3>1, <3>2
    <2> QED
      BY <2>2
  <1>7. ASSUME NEW r \in Requests, Refresh(r)
        PROVE  \A j \in Keys \ (torn' \cup crossed') : Agree(body'[j], meta'[j])
    <2>q. PICK q : q = req[r]
      OBVIOUS
    <2>k. PICK k : k = q.key
      OBVIOUS
    <2>1. /\ q.phase = "answered" /\ q \in Handler /\ q.cached # None /\ k \in Keys
          /\ body' = body /\ torn' = torn /\ q.version \in Versions
      BY <1>0, <1>7, <2>q, <2>k, PhaseOf DEF Refresh, HandlersOK, HandlerOK, Handler
    <2>2. CASE meta' = meta /\ crossed' = crossed
      BY <1>0, <2>1, <2>2
    <2>3. CASE k \in torn' \cup crossed' /\ meta' = [meta EXCEPT ![k] = Refreshed(q)] /\ crossed \subseteq crossed'
      <3>1. \A j \in Keys : j # k => meta'[j] = meta[j]
        BY <1>0, <2>3 DEF Metas
      <3> QED
        BY <1>0, <2>1, <2>3, <3>1
    <2>4. CASE /\ meta' = [meta EXCEPT ![k] = Refreshed(q)] /\ crossed' = crossed
               /\ r \notin overtaken /\ ~q.cached.odd /\ ~Misled(q)
      <3>1. Holds(q) /\ Consistent(q) /\ InPlace(q, body)
        BY <2>1, <2>4, <2>q DEF Holds, PairInv
      <3>2. body[k] \in {None, q.cached.body}
        BY <2>k, <3>1 DEF InPlace
      <3>3. /\ q.cached.body.version = q.cached.meta.version
            /\ q.cached.body.variant = q.variant /\ q.cached.meta.variant = q.variant
        BY <2>4, <3>1 DEF Consistent, Described
      <3>4. q.cached.meta \in Meta
        BY <2>1 DEF Handler, Entry
      <3>m. PICK m : m = Refreshed(q)
        OBVIOUS
      <3>5. m.version = q.version /\ m.variant = q.cached.meta.variant
        BY <3>4, <3>m DEF Refreshed, Meta
      <3>6. Agree(body[k], m)
        BY <2>4, <3>2, <3>3, <3>5 DEF Agree, Misled
      <3>7. \A j \in Keys : meta'[j] = IF j = k THEN m ELSE meta[j]
        BY <1>0, <2>4, <3>m DEF Metas
      <3> QED
        BY <1>0, <2>1, <2>4, <3>6, <3>7
    <2> QED
      BY <1>7, <2>1, <2>2, <2>3, <2>4, <2>q, <2>k DEF Refresh
  <1>8. ASSUME UNCHANGED <<body, meta, torn, crossed>>
        PROVE  \A j \in Keys \ (torn' \cup crossed') : Agree(body'[j], meta'[j])
    BY <1>0, <1>8
  <1> QED
    BY <1>3, <1>4, <1>5, <1>6, <1>7, <1>8 DEF Next, Step, vars, files, Begin, Load, Answer, Fail, Disconnect,
       PassOn, Finish, Publish, UpdateConfig, Crash

LEMMA PairInvariant == Spec => []PairInv
  <1>1. ASSUME Init PROVE PairInv
    <2>1. \A r \in Requests : req[r] = Idle
      BY <1>1 DEF Init
    <2>2. \A k \in Keys : Agree(body[k], meta[k])
      BY <1>1 DEF Init, Agree
    <2> QED
      BY <1>1, <2>1, <2>2, CacheInit, ConsistentIdle DEF PairInv, InPlace
  <1>2. ASSUME PairInv, [Next]_vars PROVE PairInv'
    <2>1. CacheInv'
      BY <1>2, CacheStep DEF PairInv
    <2> QED
      BY <1>2, <2>1, PairsStep, ConsistentStep, InPlaceStep DEF PairInv
  <1> QED
    BY <1>1, <1>2, PTL DEF Spec

\* An entry's .body and .json describe one response, through interleaved
\* requests, 304 answers, evictions and purges that leave either file behind,
\* unless a write was cut short between the two renames of write_disk_cache or
\* refresh_cache_metadata wrote back metadata that was not read with this body.
THEOREM FilesDescribeOneResponse == Spec => []PairsAgreeUnlessCrossed
  <1>1. PairInv => PairsAgreeUnlessCrossed
    BY DEF PairInv, PairsAgreeUnlessCrossed, Agree
  <1> QED
    BY <1>1, PairInvariant, PTL

\* What forward_request serves from the cache, fresh or revalidated, carries
\* the body that its metadata describes, of the variant the client asked for,
\* whatever happens to the files during the round trip, unless the entry was
\* odd when it was loaded or the 304 answered a validator of the client's own.
THEOREM ServedAsDescribed == Spec => []ResponseConsistent
  <1>1. PairInv => ResponseConsistent
    BY Zenon DEF PairInv, Consistent, Described, ResponseConsistent
  <1> QED
    BY <1>1, PairInvariant, PTL
=============================================================================
