------------------------------ MODULE SumProofs ------------------------------
(***************************************************************************)
(* Facts about the sum of a function over a finite set (SumFunctionOnSet), *)
(* which the models use for bytes on disk and for parts delivered: the sum *)
(* of nothing, the sum without one element, and what changing the function *)
(* at one element does.  The sum is a recursive function over the subsets; *)
(* it exists by induction on their size, and does not depend on the order  *)
(* by induction on the subsets.                                            *)
(***************************************************************************)
EXTENDS Integers, FiniteSets, Functions, FiniteSetTheorems, TLAPS

AnElement(s) == CHOOSE x \in s : TRUE

\* g sums f over the sets in D.
Adds(g, f, D) == g = [s \in D |-> IF s = {} THEN 0 ELSE f[AnElement(s)] + g[s \ {AnElement(s)}]]

-----------------------------------------------------------------------------
(* Two forms of induction, stated with sets.                                *)

LEMMA NatSets ==
    ASSUME NEW S \in SUBSET Nat, 0 \in S, \A n \in S : n + 1 \in S
    PROVE  S = Nat
  <1>1. SUFFICES ASSUME S # Nat PROVE FALSE
    OBVIOUS
  <1> DEFINE T == Nat \ S
  <1>2. T # {} /\ T \subseteq Nat
    BY <1>1
  <1>3. PICK R : R = OpToRel(<, Nat)
    OBVIOUS
  <1>4. IsWellFoundedOn(R, Nat)
    BY <1>3, NatLessThanWellFounded
  <1>5. PICK x \in T : \A y \in T : ~(<<y, x>> \in R)
    BY <1>2, <1>4, WFMin
  <1>6. x - 1 \in T
    BY <1>5
  <1>7. <<x - 1, x>> \in R
    BY <1>3, <1>5, <1>6 DEF OpToRel
  <1> QED
    BY <1>5, <1>6, <1>7

LEMMA SubsetInduction ==
    ASSUME NEW S, IsFiniteSet(S), NEW G \in SUBSET SUBSET S, {} \in G,
           \A T \in SUBSET S : (T # {} /\ \A x \in T : T \ {x} \in G) => T \in G
    PROVE  G = SUBSET S
  <1> DEFINE N == {n \in Nat : \A T \in SUBSET S : Cardinality(T) = n => T \in G}
  <1>1. \A T \in SUBSET S : IsFiniteSet(T) /\ Cardinality(T) \in Nat
    BY FS_Subset, FS_CardinalityType
  <1>2. 0 \in N
    BY <1>1, FS_EmptySet
  <1>3. ASSUME NEW n \in N PROVE n + 1 \in N
    <2>1. n \in Nat
      OBVIOUS
    <2>2. ASSUME NEW T \in SUBSET S, Cardinality(T) = n + 1 PROVE T \in G
      <3>1. T # {}
        BY <2>1, <2>2, FS_EmptySet
      <3>2. ASSUME NEW x \in T PROVE T \ {x} \in G
        <4>1. Cardinality(T \ {x}) = Cardinality(T) - 1
          BY <1>1, FS_RemoveElement
        <4>2. Cardinality(T \ {x}) = n
          BY <2>1, <2>2, <4>1
        <4>3. T \ {x} \in SUBSET S
          OBVIOUS
        <4> QED
          BY <4>2, <4>3
      <3> QED
        BY <3>1, <3>2
    <2> QED
      BY <2>1, <2>2
  <1>4. N = Nat
    <2> HIDE DEF N
    <2>1. N \in SUBSET Nat
      BY DEF N
    <2> QED
      BY <1>2, <1>3, <2>1, NatSets
  <1> QED
    BY <1>1, <1>4

-----------------------------------------------------------------------------
(* The sum exists, and is the only function that adds up.                   *)

LEMMA AnyElement == ASSUME NEW s, s # {} PROVE AnElement(s) \in s
  BY DEF AnElement

LEMMA SumExists ==
    ASSUME NEW S, IsFiniteSet(S), NEW f
    PROVE  \E g : Adds(g, f, SUBSET S)
  <1> DEFINE Level(n) == {s \in SUBSET S : Cardinality(s) <= n}
             N == {n \in Nat : \E g : Adds(g, f, Level(n))}
  <1>1. \A T \in SUBSET S : IsFiniteSet(T) /\ Cardinality(T) \in Nat /\ Cardinality(T) <= Cardinality(S)
    BY FS_Subset, FS_CardinalityType
  <1>2. 0 \in N
    <2>1. \A s \in Level(0) : s = {}
      BY <1>1, FS_EmptySet
    <2>g. PICK g : g = [s \in Level(0) |-> 0]
      OBVIOUS
    <2>2. Adds(g, f, Level(0))
      BY <2>1, <2>g DEF Adds
    <2> QED
      BY <2>2
  <1>3. ASSUME NEW n \in N PROVE n + 1 \in N
    <2>0. n \in Nat /\ \E g : Adds(g, f, Level(n))
      OBVIOUS
    <2>g. PICK g : Adds(g, f, Level(n))
      BY <2>0
    <2>h. PICK h : h = [s \in Level(n + 1) |-> IF s = {} THEN 0 ELSE f[AnElement(s)] + g[s \ {AnElement(s)}]]
      OBVIOUS
    <2>1. ASSUME NEW s \in Level(n) PROVE s \in Level(n + 1) /\ h[s] = g[s]
      <3>1. s \in Level(n + 1)
        BY <1>1, <2>0
      <3>2. h[s] = IF s = {} THEN 0 ELSE f[AnElement(s)] + g[s \ {AnElement(s)}]
        BY <2>h, <3>1
      <3>3. g[s] = IF s = {} THEN 0 ELSE f[AnElement(s)] + g[s \ {AnElement(s)}]
        BY <2>g DEF Adds
      <3> QED
        BY <3>1, <3>2, <3>3
    <2>2. ASSUME NEW s \in Level(n + 1), s # {} PROVE s \ {AnElement(s)} \in Level(n)
      <3>1. AnElement(s) \in s
        BY <2>2, AnyElement
      <3>2. Cardinality(s \ {AnElement(s)}) = Cardinality(s) - 1
        BY <1>1, <3>1, FS_RemoveElement
      <3> QED
        BY <1>1, <2>0, <3>2
    <2> HIDE DEF Level
    <2>3. \A s \in Level(n + 1) : s # {} => h[s \ {AnElement(s)}] = g[s \ {AnElement(s)}]
      BY <2>1, <2>2
    <2>4. Adds(h, f, Level(n + 1))
      BY <2>h, <2>3 DEF Adds
    <2> QED
      BY <2>0, <2>4
  <1>4. N = Nat
    <2> HIDE DEF N
    <2>1. N \in SUBSET Nat
      BY DEF N
    <2> QED
      BY <1>2, <1>3, <2>1, NatSets
  <1>5. Cardinality(S) \in N /\ Level(Cardinality(S)) = SUBSET S
    BY <1>1, <1>4
  <1> QED
    BY <1>5

LEMMA SumUnique ==
    ASSUME NEW S, IsFiniteSet(S), NEW T \in SUBSET S, NEW f, NEW g, NEW h,
           Adds(g, f, SUBSET S), Adds(h, f, SUBSET T)
    PROVE  \A U \in SUBSET T : g[U] = h[U]
  <1> DEFINE G == {U \in SUBSET T : g[U] = h[U]}
  <1>0. IsFiniteSet(T)
    BY FS_Subset
  <1>1. ASSUME NEW U \in SUBSET T
        PROVE  /\ g[U] = IF U = {} THEN 0 ELSE f[AnElement(U)] + g[U \ {AnElement(U)}]
               /\ h[U] = IF U = {} THEN 0 ELSE f[AnElement(U)] + h[U \ {AnElement(U)}]
    <2>1. U \in SUBSET S
      OBVIOUS
    <2> QED
      BY <2>1 DEF Adds
  <1>2. {} \in G
    <2>1. g[{}] = 0 /\ h[{}] = 0
      BY <1>1
    <2> QED
      BY <2>1
  <1>3. ASSUME NEW U \in SUBSET T, U # {}, \A x \in U : U \ {x} \in G PROVE U \in G
    <2>1. g[U \ {AnElement(U)}] = h[U \ {AnElement(U)}]
      BY <1>3, AnyElement
    <2> QED
      BY <1>1, <1>3, <2>1
  <1>4. G = SUBSET T
    <2> HIDE DEF G
    <2>1. G \in SUBSET SUBSET T
      BY DEF G
    <2> QED
      BY <1>0, <1>2, <1>3, <2>1, SubsetInduction
  <1> QED
    BY <1>4

LEMMA SumIsSum ==
    ASSUME NEW S, NEW f, NEW g, IsFiniteSet(S), Adds(g, f, SUBSET S)
    PROVE  \A T \in SUBSET S : SumFunctionOnSet(f, T) = g[T]
  <1> TAKE T \in SUBSET S
  <1> DEFINE P(it) == it = [s \in SUBSET T |-> IF s = {} THEN 0
                              ELSE f[CHOOSE x \in s : TRUE] + it[s \ {CHOOSE x \in s : TRUE}]]
  <1>0. IsFiniteSet(T)
    BY FS_Subset
  <1>1. SumFunctionOnSet(f, T) = (CHOOSE it : P(it))[T]
    BY Zenon DEF SumFunctionOnSet, FoldFunctionOnSet, MapThenFoldSet
  <1>2. \E it : P(it)
    <2>1. PICK h : Adds(h, f, SUBSET T)
      BY <1>0, SumExists
    <2>2. P(h)
      BY <2>1, Zenon DEF Adds, AnElement
    <2> QED
      BY <2>2, Zenon
  <1>3. PICK h : h = CHOOSE it : P(it)
    OBVIOUS
  <1>4. P(h)
    BY <1>2, <1>3, Zenon
  <1>5. Adds(h, f, SUBSET T)
    BY <1>4, Zenon DEF Adds, AnElement
  <1>6. g[T] = h[T]
    BY <1>5, SumUnique
  <1> QED
    BY <1>1, <1>3, <1>6, Zenon

-----------------------------------------------------------------------------
(* What the sum is.                                                         *)

LEMMA SumOfNothing == ASSUME NEW f PROVE SumFunctionOnSet(f, {}) = 0
  <1>1. IsFiniteSet({})
    BY FS_EmptySet
  <1>2. PICK g : Adds(g, f, SUBSET {})
    BY <1>1, SumExists
  <1>3. SumFunctionOnSet(f, {}) = g[{}]
    BY <1>1, <1>2, SumIsSum
  <1>4. g[{}] = 0
    BY <1>2 DEF Adds
  <1> QED
    BY <1>3, <1>4

\* The order does not matter.
LEMMA SumWithout ==
    ASSUME NEW S, IsFiniteSet(S), NEW f, \A x \in S : f[x] \in Nat
    PROVE  /\ SumFunctionOnSet(f, S) \in Nat
           /\ \A y \in S : SumFunctionOnSet(f, S) = f[y] + SumFunctionOnSet(f, S \ {y})
  <1>g. PICK g : Adds(g, f, SUBSET S)
    BY SumExists
  <1> DEFINE G == {T \in SUBSET S : /\ g[T] \in Nat
                                    /\ \A y \in T : g[T] = f[y] + g[T \ {y}] /\ g[T \ {y}] \in Nat}
  <1>1. \A T \in SUBSET S : g[T] = IF T = {} THEN 0 ELSE f[AnElement(T)] + g[T \ {AnElement(T)}]
    BY <1>g DEF Adds
  <1>2. {} \in G
    BY <1>1
  <1>3. ASSUME NEW T \in SUBSET S, T # {}, \A x \in T : T \ {x} \in G PROVE T \in G
    <2>x. PICK x : x = AnElement(T)
      OBVIOUS
    <2>1. x \in T /\ x \in S /\ g[T] = f[x] + g[T \ {x}] /\ f[x] \in Nat
      BY <1>1, <1>3, <2>x, AnyElement
    <2>2. g[T \ {x}] \in Nat
      BY <1>3, <2>1
    <2>3. g[T] \in Nat
      BY <2>1, <2>2
    <2>4. ASSUME NEW y \in T PROVE g[T] = f[y] + g[T \ {y}] /\ g[T \ {y}] \in Nat
      <3>1. CASE y = x
        BY <2>1, <2>2, <3>1
      <3>2. CASE y # x
        <4>1. T \ {x} \in G /\ y \in T \ {x} /\ T \ {y} \in G /\ x \in T \ {y}
          BY <1>3, <2>1, <3>2
        <4>2. g[T \ {x}] = f[y] + g[(T \ {x}) \ {y}] /\ g[(T \ {x}) \ {y}] \in Nat
          BY <4>1
        <4>3. g[T \ {y}] = f[x] + g[(T \ {y}) \ {x}] /\ g[T \ {y}] \in Nat
          BY <4>1
        <4>4. (T \ {x}) \ {y} = (T \ {y}) \ {x}
          OBVIOUS
        <4>5. f[y] \in Nat
          OBVIOUS
        <4> QED
          BY <2>1, <4>2, <4>3, <4>4, <4>5
      <3> QED
        BY <3>1, <3>2
    <2> QED
      BY <2>3, <2>4
  <1>4. G = SUBSET S
    <2> HIDE DEF G
    <2>1. G \in SUBSET SUBSET S
      BY DEF G
    <2> QED
      BY <1>2, <1>3, <2>1, SubsetInduction
  <1>5. S \in G
    BY <1>4
  <1>6. SumFunctionOnSet(f, S) = g[S] /\ \A y \in S : SumFunctionOnSet(f, S \ {y}) = g[S \ {y}]
    BY <1>g, SumIsSum
  <1> QED
    BY <1>5, <1>6

\* Only the elements of the set count.
LEMMA SumAgrees ==
    ASSUME NEW S, IsFiniteSet(S), NEW e, NEW f, \A x \in S : e[x] = f[x]
    PROVE  SumFunctionOnSet(e, S) = SumFunctionOnSet(f, S)
  <1>g. PICK g : Adds(g, f, SUBSET S)
    BY SumExists
  <1>1. \A s \in SUBSET S : s # {} => e[AnElement(s)] = f[AnElement(s)]
    BY AnyElement
  <1>2. Adds(g, e, SUBSET S)
    BY <1>g, <1>1 DEF Adds
  <1> QED
    BY <1>g, <1>2, SumIsSum

\* f changes at one element.
LEMMA SumChanges ==
    ASSUME NEW S, IsFiniteSet(S), NEW e, NEW f, NEW k \in S,
           \A x \in S : e[x] \in Nat /\ f[x] \in Nat,
           \A x \in S : x # k => e[x] = f[x]
    PROVE  SumFunctionOnSet(f, S) + e[k] = SumFunctionOnSet(e, S) + f[k]
  <1>1. IsFiniteSet(S \ {k}) /\ \A x \in S \ {k} : e[x] = f[x]
    BY FS_RemoveElement
  <1>2. SumFunctionOnSet(e, S \ {k}) = SumFunctionOnSet(f, S \ {k})
    BY <1>1, SumAgrees
  <1>3. /\ SumFunctionOnSet(e, S) = e[k] + SumFunctionOnSet(e, S \ {k})
        /\ SumFunctionOnSet(f, S) = f[k] + SumFunctionOnSet(f, S \ {k})
    BY SumWithout
  <1>4. SumFunctionOnSet(f, S \ {k}) \in Nat
    BY <1>1, SumWithout
  <1> QED
    BY <1>2, <1>3, <1>4

LEMMA SumOfZeros ==
    ASSUME NEW S, IsFiniteSet(S), NEW f, \A x \in S : f[x] = 0
    PROVE  SumFunctionOnSet(f, S) = 0
  <1> DEFINE G == {T \in SUBSET S : SumFunctionOnSet(f, T) = 0}
  <1>1. {} \in G
    BY SumOfNothing
  <1>2. ASSUME NEW T \in SUBSET S, T # {}, \A x \in T : T \ {x} \in G PROVE T \in G
    <2>1. PICK x : x \in T
      BY <1>2
    <2>2. IsFiniteSet(T) /\ f[x] = 0 /\ \A y \in T : f[y] \in Nat
      BY <2>1, FS_Subset
    <2>3. SumFunctionOnSet(f, T) = f[x] + SumFunctionOnSet(f, T \ {x})
      BY <2>1, <2>2, SumWithout
    <2> QED
      BY <1>2, <2>1, <2>2, <2>3
  <1>3. G = SUBSET S
    <2> HIDE DEF G
    <2>1. G \in SUBSET SUBSET S
      BY DEF G
    <2> QED
      BY <1>1, <1>2, <2>1, SubsetInduction
  <1> QED
    BY <1>3

\* What is smaller everywhere has the smaller sum.
LEMMA SumMonotone ==
    ASSUME NEW S, IsFiniteSet(S), NEW e, NEW f,
           \A x \in S : e[x] \in Nat /\ f[x] \in Nat /\ e[x] <= f[x]
    PROVE  SumFunctionOnSet(e, S) <= SumFunctionOnSet(f, S)
  <1> DEFINE G == {T \in SUBSET S : SumFunctionOnSet(e, T) <= SumFunctionOnSet(f, T)}
  <1>1. {} \in G
    BY SumOfNothing
  <1>2. ASSUME NEW T \in SUBSET S, T # {}, \A x \in T : T \ {x} \in G PROVE T \in G
    <2>1. PICK x : x \in T
      BY <1>2
    <2>2. IsFiniteSet(T) /\ IsFiniteSet(T \ {x})
      BY FS_Subset, FS_RemoveElement
    <2>3. /\ SumFunctionOnSet(e, T) = e[x] + SumFunctionOnSet(e, T \ {x})
          /\ SumFunctionOnSet(f, T) = f[x] + SumFunctionOnSet(f, T \ {x})
      BY <2>1, <2>2, SumWithout
    <2>4. SumFunctionOnSet(e, T \ {x}) \in Nat /\ SumFunctionOnSet(f, T \ {x}) \in Nat
      BY <2>2, SumWithout
    <2>5. SumFunctionOnSet(e, T \ {x}) <= SumFunctionOnSet(f, T \ {x}) /\ e[x] \in Nat /\ f[x] \in Nat /\ e[x] <= f[x]
      BY <1>2, <2>1
    <2> QED
      BY <2>3, <2>4, <2>5
  <1>3. G = SUBSET S
    <2> HIDE DEF G
    <2>1. G \in SUBSET SUBSET S
      BY DEF G
    <2> QED
      BY <1>1, <1>2, <2>1, SubsetInduction
  <1> QED
    BY <1>3
=============================================================================
