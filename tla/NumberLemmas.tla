----------------------------- MODULE NumberLemmas -----------------------------
(* Facts about numbers that the proofs of several components rest on: sums    *)
(* over finite sets, greatest and least elements, division that rounds down.  *)
(* Induction over a finite set takes a smallest counterexample.               *)
EXTENDS Integers, FiniteSetsExt, FiniteSetTheorems, TLAPS

Picked(s) == CHOOSE x \in s : TRUE

(* g adds f up over every subset of S, one picked element at a time.          *)
AddsUp(g, f, S) == g = [s \in SUBSET S |-> IF s = {} THEN 0 ELSE f[Picked(s)] + g[s \ {Picked(s)}]]

LEMMA SumIsAddedUp == ASSUME NEW f, NEW S
                      PROVE  SumFunctionOnSet(f, S) = (CHOOSE g : AddsUp(g, f, S))[S]
BY DEF SumFunctionOnSet, FoldFunctionOnSet, MapThenFoldSet, AddsUp, Picked

LEMMA PickedIsIn == ASSUME NEW s, s # {} PROVE Picked(s) \in s
BY DEF Picked

LEMMA MinimalSubset ==
    ASSUME NEW S, IsFiniteSet(S), NEW Bad, Bad \subseteq SUBSET S, Bad # {}
    PROVE  \E T \in Bad : \A U \in Bad : ~(U \subseteq T /\ U # T)
<1>1. FiniteSubsetsOf(S) = SUBSET S
  BY FS_FiniteSubsetsOfFinite
<1>2. IsWellFoundedOn(StrictSubsetOrdering(S), SUBSET S)
  BY <1>1, FS_StrictSubsetOrderingWellFounded
<1>3. PICK T \in Bad : \A U \in Bad : ~(<<U, T>> \in StrictSubsetOrdering(S))
  BY <1>2, WFMin
<1>4. QED
  BY <1>3 DEF StrictSubsetOrdering

LEMMA AddsUpOnce ==
    ASSUME NEW f, NEW S, IsFiniteSet(S), NEW g, NEW h, AddsUp(g, f, S), AddsUp(h, f, S)
    PROVE  g = h
<1> DEFINE bad == {s \in SUBSET S : g[s] # h[s]}
<1>1. CASE bad # {}
  <2>0. bad \subseteq SUBSET S
    OBVIOUS
  <2> HIDE DEF bad
  <2>1. PICK T \in bad : \A U \in bad : ~(U \subseteq T /\ U # T)
    BY <1>1, <2>0, MinimalSubset
  <2> USE DEF bad
  <2>2. CASE T = {}
    BY <2>2, <2>1 DEF AddsUp
  <2>3. CASE T # {}
    <3>1. Picked(T) \in T
      BY <2>3, PickedIsIn
    <3>2. T \ {Picked(T)} \in SUBSET S /\ T \in SUBSET S
      OBVIOUS
    <3>3. g[T \ {Picked(T)}] = h[T \ {Picked(T)}]
      BY <2>1, <3>1
    <3>4. g[T] = f[Picked(T)] + g[T \ {Picked(T)}] /\ h[T] = f[Picked(T)] + h[T \ {Picked(T)}]
      BY <2>3, <3>2 DEF AddsUp
    <3> QED BY <3>3, <3>4, <2>1
  <2> QED BY <2>2, <2>3
<1>2. CASE bad = {}
  BY <1>2 DEF AddsUp
<1> QED BY <1>1, <1>2

LEMMA AddsUpWithin ==
    ASSUME NEW f, NEW S, NEW g, AddsUp(g, f, S), NEW T, T \subseteq S
    PROVE  AddsUp([s \in SUBSET T |-> g[s]], f, T)
<1> DEFINE h == [s \in SUBSET T |-> g[s]]
<1>1. ASSUME NEW s \in SUBSET T
      PROVE  h[s] = IF s = {} THEN 0 ELSE f[Picked(s)] + h[s \ {Picked(s)}]
  <2>1. s \in SUBSET S /\ s \ {Picked(s)} \in SUBSET T
    OBVIOUS
  <2>2. g[s] = IF s = {} THEN 0 ELSE f[Picked(s)] + g[s \ {Picked(s)}]
    BY <2>1 DEF AddsUp
  <2> QED BY <2>1, <2>2
<1>2. h = [s \in SUBSET T |-> IF s = {} THEN 0 ELSE f[Picked(s)] + h[s \ {Picked(s)}]]
  BY <1>1
<1> QED BY <1>2 DEF AddsUp

(* Such a function exists, and by AddsUpOnce it is the only one.              *)
LEMMA AddsUpStep ==
    ASSUME NEW f, NEW S, IsFiniteSet(S), S # {},
           \E g : AddsUp(g, f, S), \E g : AddsUp(g, f, S \ {Picked(S)})
    PROVE  SumFunctionOnSet(f, S) = f[Picked(S)] + SumFunctionOnSet(f, S \ {Picked(S)})
<1> DEFINE R == S \ {Picked(S)}
           g == CHOOSE x : AddsUp(x, f, S)
           h == CHOOSE x : AddsUp(x, f, R)
<1>1. AddsUp(g, f, S) /\ AddsUp(h, f, R)
  OBVIOUS
<1>2. SumFunctionOnSet(f, S) = g[S] /\ SumFunctionOnSet(f, R) = h[R]
  BY SumIsAddedUp
<1> HIDE DEF g, h
<1>3. IsFiniteSet(R) /\ R \subseteq S
  BY FS_RemoveElement
<1> DEFINE k == [s \in SUBSET R |-> g[s]]
<1>4. h = k
  <2>1. AddsUp(k, f, R)
    BY <1>1, <1>3, AddsUpWithin
  <2> HIDE DEF k, R
  <2> QED BY <1>1, <1>3, <2>1, AddsUpOnce
<1>5. h[R] = g[R]
  BY <1>4
<1>6. S \in SUBSET S
  OBVIOUS
<1>7. g[S] = f[Picked(S)] + g[R]
  BY <1>1, <1>6 DEF AddsUp
<1> QED BY <1>2, <1>5, <1>7

LEMMA AddsUpExists == ASSUME NEW f, NEW S, IsFiniteSet(S) PROVE \E g : AddsUp(g, f, S)
<1> DEFINE bad == {s \in SUBSET S : ~\E g : AddsUp(g, f, s)}
<1>0. bad \subseteq SUBSET S
  OBVIOUS
<1>1. SUFFICES ASSUME bad # {} PROVE FALSE
  OBVIOUS
<1> HIDE DEF bad
<1>2. PICK T \in bad : \A U \in bad : ~(U \subseteq T /\ U # T)
  BY <1>0, <1>1, MinimalSubset
<1>3. T \in SUBSET S /\ ~\E g : AddsUp(g, f, T)
  BY <1>2 DEF bad
<1>4. ASSUME NEW U \in SUBSET T, U # T PROVE \E g : AddsUp(g, f, U)
  BY <1>2, <1>3, <1>4 DEF bad
<1> DEFINE sum(s) == SumFunctionOnSet(f, s)
           g == [s \in SUBSET T |-> IF s = {} THEN 0
                   ELSE IF s = T THEN f[Picked(T)] + sum(T \ {Picked(T)}) ELSE sum(s)]
<1>5. ASSUME NEW s \in SUBSET T, s # {}, s # T
      PROVE  sum(s) = f[Picked(s)] + sum(s \ {Picked(s)})
  <2>1. IsFiniteSet(s) /\ s \ {Picked(s)} \in SUBSET T /\ s \ {Picked(s)} # T
    BY <1>3, <1>5, FS_Subset
  <2> QED BY <2>1, <1>4, <1>5, AddsUpStep
<1>6. sum({}) = 0
  <2>1. PICK h : AddsUp(h, f, {})
    <3>1. AddsUp([s \in SUBSET {} |-> 0], f, {})
      BY DEF AddsUp
    <3> QED BY <3>1
  <2> DEFINE k == CHOOSE x : AddsUp(x, f, {})
  <2>2. AddsUp(k, f, {})
    BY <2>1
  <2>3. sum({}) = k[{}]
    BY SumIsAddedUp
  <2> HIDE DEF k
  <2> QED BY <2>2, <2>3 DEF AddsUp
<1> HIDE DEF sum
<1>7. ASSUME NEW s \in SUBSET T
      PROVE  g[s] = IF s = {} THEN 0 ELSE f[Picked(s)] + g[s \ {Picked(s)}]
  <2>1. CASE s = {}
    BY <2>1
  <2>2. CASE s # {}
    <3>1. Picked(s) \in s
      BY <2>2, PickedIsIn
    <3> DEFINE r == s \ {Picked(s)}
    <3>2. r \in SUBSET T /\ r # T
      BY <3>1
    <3>3. g[r] = sum(r)
      BY <3>2, <1>6
    <3>4. g[s] = f[Picked(s)] + sum(r)
      BY <2>2, <1>5
    <3> QED BY <2>2, <3>3, <3>4
  <2> QED BY <2>1, <2>2
<1>8. g = [s \in SUBSET T |-> IF s = {} THEN 0 ELSE f[Picked(s)] + g[s \ {Picked(s)}]]
  BY <1>7
<1>9. AddsUp(g, f, T)
  BY <1>8 DEF AddsUp
<1> QED BY <1>3, <1>9

(* The equations of a sum.                                                    *)
LEMMA SumOfNone == ASSUME NEW f PROVE SumFunctionOnSet(f, {}) = 0
<1> DEFINE g == CHOOSE x : AddsUp(x, f, {})
<1>1. AddsUp(g, f, {})
  BY FS_EmptySet, AddsUpExists
<1>2. SumFunctionOnSet(f, {}) = g[{}]
  BY SumIsAddedUp
<1> HIDE DEF g
<1> QED BY <1>1, <1>2 DEF AddsUp

LEMMA SumOfSome ==
    ASSUME NEW f, NEW S, IsFiniteSet(S), S # {}
    PROVE  /\ Picked(S) \in S
           /\ SumFunctionOnSet(f, S) = f[Picked(S)] + SumFunctionOnSet(f, S \ {Picked(S)})
<1>1. IsFiniteSet(S \ {Picked(S)})
  BY FS_RemoveElement
<1> QED BY <1>1, AddsUpExists, AddsUpStep, PickedIsIn

(* Sums of integers are integers, those of natural numbers natural numbers.   *)
LEMMA SumType ==
    ASSUME NEW f, NEW S, IsFiniteSet(S), NEW D \in {Nat, Int}, \A x \in S : f[x] \in D
    PROVE  SumFunctionOnSet(f, S) \in D
<1> DEFINE sum(s) == SumFunctionOnSet(f, s)
           bad == {s \in SUBSET S : sum(s) \notin D}
<1>0. bad \subseteq SUBSET S /\ S \in SUBSET S
  OBVIOUS
<1>1. SUFFICES ASSUME bad # {} PROVE FALSE
  OBVIOUS
<1> HIDE DEF bad
<1>2. PICK T \in bad : \A U \in bad : ~(U \subseteq T /\ U # T)
  BY <1>0, <1>1, MinimalSubset
<1>3. T \in SUBSET S /\ sum(T) \notin D /\ IsFiniteSet(T)
  BY <1>2, FS_Subset DEF bad
<1>4. CASE T = {}
  BY <1>3, <1>4, SumOfNone
<1>5. CASE T # {}
  <2> DEFINE r == T \ {Picked(T)}
  <2>1. Picked(T) \in T /\ sum(T) = f[Picked(T)] + sum(r)
    BY <1>3, <1>5, SumOfSome
  <2>2. r \in SUBSET S /\ r \subseteq T /\ r # T
    BY <1>3, <2>1
  <2>3. sum(r) \in D
    BY <1>2, <2>2 DEF bad
  <2>4. f[Picked(T)] \in D
    BY <1>3, <2>1
  <2> HIDE DEF sum, r
  <2>5. \A i, j \in D : i + j \in D
    OBVIOUS
  <2> QED BY <1>3, <2>1, <2>3, <2>4, <2>5
<1> QED BY <1>4, <1>5

(* Changing one summand changes the sum by as much.                           *)
LEMMA SumChange ==
    ASSUME NEW S, IsFiniteSet(S), NEW f, NEW g, NEW a \in S,
           \A x \in S : f[x] \in Int /\ g[x] \in Int,
           \A x \in S \ {a} : g[x] = f[x]
    PROVE  SumFunctionOnSet(g, S) = SumFunctionOnSet(f, S) + g[a] - f[a]
<1> DEFINE before(s) == SumFunctionOnSet(f, s)
           after(s) == SumFunctionOnSet(g, s)
           change(s) == IF a \in s THEN g[a] - f[a] ELSE 0
           bad == {s \in SUBSET S : after(s) # before(s) + change(s)}
<1>0. bad \subseteq SUBSET S /\ S \in SUBSET S
  OBVIOUS
<1>a. ASSUME NEW s \in SUBSET S PROVE before(s) \in Int /\ after(s) \in Int
  BY FS_Subset, SumType
<1>b. SUFFICES ASSUME bad # {} PROVE FALSE
  BY <1>a
<1> HIDE DEF bad
<1>1. PICK T \in bad : \A U \in bad : ~(U \subseteq T /\ U # T)
  BY <1>0, <1>b, MinimalSubset
<1>2. T \in SUBSET S /\ after(T) # before(T) + change(T) /\ IsFiniteSet(T)
  BY <1>1, FS_Subset DEF bad
<1>3. CASE T = {}
  BY <1>2, <1>3, SumOfNone
<1>4. CASE T # {}
  <2> DEFINE p == Picked(T)
             r == T \ {p}
  <2>1. p \in T /\ before(T) = f[p] + before(r) /\ after(T) = g[p] + after(r)
    BY <1>2, <1>4, SumOfSome
  <2>2. r \in SUBSET S /\ r \subseteq T /\ r # T
    BY <1>2, <2>1
  <2>3. after(r) = before(r) + change(r)
    BY <1>1, <2>2 DEF bad
  <2>4. before(r) \in Int /\ after(r) \in Int
    BY <1>a, <2>2
  <2>5. f[p] \in Int /\ g[p] \in Int /\ f[a] \in Int /\ g[a] \in Int
    BY <1>2, <2>1
  <2> HIDE DEF before, after
  <2>6. CASE p = a
    BY <1>2, <2>1, <2>3, <2>4, <2>5, <2>6
  <2>7. CASE p # a
    BY <1>2, <2>1, <2>3, <2>4, <2>5, <2>7
  <2> QED BY <2>6, <2>7
<1> QED BY <1>3, <1>4

(* The same, with the change of the summand given.                            *)
LEMMA SumMoves ==
    ASSUME NEW S, IsFiniteSet(S), NEW f, NEW g, NEW a \in S, NEW x \in Int,
           \A y \in S : f[y] \in Int,
           \A y \in S \ {a} : g[y] = f[y]
    PROVE  /\ SumFunctionOnSet(f, S) \in Int
           /\ g[a] = f[a] + x => SumFunctionOnSet(g, S) = SumFunctionOnSet(f, S) + x
<1>1. SumFunctionOnSet(f, S) \in Int /\ f[a] \in Int
  BY SumType
<1>2. g[a] \in Int => \A y \in S : g[y] \in Int
  OBVIOUS
<1>3. g[a] \in Int => SumFunctionOnSet(g, S) = SumFunctionOnSet(f, S) + g[a] - f[a]
  BY <1>2, SumChange
<1> QED BY <1>1, <1>3

(* Two functions with the same summands have the same sum.                    *)
LEMMA SumSame ==
    ASSUME NEW S, IsFiniteSet(S), NEW f, NEW g, \A x \in S : f[x] \in Int /\ g[x] = f[x]
    PROVE  SumFunctionOnSet(g, S) = SumFunctionOnSet(f, S)
<1>1. CASE S = {}
  BY <1>1, SumOfNone
<1>2. CASE S # {}
  <2>1. PICK a \in S : TRUE
    BY <1>2
  <2>2. SumFunctionOnSet(g, S) = SumFunctionOnSet(f, S) + g[a] - f[a]
    BY SumChange
  <2>3. SumFunctionOnSet(f, S) \in Int
    BY SumType
  <2> QED BY <2>2, <2>3
<1> QED BY <1>1, <1>2

(* Summands of the same size.                                                 *)
LEMMA SumOfEqual ==
    ASSUME NEW S, IsFiniteSet(S), NEW f, NEW c \in Nat, \A x \in S : f[x] = c
    PROVE  SumFunctionOnSet(f, S) = Cardinality(S) * c
<1> DEFINE sum(s) == SumFunctionOnSet(f, s)
           bad == {s \in SUBSET S : sum(s) # Cardinality(s) * c}
<1>0. bad \subseteq SUBSET S /\ S \in SUBSET S
  OBVIOUS
<1>1. SUFFICES ASSUME bad # {} PROVE FALSE
  OBVIOUS
<1> HIDE DEF bad
<1>2. PICK T \in bad : \A U \in bad : ~(U \subseteq T /\ U # T)
  BY <1>0, <1>1, MinimalSubset
<1>3. T \in SUBSET S /\ sum(T) # Cardinality(T) * c /\ IsFiniteSet(T)
  BY <1>2, FS_Subset DEF bad
<1>4. CASE T = {}
  BY <1>3, <1>4, SumOfNone, FS_EmptySet
<1>5. CASE T # {}
  <2> DEFINE p == Picked(T)
             r == T \ {p}
  <2>1. p \in T /\ sum(T) = f[p] + sum(r) /\ f[p] = c
    BY <1>3, <1>5, SumOfSome
  <2>2. r \in SUBSET S /\ r \subseteq T /\ r # T
    BY <1>3, <2>1
  <2>3. sum(r) = Cardinality(r) * c
    BY <1>2, <2>2 DEF bad
  <2>4. Cardinality(r) = Cardinality(T) - 1 /\ Cardinality(T) \in Nat
    BY <1>3, <2>1, FS_RemoveElement, FS_CardinalityType
  <2> HIDE DEF sum, r, p
  <2> DEFINE n == Cardinality(T)
  <2>5. n \in Nat /\ (n - 1) * c + c = n * c
    BY <2>4
  <2>6. sum(T) = c + (n - 1) * c
    BY <2>1, <2>3, <2>4
  <2>7. (n - 1) * c \in Int
    BY <2>4
  <2> QED BY <1>3, <2>5, <2>6, <2>7
<1> QED BY <1>4, <1>5

(* A finite set of integers that is not empty has a greatest and a least      *)
(* element.                                                                   *)
LEMMA MaxOfFinite ==
    ASSUME NEW S, IsFiniteSet(S)
    PROVE  S \subseteq Int /\ S # {} => Max(S) \in S /\ \A y \in S : Max(S) >= y
<1>1. SUFFICES ASSUME S \subseteq Int, S # {} PROVE Max(S) \in S /\ \A y \in S : Max(S) >= y
  OBVIOUS
<1> DEFINE bad == {s \in SUBSET S : s # {} /\ ~\E x \in s : \A y \in s : x >= y}
<1>2. bad \subseteq SUBSET S
  OBVIOUS
<1>3. CASE bad # {}
  <2> HIDE DEF bad
  <2>1. PICK T \in bad : \A U \in bad : ~(U \subseteq T /\ U # T)
    BY <1>2, <1>3, MinimalSubset
  <2>2. T \in SUBSET S /\ T # {} /\ ~\E x \in T : \A y \in T : x >= y
    BY <2>1 DEF bad
  <2>3. PICK a \in T : TRUE
    BY <2>2
  <2>4. a \in Int /\ \A y \in T : y \in Int
    BY <1>1, <2>2, <2>3
  <2>5. CASE T \ {a} = {}
    BY <2>2, <2>3, <2>4, <2>5
  <2>6. CASE T \ {a} # {}
    <3>1. T \ {a} \in SUBSET S /\ T \ {a} \subseteq T /\ T \ {a} # T
      BY <2>2, <2>3
    <3>2. T \ {a} \notin bad
      BY <2>1, <3>1
    <3>3. PICK b \in T \ {a} : \A y \in T \ {a} : b >= y
      BY <2>6, <3>1, <3>2 DEF bad
    <3>4. CASE a >= b
      BY <2>2, <3>3, <2>4, <3>4
    <3>5. CASE ~(a >= b)
      BY <2>2, <3>3, <2>4, <3>5
    <3> QED BY <3>4, <3>5
  <2> QED BY <2>5, <2>6
<1>4. CASE bad = {}
  <2>1. S \in SUBSET S /\ S \notin bad
    BY <1>4
  <2>2. \E x \in S : \A y \in S : x >= y
    BY <1>1, <2>1
  <2> QED BY <2>2 DEF Max
<1> QED BY <1>3, <1>4

LEMMA MinOfFinite ==
    ASSUME NEW S, IsFiniteSet(S)
    PROVE  S \subseteq Int /\ S # {} => Min(S) \in S /\ \A y \in S : Min(S) =< y
<1>1. SUFFICES ASSUME S \subseteq Int, S # {} PROVE Min(S) \in S /\ \A y \in S : Min(S) =< y
  OBVIOUS
<1> DEFINE bad == {s \in SUBSET S : s # {} /\ ~\E x \in s : \A y \in s : x =< y}
<1>2. bad \subseteq SUBSET S
  OBVIOUS
<1>3. CASE bad # {}
  <2> HIDE DEF bad
  <2>1. PICK T \in bad : \A U \in bad : ~(U \subseteq T /\ U # T)
    BY <1>2, <1>3, MinimalSubset
  <2>2. T \in SUBSET S /\ T # {} /\ ~\E x \in T : \A y \in T : x =< y
    BY <2>1 DEF bad
  <2>3. PICK a \in T : TRUE
    BY <2>2
  <2>4. a \in Int /\ \A y \in T : y \in Int
    BY <1>1, <2>2, <2>3
  <2>5. CASE T \ {a} = {}
    BY <2>2, <2>3, <2>4, <2>5
  <2>6. CASE T \ {a} # {}
    <3>1. T \ {a} \in SUBSET S /\ T \ {a} \subseteq T /\ T \ {a} # T
      BY <2>2, <2>3
    <3>2. T \ {a} \notin bad
      BY <2>1, <3>1
    <3>3. PICK b \in T \ {a} : \A y \in T \ {a} : b =< y
      BY <2>6, <3>1, <3>2 DEF bad
    <3>4. CASE a =< b
      BY <2>2, <3>3, <2>4, <3>4
    <3>5. CASE ~(a =< b)
      BY <2>2, <3>3, <2>4, <3>5
    <3> QED BY <3>4, <3>5
  <2> QED BY <2>5, <2>6
<1>4. CASE bad = {}
  <2>1. S \in SUBSET S /\ S \notin bad
    BY <1>4
  <2>2. \E x \in S : \A y \in S : x =< y
    BY <1>1, <2>1
  <2> QED BY <2>2 DEF Min
<1> QED BY <1>3, <1>4

(* The least of two.                                                          *)
LEMMA MinOfTwo ==
    ASSUME NEW x \in Int, NEW y \in Int
    PROVE  Min({x, y}) = IF x =< y THEN x ELSE y
<1> DEFINE m == IF x =< y THEN x ELSE y
<1>1. m \in {x, y} /\ \A z \in {x, y} : m =< z
  OBVIOUS
<1>2. ASSUME NEW k \in {x, y}, \A z \in {x, y} : k =< z PROVE k = m
  BY <1>2
<1> HIDE DEF m
<1>3. (CHOOSE k \in {x, y} : \A z \in {x, y} : k =< z) = m
  BY <1>1, <1>2
<1> QED BY <1>3 DEF Min, m

(* Any summand can be taken out of a sum.                                     *)
LEMMA SumWithout ==
    ASSUME NEW f, NEW S, IsFiniteSet(S), \A x \in S : f[x] \in Int, NEW a \in S
    PROVE  SumFunctionOnSet(f, S) = f[a] + SumFunctionOnSet(f, S \ {a})
<1> DEFINE sum(s) == SumFunctionOnSet(f, s)
           bad == {s \in SUBSET S : \E x \in s : sum(s) # f[x] + sum(s \ {x})}
<1>0. bad \subseteq SUBSET S /\ S \in SUBSET S
  OBVIOUS
<1>1. SUFFICES ASSUME bad # {} PROVE FALSE
  OBVIOUS
<1> HIDE DEF bad
<1>2. PICK T \in bad : \A U \in bad : ~(U \subseteq T /\ U # T)
  BY <1>0, <1>1, MinimalSubset
<1>3. T \in SUBSET S /\ IsFiniteSet(T)
  BY <1>2, FS_Subset DEF bad
<1>4. PICK x \in T : sum(T) # f[x] + sum(T \ {x})
  BY <1>2 DEF bad
<1> DEFINE p == Picked(T)
<1>5. p \in T /\ sum(T) = f[p] + sum(T \ {p})
  BY <1>3, <1>4, SumOfSome
<1> HIDE DEF p
<1>6. x # p
  BY <1>4, <1>5
<1>7. /\ T \ {p} \in SUBSET S /\ T \ {p} \subseteq T /\ T \ {p} # T /\ x \in T \ {p}
      /\ T \ {x} \in SUBSET S /\ T \ {x} \subseteq T /\ T \ {x} # T /\ p \in T \ {x}
      /\ (T \ {x}) \ {p} = (T \ {p}) \ {x}
  BY <1>3, <1>5, <1>6
<1>8. sum(T \ {p}) = f[x] + sum((T \ {p}) \ {x}) /\ sum(T \ {x}) = f[p] + sum((T \ {x}) \ {p})
  BY <1>2, <1>7 DEF bad
<1>9. f[x] \in Int /\ f[p] \in Int /\ sum((T \ {p}) \ {x}) \in Int
  <2>1. IsFiniteSet((T \ {p}) \ {x}) /\ \A y \in (T \ {p}) \ {x} : f[y] \in Int
    BY <1>3, FS_Subset
  <2> QED BY <1>3, <1>5, <2>1, SumType
<1> HIDE DEF sum
<1>10. sum(T) = f[p] + (f[x] + sum((T \ {p}) \ {x})) /\ sum(T \ {x}) = f[p] + sum((T \ {p}) \ {x})
  BY <1>5, <1>7, <1>8
<1>11. sum(T) = f[x] + sum(T \ {x})
  BY <1>9, <1>10
<1> QED BY <1>4, <1>11

(* A part of a sum of natural numbers is not greater than the sum.            *)
LEMMA SumOfPart ==
    ASSUME NEW f, NEW S, IsFiniteSet(S), \A x \in S : f[x] \in Nat, NEW P, P \subseteq S
    PROVE  SumFunctionOnSet(f, P) <= SumFunctionOnSet(f, S)
<1> DEFINE sum(s) == SumFunctionOnSet(f, s)
           bad == {s \in SUBSET S : P \subseteq s /\ ~(sum(P) <= sum(s))}
<1>0. bad \subseteq SUBSET S /\ S \in SUBSET S
  OBVIOUS
<1>1. SUFFICES ASSUME bad # {} PROVE FALSE
  OBVIOUS
<1> HIDE DEF bad
<1>2. PICK T \in bad : \A U \in bad : ~(U \subseteq T /\ U # T)
  BY <1>0, <1>1, MinimalSubset
<1>3. T \in SUBSET S /\ IsFiniteSet(T) /\ P \subseteq T /\ ~(sum(P) <= sum(T))
  BY <1>2, FS_Subset DEF bad
<1>4. \A s \in SUBSET S : sum(s) \in Nat
  BY FS_Subset, SumType
<1>5. P # T
  <2>1. sum(T) \in Nat
    BY <1>3, <1>4
  <2> HIDE DEF sum
  <2> QED BY <1>3, <2>1
<1>6. PICK x \in T : x \notin P
  BY <1>3, <1>5
<1>7. T \ {x} \in SUBSET S /\ T \ {x} \subseteq T /\ T \ {x} # T /\ P \subseteq T \ {x}
  BY <1>3, <1>6
<1>8. sum(P) <= sum(T \ {x})
  BY <1>2, <1>7 DEF bad
<1>9. f[x] \in Nat /\ sum(T) = f[x] + sum(T \ {x})
  BY <1>3, SumWithout
<1>10. sum(P) \in Nat /\ sum(T) \in Nat /\ sum(T \ {x}) \in Nat
  BY <1>3, <1>4, <1>7
<1> HIDE DEF sum
<1> QED BY <1>3, <1>8, <1>9, <1>10

(* A sum of natural numbers is at least the sum of any two of them.           *)
LEMMA SumOfTwoOrMore ==
    ASSUME NEW f, NEW S, IsFiniteSet(S), \A x \in S : f[x] \in Nat, NEW x \in S, NEW y \in S, x # y
    PROVE  f[x] + f[y] <= SumFunctionOnSet(f, S)
<1> DEFINE sum(s) == SumFunctionOnSet(f, s)
<1>1. IsFiniteSet(S \ {x}) /\ IsFiniteSet((S \ {x}) \ {y}) /\ y \in S \ {x}
  BY FS_Subset
<1>2. sum(S) = f[x] + sum(S \ {x}) /\ sum(S \ {x}) = f[y] + sum((S \ {x}) \ {y})
  BY <1>1, SumWithout
<1>3. sum((S \ {x}) \ {y}) \in Nat
  BY <1>1, SumType
<1> HIDE DEF sum
<1>4. f[x] + f[y] <= sum(S)
  BY <1>2, <1>3
<1> QED BY <1>4 DEF sum

(* The sum of a set is the sum of the identity on it.                         *)
LEMMA SumOfSet ==
    ASSUME NEW S, IsFiniteSet(S), NEW f, \A v \in S : f[v] = v
    PROVE  SumSet(S) = SumFunctionOnSet(f, S)
<1> DEFINE adds(g) == g = [s \in SUBSET S |-> IF s = {} THEN 0 ELSE Picked(s) + g[s \ {Picked(s)}]]
<1>1. SumSet(S) = (CHOOSE g : adds(g))[S]
  BY DEF SumSet, FoldSet, MapThenFoldSet, Picked
<1>2. \A s \in SUBSET S : s # {} => f[Picked(s)] = Picked(s)
  BY PickedIsIn
<1>3. \A g : adds(g) <=> AddsUp(g, f, S)
  <2> TAKE g
  <2> DEFINE lhs == [s \in SUBSET S |-> IF s = {} THEN 0 ELSE Picked(s) + g[s \ {Picked(s)}]]
             rhs == [s \in SUBSET S |-> IF s = {} THEN 0 ELSE f[Picked(s)] + g[s \ {Picked(s)}]]
  <2>1. lhs = rhs
    BY <1>2
  <2> QED BY <2>1 DEF AddsUp
<1> DEFINE g == CHOOSE x : adds(x)
           h == CHOOSE x : AddsUp(x, f, S)
<1>4. AddsUp(h, f, S)
  BY AddsUpExists
<1> HIDE DEF adds, h
<1>5. adds(g)
  BY <1>3, <1>4
<1> HIDE DEF g
<1>6. g = h
  BY <1>3, <1>4, <1>5, AddsUpOnce
<1> QED BY <1>1, <1>6, SumIsAddedUp DEF g, h

(* What holds of the sum of a set of natural numbers.                         *)
LEMMA SumSetBounds ==
    ASSUME NEW S, IsFiniteSet(S), \A v \in S : v \in Nat
    PROVE  /\ SumSet(S) \in Nat
           /\ \A P \in SUBSET S : SumSet(P) <= SumSet(S)
           /\ \A x, y \in S : x # y => x + y <= SumSet(S)
           /\ \A x : S = {x} => SumSet(S) = x
<1> DEFINE f == [v \in S |-> v]
<1>1. (\A v \in S : f[v] = v) /\ (\A v \in S : f[v] \in Nat)
  OBVIOUS
<1> HIDE DEF f
<1>2. \A P \in SUBSET S : IsFiniteSet(P) /\ SumSet(P) = SumFunctionOnSet(f, P)
  BY <1>1, FS_Subset, SumOfSet
<1>3. SumSet(S) \in Nat
  BY <1>1, <1>2, SumType
<1>4. \A P \in SUBSET S : SumSet(P) <= SumSet(S)
  BY <1>1, <1>2, SumOfPart
<1>5. ASSUME NEW x \in S, NEW y \in S, x # y PROVE x + y <= SumSet(S)
  <2>1. f[x] + f[y] <= SumFunctionOnSet(f, S)
    BY <1>1, <1>5, SumOfTwoOrMore
  <2> QED BY <1>1, <1>2, <2>1
<1>6. ASSUME NEW x, S = {x} PROVE SumSet(S) = x
  <2>1. x \in Nat /\ IsFiniteSet({x}) /\ Cardinality({x}) = 1 /\ SumSet(S) = SumFunctionOnSet(f, {x})
    BY <1>2, <1>6, FS_Singleton
  <2>2. \A v \in {x} : f[v] = x
    BY <1>1, <1>6
  <2>3. SumFunctionOnSet(f, {x}) = 1 * x
    BY <2>1, <2>2, SumOfEqual
  <2> QED BY <2>1, <2>3
<1> QED BY <1>3, <1>4, <1>5, <1>6

(* Division rounds down.                                                     *)
LEMMA DivBounds ==
    ASSUME NEW x \in Nat, NEW y \in Nat \ {0}
    PROVE  /\ x \div y \in Nat
           /\ (x \div y) * y <= x
           /\ x < (x \div y) * y + y
OBVIOUS

(* Products of natural numbers grow with their factors.                       *)
LEMMA TimesMonotone ==
    ASSUME NEW x \in Nat, NEW y \in Nat, NEW z \in Nat, x <= y
    PROVE  x * z \in Nat /\ x * z <= y * z
OBVIOUS

(* A factor that is not zero can be cancelled.                                *)
LEMMA TimesCancel ==
    ASSUME NEW x \in Int, NEW y \in Int, NEW z \in Nat \ {0}, x * z <= y * z
    PROVE  x <= y
OBVIOUS

(* Division with rest, for every integer, and rests that are added up again.  *)
LEMMA DivRest ==
    ASSUME NEW a \in Int, NEW d \in Nat \ {0}
    PROVE  a \div d \in Int /\ a % d \in 0..(d - 1) /\ a = d * (a \div d) + (a % d)
OBVIOUS

LEMMA TimesSmall ==
    ASSUME NEW k \in Int, NEW d \in Nat \ {0}, k # 0
    PROVE  d * k >= d \/ d * k <= 0 - d
OBVIOUS

LEMMA RestUnique ==
    ASSUME NEW d \in Nat \ {0}, NEW q \in Int, NEW r \in 0..(d - 1), NEW a \in Int, a = d * q + r
    PROVE  a % d = r
<1> DEFINE p == a \div d
           s == a % d
<1>1. p \in Int /\ s \in 0..(d - 1) /\ a = d * p + s
  BY DivRest
<1> HIDE DEF p, s
<1>2. d * (p - q) = r - s
  <2>1. d * (p - q) = d * p - d * q
    BY <1>1
  <2>2. d * p \in Int /\ d * q \in Int
    BY <1>1
  <2> QED BY <1>1, <2>1, <2>2
<1>3. CASE p - q # 0
  <2> DEFINE k == p - q
  <2>1. k \in Int /\ k # 0
    BY <1>3, <1>1
  <2>2. d * k >= d \/ d * k <= 0 - d
    BY <2>1, TimesSmall
  <2>3. d * k = r - s
    BY <1>2
  <2> HIDE DEF k
  <2>4. r - s >= d \/ r - s <= 0 - d
    BY <2>2, <2>3
  <2> QED BY <2>4, <1>1
<1>4. CASE p - q = 0
  BY <1>1, <1>2, <1>4 DEF s
<1> QED BY <1>3, <1>4

LEMMA RestOfRest ==
    ASSUME NEW d \in Nat \ {0}, NEW a \in Int, NEW c \in Int
    PROVE ((a % d) + c) % d = (a + c) % d
<1> DEFINE p == a \div d
           s == a % d
           q == (a + c) \div d
           r == (a + c) % d
<1>1. p \in Int /\ s \in 0..(d - 1) /\ a = d * p + s
  BY DivRest
<1>2. q \in Int /\ r \in 0..(d - 1) /\ a + c = d * q + r
  BY DivRest
<1> HIDE DEF p, s, q, r
<1>3. s + c = d * (q - p) + r
  <2>1. d * (q - p) = d * q - d * p
    BY <1>1, <1>2
  <2>2. d * p \in Int /\ d * q \in Int
    BY <1>1, <1>2
  <2> QED BY <1>1, <1>2, <2>1, <2>2
<1>4. s + c \in Int /\ q - p \in Int
  BY <1>1, <1>2
<1>5. (s + c) % d = r
  <2> DEFINE b == s + c
             k == q - p
  <2>1. b \in Int /\ k \in Int /\ b = d * k + r
    BY <1>3, <1>4
  <2> HIDE DEF b, k
  <2>2. b % d = r
    BY <1>2, <2>1, RestUnique
  <2> QED BY <2>2 DEF b
<1> QED BY <1>5 DEF s, r

(* Changing one summand and the sum, both as words that wrap, keeps the sum.  *)
LEMMA SumWraps ==
    ASSUME NEW S, IsFiniteSet(S), NEW d \in Nat \ {0}, NEW f, NEW g, NEW a \in S, NEW change \in Int,
           \A x \in S : f[x] \in Int,
           \A x \in S \ {a} : g[x] = f[x]
    PROVE  g[a] = (f[a] + change) % d =>
              SumFunctionOnSet(g, S) % d = ((SumFunctionOnSet(f, S) % d) + change) % d
<1>1. SumFunctionOnSet(f, S) \in Int /\ f[a] \in Int
  BY SumType
<1>2. g[a] \in Int => \A x \in S : g[x] \in Int
  OBVIOUS
<1>3. g[a] \in Int => SumFunctionOnSet(g, S) = SumFunctionOnSet(f, S) + g[a] - f[a]
  BY <1>2, SumChange
<1> DEFINE sum == SumFunctionOnSet(f, S)
           after == SumFunctionOnSet(g, S)
           old == f[a]
           new == g[a]
<1>4. sum \in Int /\ old \in Int /\ (new \in Int => after = sum + new - old)
  BY <1>1, <1>3
<1> HIDE DEF sum, after, old, new
<1>5. ASSUME new = (old + change) % d PROVE after % d = ((sum % d) + change) % d
  <2>1. old + change \in Int /\ sum - old \in Int
    BY <1>4
  <2>2. new \in Int
    BY <1>5, <2>1, DivRest
  <2>3. (new + (sum - old)) % d = ((old + change) + (sum - old)) % d
    BY <1>5, <2>1, RestOfRest
  <2>4. new + (sum - old) = after /\ (old + change) + (sum - old) = sum + change
    BY <1>4, <2>2
  <2>5. ((sum % d) + change) % d = (sum + change) % d
    BY <1>4, RestOfRest
  <2> QED BY <2>3, <2>4, <2>5
<1> QED BY <1>5 DEF sum, after, old, new
===============================================================================
