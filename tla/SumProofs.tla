----------------------------- MODULE SumProofs -----------------------------
(***************************************************************************)
(* What the other proofs need of numbers and totals: a set of naturals has *)
(* a least element, a finite one a greatest; a total does not depend on    *)
(* the order in which its terms are added.  Every induction is done as a   *)
(* minimal counterexample, so that no operator has to be a parameter.      *)
(***************************************************************************)
EXTENDS Sums, FiniteSetTheorems, WellFoundedInduction, TLAPS

\* A set of naturals that is not empty has a least element.
LEMMA LeastExists ==
    ASSUME NEW T \in SUBSET Nat, T # {}
    PROVE  \E n \in T : \A m \in T : n <= m
<1>1. PICK n \in T : \A m \in T : <<m, n>> \notin OpToRel(<, Nat)
  BY WFMin, NatLessThanWellFounded
<1>2. \A m \in T : ~(m < n)
  BY <1>1 DEF OpToRel
<1> QED
  BY <1>2

\* A finite set of naturals that is not empty has a greatest element: the
\* smallest set without one would have a smaller one without one.
LEMMA GreatestExists ==
    ASSUME NEW S \in SUBSET Nat, IsFiniteSet(S), S # {}
    PROVE  \E n \in S : \A m \in S : m <= n
<1> DEFINE Bad(T) == /\ IsFiniteSet(T) /\ T # {}
                     /\ ~\E n \in T : \A m \in T : m <= n
           Sizes == {k \in Nat : \E T \in SUBSET Nat : Bad(T) /\ Cardinality(T) = k}
<1>1. SUFFICES ASSUME Bad(S) PROVE FALSE
  OBVIOUS
<1>2. Cardinality(S) \in Sizes
  BY <1>1, FS_CardinalityType
<1>3. PICK k \in Sizes : \A m \in Sizes : k <= m
  <2>1. Sizes \in SUBSET Nat /\ Sizes # {}
    BY <1>2
  <2> HIDE DEF Sizes
  <2> QED
    BY <2>1, LeastExists
<1>4. PICK T \in SUBSET Nat : Bad(T) /\ Cardinality(T) = k
  BY <1>3
<1>5. PICK x \in T : TRUE
  BY <1>4
<1> DEFINE U == T \ {x}
<1>6. IsFiniteSet(U) /\ Cardinality(U) = k - 1 /\ U \in SUBSET Nat /\ k \in Nat
  BY <1>3, <1>4, <1>5, FS_RemoveElement
<1>7. ~Bad(U)
  <2>1. SUFFICES ASSUME Bad(U) PROVE FALSE
    OBVIOUS
  <2>2. Cardinality(U) \in Nat
    BY <1>6, FS_CardinalityType
  <2> HIDE DEF Bad, U
  <2>3. Cardinality(U) \in Sizes
    BY <1>6, <2>1, <2>2
  <2> QED
    BY <1>3, <1>6, <2>3
<1>8. CASE U = {}
  <2>1. T = {x}
    BY <1>5, <1>8
  <2> QED
    BY <1>4, <2>1
<1>9. CASE U # {}
  <2>1. PICK n \in U : \A m \in U : m <= n
    BY <1>6, <1>7, <1>9
  <2>2. n \in T /\ x \in T /\ n \in Nat /\ x \in Nat /\ \A m \in T : m = x \/ m \in U
    BY <1>5, <1>6, <2>1
  <2>3. CASE x <= n
    BY <1>4, <2>1, <2>2, <2>3
  <2>4. CASE ~(x <= n)
    <3>1. \A m \in T : m <= x
      BY <1>6, <2>1, <2>2, <2>4
    <3> QED
      BY <1>4, <2>2, <3>1
  <2> QED
    BY <2>3, <2>4
<1> QED
  BY <1>8, <1>9

-----------------------------------------------------------------------------
(* The recursive function behind SumOf *)

\* The term that is added next.
Pick(s) == CHOOSE x \in s : TRUE

\* g adds up f over every subset of S.
IsSum(g, f, S) ==
    g = [s \in SUBSET S |-> IF s = {} THEN 0 ELSE f[Pick(s)] + g[s \ {Pick(s)}]]

\* SumOf is the value of such a function.
LEMMA SumIsChosen ==
    ASSUME NEW f, NEW S
    PROVE  SumOf(f, S) = (CHOOSE g : IsSum(g, f, S))[S]
BY DEF SumOf, MapThenSumSet, MapThenFoldSet, IsSum, Pick

\* A member taken out of a finite set leaves one member fewer.
LEMMA Picked ==
    ASSUME NEW s, s # {}, IsFiniteSet(s)
    PROVE  /\ Pick(s) \in s /\ IsFiniteSet(s \ {Pick(s)})
           /\ Cardinality(s) \in Nat \ {0} /\ Cardinality(s \ {Pick(s)}) = Cardinality(s) - 1
<1>1. Pick(s) \in s
  BY DEF Pick
<1> QED
  BY <1>1, FS_RemoveElement, FS_CardinalityType, FS_EmptySet

\* Such a function exists over a finite set.
LEMMA SumExists ==
    ASSUME NEW f, NEW S, IsFiniteSet(S)
    PROVE  \E g : IsSum(g, f, S)
<1> DEFINE Step(g, s) == IF s = {} THEN 0 ELSE f[Pick(s)] + g[s \ {Pick(s)}]
           UpTo(g, n) == \A s \in SUBSET S : Cardinality(s) <= n => g[s] = Step(g, s)
           Stuck == {n \in Nat : \A g : ~UpTo(g, n)}
<1>1. \A s \in SUBSET S : IsFiniteSet(s) /\ Cardinality(s) \in Nat
                          /\ Cardinality(s) <= Cardinality(S)
  BY FS_Subset, FS_CardinalityType
<1>2. Stuck = {}
  <2>1. SUFFICES ASSUME Stuck # {} PROVE FALSE
    OBVIOUS
  <2>2. PICK n \in Stuck : \A m \in Stuck : n <= m
    <3>1. Stuck \in SUBSET Nat
      OBVIOUS
    <3> HIDE DEF Stuck
    <3> QED
      BY <2>1, <3>1, LeastExists
  <2>3. n # 0
    <3> DEFINE g == [s \in SUBSET S |-> 0]
    <3>1. UpTo(g, 0)
      <4> SUFFICES ASSUME NEW s \in SUBSET S, Cardinality(s) <= 0 PROVE g[s] = Step(g, s)
        OBVIOUS
      <4>1. s = {}
        BY <1>1, FS_EmptySet
      <4> QED
        BY <4>1
    <3> HIDE DEF g, UpTo
    <3> QED
      BY <2>2, <3>1
  <2>4. PICK g : UpTo(g, n - 1)
    <3>1. n \in Nat /\ n - 1 \in Nat /\ ~(n <= n - 1)
      BY <2>2, <2>3
    <3>2. n - 1 \notin Stuck
      BY <2>2, <3>1
    <3> HIDE DEF UpTo
    <3> QED
      BY <3>1, <3>2
  <2> DEFINE h == [s \in SUBSET S |-> Step(g, s)]
  <2>5. UpTo(h, n)
    <3> SUFFICES ASSUME NEW s \in SUBSET S, Cardinality(s) <= n PROVE h[s] = Step(h, s)
      OBVIOUS
    <3>1. CASE s = {}
      BY <3>1
    <3>2. CASE s # {}
      <4> DEFINE t == s \ {Pick(s)}
      <4>1. t \in SUBSET S /\ Cardinality(t) <= n - 1
        BY <1>1, <2>2, <3>2, Picked
      <4> HIDE DEF t
      <4>2. h[t] = g[t]
        BY <2>4, <4>1
      <4> QED
        BY <3>2, <4>2 DEF t
    <3> QED
      BY <3>1, <3>2
  <2> HIDE DEF UpTo, h
  <2> QED
    BY <2>2, <2>5
<1>3. PICK g : UpTo(g, Cardinality(S))
  <2>1. Cardinality(S) \in Nat
    BY FS_CardinalityType
  <2> HIDE DEF UpTo
  <2> QED
    BY <1>2, <2>1
<1> DEFINE h == [s \in SUBSET S |-> g[s]]
<1>4. \A s \in SUBSET S : g[s] = Step(g, s)
  BY <1>1, <1>3
<1>5. \A s \in SUBSET S : h[s] = Step(h, s)
  BY <1>4
<1>6. IsSum(h, f, S)
  BY <1>5 DEF IsSum
<1> QED
  BY <1>6

\* Two such functions agree where their terms do.
LEMMA SumsAgree ==
    ASSUME NEW f, NEW g, NEW S, IsSum(g, f, S), NEW e, NEW h, NEW T, IsSum(h, e, T),
           IsFiniteSet(T), T \subseteq S, \A x \in T : e[x] = f[x]
    PROVE  \A s \in SUBSET T : h[s] = g[s]
<1> DEFINE Bad == {n \in Nat : \E s \in SUBSET T : Cardinality(s) = n /\ h[s] # g[s]}
<1>1. \A s \in SUBSET T : IsFiniteSet(s) /\ Cardinality(s) \in Nat
  BY FS_Subset, FS_CardinalityType
<1>2. SUFFICES ASSUME Bad # {} PROVE FALSE
  BY <1>1
<1>3. PICK n \in Bad : \A m \in Bad : n <= m
  <2>1. Bad \in SUBSET Nat
    OBVIOUS
  <2> HIDE DEF Bad
  <2> QED
    BY <1>2, <2>1, LeastExists
<1>4. PICK s \in SUBSET T : Cardinality(s) = n /\ h[s] # g[s]
  BY <1>3
<1>5. h[s] = IF s = {} THEN 0 ELSE e[Pick(s)] + h[s \ {Pick(s)}]
  BY DEF IsSum
<1>6. g[s] = IF s = {} THEN 0 ELSE f[Pick(s)] + g[s \ {Pick(s)}]
  BY DEF IsSum
<1>7. s # {}
  BY <1>4, <1>5, <1>6
<1> DEFINE t == s \ {Pick(s)}
<1>8. Pick(s) \in s /\ t \in SUBSET T /\ Cardinality(t) = n - 1 /\ n \in Nat
  BY <1>1, <1>3, <1>4, <1>7, Picked
<1>9. h[t] # g[t]
  BY <1>4, <1>5, <1>6, <1>7, <1>8
<1> HIDE DEF t
<1>10. n - 1 \in Bad
  BY <1>1, <1>8, <1>9
<1> QED
  BY <1>3, <1>8, <1>10

-----------------------------------------------------------------------------
(* Totals *)

\* Nothing adds up to nothing.
LEMMA SumEmpty ==
    ASSUME NEW f
    PROVE  SumOf(f, {}) = 0
<1>1. PICK g : IsSum(g, f, {})
  BY SumExists, FS_EmptySet
<1>2. IsSum((CHOOSE h : IsSum(h, f, {})), f, {})
  BY <1>1
<1> QED
  BY <1>2, SumIsChosen DEF IsSum

\* A total is the same for terms that are the same.
LEMMA SumSame ==
    ASSUME NEW f, NEW e, NEW S, IsFiniteSet(S), \A x \in S : e[x] = f[x]
    PROVE  SumOf(e, S) = SumOf(f, S)
<1> DEFINE g == CHOOSE g : IsSum(g, f, S)
           h == CHOOSE h : IsSum(h, e, S)
<1>1. IsSum(g, f, S) /\ IsSum(h, e, S)
  BY SumExists
<1>2. SumOf(f, S) = g[S] /\ SumOf(e, S) = h[S]
  BY SumIsChosen
<1> HIDE DEF g, h
<1> QED
  BY <1>1, <1>2, SumsAgree

\* One term is added to the total of the others.
LEMMA SumPick ==
    ASSUME NEW f, NEW S, IsFiniteSet(S), S # {}
    PROVE  SumOf(f, S) = f[Pick(S)] + SumOf(f, S \ {Pick(S)})
<1> DEFINE T == S \ {Pick(S)}
           g == CHOOSE g : IsSum(g, f, S)
           h == CHOOSE h : IsSum(h, f, T)
<1>1. IsFiniteSet(T) /\ T \subseteq S
  BY Picked
<1>2. IsSum(g, f, S) /\ IsSum(h, f, T)
  BY <1>1, SumExists
<1>3. SumOf(f, S) = g[S] /\ SumOf(f, T) = h[T]
  BY SumIsChosen
<1> HIDE DEF g, h
<1>4. g[S] = f[Pick(S)] + g[T]
  BY <1>2 DEF IsSum
<1> HIDE DEF T
<1>5. h[T] = g[T]
  BY <1>1, <1>2, SumsAgree
<1> QED
  BY <1>3, <1>4, <1>5 DEF T

\* A total of natural numbers is one, and it does not matter which term is
\* added last.
LEMMA SumRemove ==
    ASSUME NEW f, NEW S, IsFiniteSet(S), \A x \in S : f[x] \in Nat
    PROVE  /\ SumOf(f, S) \in Nat
           /\ \A y \in S : SumOf(f, S) = f[y] + SumOf(f, S \ {y})
<1> DEFINE Good(s) == /\ SumOf(f, s) \in Nat
                      /\ \A y \in s : SumOf(f, s) = f[y] + SumOf(f, s \ {y})
           Bad == {n \in Nat : \E s \in SUBSET S : Cardinality(s) = n /\ ~Good(s)}
<1>1. \A s \in SUBSET S : IsFiniteSet(s) /\ Cardinality(s) \in Nat
  BY FS_Subset, FS_CardinalityType
<1>2. SUFFICES ASSUME ~Good(S) PROVE FALSE
  OBVIOUS
<1>3. Bad \in SUBSET Nat /\ Bad # {}
  <2> HIDE DEF Good
  <2> QED
    BY <1>1, <1>2
<1>4. PICK n \in Bad : \A m \in Bad : n <= m
  <2> HIDE DEF Bad
  <2> QED
    BY <1>3, LeastExists
<1>5. PICK s \in SUBSET S : Cardinality(s) = n /\ ~Good(s)
  BY <1>4
<1>6. IsFiniteSet(s) /\ n \in Nat
  BY <1>1, <1>4
<1>7. ASSUME NEW y \in s PROVE Good(s \ {y}) /\ n - 1 \in Nat
  <2>1. Cardinality(s \ {y}) = n - 1 /\ s \ {y} \in SUBSET S
    BY <1>5, <1>6, FS_RemoveElement
  <2>2. n - 1 \in Nat /\ n - 1 \notin Bad
    BY <1>1, <1>4, <1>6, <2>1
  <2> HIDE DEF Good
  <2> QED
    BY <2>1, <2>2
<1>8. CASE s = {}
  BY <1>5, <1>8, SumEmpty
<1>9. CASE s # {}
  <2> DEFINE c == Pick(s)
  <2>1. c \in s /\ f[c] \in Nat /\ SumOf(f, s) = f[c] + SumOf(f, s \ {c})
    BY <1>6, <1>9, Picked, SumPick
  <2> HIDE DEF c
  <2>2. SumOf(f, s \ {c}) \in Nat /\ SumOf(f, s) \in Nat
    BY <1>7, <2>1
  <2>3. ASSUME NEW y \in s, y # c PROVE SumOf(f, s) = f[y] + SumOf(f, s \ {y})
    <3> DEFINE r == (s \ {c}) \ {y}
    <3>1. r = (s \ {y}) \ {c} /\ y \in s \ {c} /\ c \in s \ {y} /\ f[y] \in Nat
      BY <2>1, <2>3
    <3>2. SumOf(f, s \ {c}) = f[y] + SumOf(f, r)
      BY <1>7, <2>1, <3>1
    <3>3. SumOf(f, s \ {y}) = f[c] + SumOf(f, r)
      BY <1>7, <2>1, <3>1
    <3>4. Good(r)
      <4>1. Cardinality(r) = n - 2 /\ r \in SUBSET S /\ Cardinality(r) \in Nat
        <5> DEFINE u == s \ {c}
        <5>1. IsFiniteSet(u) /\ Cardinality(u) = n - 1 /\ y \in u /\ r = u \ {y}
          BY <1>5, <1>6, <2>1, <3>1, FS_RemoveElement
        <5> HIDE DEF u, r
        <5>2. Cardinality(r) = Cardinality(u) - 1
          BY <5>1, FS_RemoveElement
        <5>3. Cardinality(r) = n - 2
          BY <1>6, <5>1, <5>2
        <5> QED
          BY <1>1, <5>3 DEF r
      <4>2. n - 2 \notin Bad
        BY <1>4, <1>6
      <4> HIDE DEF Good, r
      <4> QED
        BY <4>1, <4>2
    <3>5. SumOf(f, r) \in Nat
      BY <3>4
    <3> HIDE DEF r
    <3> QED
      BY <2>1, <3>1, <3>2, <3>3, <3>5
  <2>4. Good(s)
    BY <2>1, <2>2, <2>3
  <2> QED
    BY <1>5, <2>4
<1> QED
  BY <1>8, <1>9

\* A total of natural numbers is a natural number.
LEMMA SumNat ==
    ASSUME NEW f, NEW S, IsFiniteSet(S), \A x \in S : f[x] \in Nat
    PROVE  SumOf(f, S) \in Nat
BY SumRemove

\* A new term is added to the total.
LEMMA SumAdd ==
    ASSUME NEW f, NEW S, IsFiniteSet(S), \A x \in S : f[x] \in Nat,
           NEW y, y \notin S, f[y] \in Nat
    PROVE  SumOf(f, S \cup {y}) = f[y] + SumOf(f, S)
<1>1. IsFiniteSet(S \cup {y}) /\ (S \cup {y}) \ {y} = S
  BY FS_AddElement
<1>2. \A x \in S \cup {y} : f[x] \in Nat
  OBVIOUS
<1> QED
  BY <1>1, <1>2, SumRemove

\* When one term changes, the total changes by as much.
LEMMA SumChange ==
    ASSUME NEW f, NEW e, NEW S, IsFiniteSet(S), \A x \in S : f[x] \in Nat /\ e[x] \in Nat,
           NEW y \in S, \A x \in S : x # y => e[x] = f[x]
    PROVE  SumOf(e, S) + f[y] = SumOf(f, S) + e[y]
<1>1. IsFiniteSet(S \ {y})
  BY FS_RemoveElement
<1>2. SumOf(e, S \ {y}) = SumOf(f, S \ {y})
  BY <1>1, SumSame
<1>3. SumOf(f, S) = f[y] + SumOf(f, S \ {y})
  BY SumRemove
<1>4. SumOf(e, S) = e[y] + SumOf(e, S \ {y})
  BY SumRemove
<1>5. SumOf(f, S \ {y}) \in Nat
  BY <1>1, SumNat
<1> QED
  BY <1>2, <1>3, <1>4, <1>5

\* Terms that are zero add nothing.
LEMMA SumZeros ==
    ASSUME NEW f, NEW S, IsFiniteSet(S), NEW T \in SUBSET S,
           \A x \in S : f[x] \in Nat, \A x \in S \ T : f[x] = 0
    PROVE  SumOf(f, S) = SumOf(f, T)
<1> DEFINE Bad == {n \in Nat : \E s \in SUBSET S :
                     T \subseteq s /\ Cardinality(s) = n /\ SumOf(f, s) # SumOf(f, T)}
<1>1. \A s \in SUBSET S : IsFiniteSet(s) /\ Cardinality(s) \in Nat
  BY FS_Subset, FS_CardinalityType
<1>2. SUFFICES ASSUME SumOf(f, S) # SumOf(f, T) PROVE FALSE
  OBVIOUS
<1>3. Bad \in SUBSET Nat /\ Bad # {}
  BY <1>1, <1>2
<1>4. PICK n \in Bad : \A m \in Bad : n <= m
  <2> HIDE DEF Bad
  <2> QED
    BY <1>3, LeastExists
<1>5. PICK s \in SUBSET S : T \subseteq s /\ Cardinality(s) = n /\ SumOf(f, s) # SumOf(f, T)
  BY <1>4
<1>6. IsFiniteSet(s) /\ n \in Nat /\ s # T
  BY <1>1, <1>4, <1>5
<1>7. PICK y \in s : y \notin T
  BY <1>5, <1>6
<1> DEFINE t == s \ {y}
<1>8. /\ t \in SUBSET S /\ T \subseteq t /\ Cardinality(t) = n - 1 /\ Cardinality(t) \in Nat
      /\ \A x \in t : f[x] \in Nat
  BY <1>1, <1>5, <1>6, <1>7, FS_RemoveElement
<1>9. SumOf(f, s) = f[y] + SumOf(f, t) /\ f[y] = 0
  BY <1>5, <1>6, <1>7, SumRemove
<1>10. SumOf(f, t) \in Nat
  BY <1>1, <1>8, SumNat
<1> HIDE DEF t
<1>11. n - 1 \in Bad
  BY <1>5, <1>8, <1>9, <1>10
<1> QED
  BY <1>4, <1>6, <1>11

\* Smaller terms have a smaller total.
LEMMA SumMonotone ==
    ASSUME NEW f, NEW e, NEW S, IsFiniteSet(S),
           \A x \in S : e[x] \in Nat /\ f[x] \in Nat /\ e[x] <= f[x]
    PROVE  SumOf(e, S) <= SumOf(f, S)
<1> DEFINE Bad == {n \in Nat : \E s \in SUBSET S :
                     Cardinality(s) = n /\ ~(SumOf(e, s) <= SumOf(f, s))}
<1>1. \A s \in SUBSET S : IsFiniteSet(s) /\ Cardinality(s) \in Nat
  BY FS_Subset, FS_CardinalityType
<1>2. SUFFICES ASSUME ~(SumOf(e, S) <= SumOf(f, S)) PROVE FALSE
  OBVIOUS
<1>3. Bad \in SUBSET Nat /\ Bad # {}
  BY <1>1, <1>2
<1>4. PICK n \in Bad : \A m \in Bad : n <= m
  <2> HIDE DEF Bad
  <2> QED
    BY <1>3, LeastExists
<1>5. PICK s \in SUBSET S : Cardinality(s) = n /\ ~(SumOf(e, s) <= SumOf(f, s))
  BY <1>4
<1>6. IsFiniteSet(s) /\ n \in Nat /\ s # {}
  BY <1>1, <1>4, <1>5, SumEmpty
<1>7. PICK y \in s : TRUE
  BY <1>6
<1> DEFINE t == s \ {y}
<1>8. t \in SUBSET S /\ Cardinality(t) = n - 1 /\ Cardinality(t) \in Nat
  BY <1>1, <1>5, <1>6, <1>7, FS_RemoveElement
<1>9. SumOf(e, s) = e[y] + SumOf(e, t) /\ SumOf(f, s) = f[y] + SumOf(f, t)
  BY <1>5, <1>6, <1>7, SumRemove
<1>10. SumOf(e, t) \in Nat /\ SumOf(f, t) \in Nat
  BY <1>1, <1>8, SumNat
<1> HIDE DEF t
<1>11. ~(SumOf(e, t) <= SumOf(f, t))
  BY <1>5, <1>7, <1>9, <1>10
<1>12. n - 1 \in Bad
  BY <1>8, <1>11
<1> QED
  BY <1>4, <1>6, <1>12

\* The total over a part is not more than the total.
LEMMA SumSubset ==
    ASSUME NEW f, NEW S, IsFiniteSet(S), NEW T \in SUBSET S, \A x \in S : f[x] \in Nat
    PROVE  SumOf(f, T) <= SumOf(f, S)
<1> DEFINE e == [x \in S |-> IF x \in T THEN f[x] ELSE 0]
<1>1. \A x \in S : e[x] \in Nat /\ e[x] <= f[x]
  OBVIOUS
<1>2. \A x \in S \ T : e[x] = 0
  OBVIOUS
<1>3. IsFiniteSet(T) /\ \A x \in T : e[x] = f[x]
  BY FS_Subset
<1> HIDE DEF e
<1>4. SumOf(e, S) = SumOf(e, T)
  BY <1>1, <1>2, SumZeros
<1>5. SumOf(e, T) = SumOf(f, T)
  BY <1>3, SumSame
<1>6. SumOf(e, S) <= SumOf(f, S)
  BY <1>1, SumMonotone
<1> QED
  BY <1>4, <1>5, <1>6
=============================================================================
