---------------------------- MODULE SearchProofs ----------------------------
(***************************************************************************)
(* Searches find what they should, pages neither repeat nor leave out, and *)
(* masks and the Luhn sum do what they are for: proofs for every set of    *)
(* ids, objects, queries and schemas, and every size of a page.            *)
(***************************************************************************)
EXTENDS Search, SequenceTheorems, SumProofs

-----------------------------------------------------------------------------
(* Sets of numbers in ascending order *)

\* How many elements of S come before i.
Before(S, i) == Cardinality({j \in S : j < i})

\* Ranks are numbers below the size of the set, and grow with the elements.
LEMMA Ranks ==
    ASSUME NEW S \in SUBSET Nat, IsFiniteSet(S)
    PROVE  /\ Cardinality(S) \in Nat
           /\ \A i \in S : Before(S, i) \in 0..(Cardinality(S) - 1)
           /\ \A i, j \in S : i < j <=> Before(S, i) < Before(S, j)
<1>1. Cardinality(S) \in Nat
  BY FS_CardinalityType
<1>2. ASSUME NEW i \in S PROVE IsFiniteSet({k \in S : k < i}) /\ Before(S, i) \in Nat
  BY FS_Subset, FS_CardinalityType DEF Before
<1>3. ASSUME NEW i \in S PROVE Before(S, i) < Cardinality(S)
  <2> DEFINE A == {k \in S : k < i}
  <2>1. A \in SUBSET S /\ A # S
    OBVIOUS
  <2> HIDE DEF A
  <2>2. Cardinality(A) <= Cardinality(S) /\ Cardinality(S) # Cardinality(A)
    BY <2>1, FS_Subset
  <2>3. Before(S, i) = Cardinality(A)
    BY DEF A, Before
  <2>4. Before(S, i) \in Nat
    BY <1>2
  <2> QED
    BY <1>1, <2>2, <2>3, <2>4
<1>4. ASSUME NEW i \in S, NEW j \in S, i < j PROVE Before(S, i) < Before(S, j)
  <2> DEFINE A == {k \in S : k < i}
             B == {k \in S : k < j}
  <2>1. A \in SUBSET B
    <3>1. i \in Nat /\ j \in Nat /\ \A k \in S : k \in Nat
      OBVIOUS
    <3>2. \A k \in S : k < i => k < j
      BY <1>4, <3>1
    <3> QED
      BY <3>2
  <2>2. i \in B /\ i \notin A
    BY <1>4
  <2>3. IsFiniteSet(B) /\ Cardinality(A) \in Nat /\ Cardinality(B) \in Nat
    BY <1>2 DEF Before
  <2> HIDE DEF A, B
  <2>4. Cardinality(A) <= Cardinality(B) /\ (Cardinality(B) = Cardinality(A) => B = A)
    BY <2>1, <2>3, FS_Subset
  <2>5. Cardinality(A) < Cardinality(B)
    BY <2>2, <2>3, <2>4
  <2> QED
    BY <2>5 DEF A, B, Before
<1>5. ASSUME NEW i \in S, NEW j \in S, Before(S, i) < Before(S, j) PROVE i < j
  <2>1. i \in Nat /\ j \in Nat /\ Before(S, i) \in Nat /\ Before(S, j) \in Nat
    BY <1>2
  <2>2. j < i => Before(S, j) < Before(S, i)
    BY <1>4
  <2> QED
    BY <1>5, <2>1, <2>2
<1>6. ASSUME NEW i \in S PROVE Before(S, i) \in 0..(Cardinality(S) - 1)
  <2>1. Before(S, i) \in Nat /\ Before(S, i) < Cardinality(S)
    BY <1>2, <1>3
  <2> QED
    BY <1>1, <2>1
<1>7. \A i, j \in S : i < j <=> Before(S, i) < Before(S, j)
  BY <1>4, <1>5
<1> QED
  BY <1>1, <1>6, <1>7

\* Every rank is somebody's: ranks are different, and as many as there are
\* elements.
LEMMA NthExists ==
    ASSUME NEW S \in SUBSET Nat, IsFiniteSet(S), NEW n \in 1..Cardinality(S)
    PROVE  Nth(S, n) \in S /\ Before(S, Nth(S, n)) = n - 1
<1> DEFINE R == 0..(Cardinality(S) - 1)
           f == [i \in S |-> Before(S, i)]
<1>1. Cardinality(S) \in Nat
  BY Ranks
<1>2. f \in [S -> R]
  BY Ranks
<1>3. \A i, j \in S : f[i] = f[j] => i = j
  <2>1. SUFFICES ASSUME NEW i \in S, NEW j \in S, f[i] = f[j] PROVE i = j
    OBVIOUS
  <2>2. i \in Nat /\ j \in Nat /\ Before(S, i) \in Nat /\ Before(S, i) = Before(S, j)
    BY <2>1, Ranks
  <2>3. ~(i < j) /\ ~(j < i)
    BY <2>2, Ranks
  <2> QED
    BY <2>2, <2>3
<1>4. f \in Injection(S, R)
  BY <1>2, <1>3 DEF Injection, IsInjective
<1>5. IsFiniteSet(R) /\ Cardinality(R) = Cardinality(S)
  <2>1. Cardinality(S) - 1 \in Int
    BY <1>1
  <2>2. /\ IsFiniteSet(R)
        /\ Cardinality(R) = IF 0 > Cardinality(S) - 1 THEN 0 ELSE Cardinality(S) - 1 - 0 + 1
    BY <2>1, FS_Interval
  <2> QED
    BY <1>1, <2>2
<1>6. f \in Surjection(S, R)
  BY <1>4, <1>5, FS_Injection
<1>7. n - 1 \in R
  BY <1>1
<1>8. \E i \in S : f[i] = n - 1
  BY <1>6, <1>7 DEF Surjection
<1>9. \E i \in S : Cardinality({j \in S : j < i}) = n - 1
  BY <1>8 DEF Before
<1> QED
  BY <1>9 DEF Nth, Before

\* The n-th element is the one with n - 1 before it.
LEMMA NthIs ==
    ASSUME NEW S \in SUBSET Nat, IsFiniteSet(S), NEW i \in S
    PROVE  /\ Before(S, i) + 1 \in 1..Cardinality(S)
           /\ Nth(S, Before(S, i) + 1) = i
<1>1. Before(S, i) \in Nat /\ Before(S, i) + 1 \in 1..Cardinality(S)
  BY Ranks
<1> DEFINE k == Nth(S, Before(S, i) + 1)
<1>2. k \in S /\ Before(S, k) = (Before(S, i) + 1) - 1
  BY <1>1, NthExists
<1> HIDE DEF k
<1>3. Before(S, k) = Before(S, i)
  BY <1>1, <1>2
<1>4. ~(k < i) /\ ~(i < k)
  BY <1>1, <1>2, <1>3, Ranks
<1>5. k = i
  BY <1>2, <1>4
<1> QED
  BY <1>1, <1>5 DEF k

\* A set in ascending order: each element once, the smaller ones first.
LEMMA AscendingIs ==
    ASSUME NEW S \in SUBSET Nat, IsFiniteSet(S)
    PROVE  /\ Ascending(S) \in Seq(S)
           /\ Len(Ascending(S)) = Cardinality(S)
           /\ \A m, n \in 1..Cardinality(S) : m < n => Ascending(S)[m] < Ascending(S)[n]
           /\ \A i \in S : \E n \in 1..Cardinality(S) : Ascending(S)[n] = i
<1>1. Cardinality(S) \in Nat
  BY Ranks
<1>2. \A n \in 1..Cardinality(S) : /\ Ascending(S)[n] = Nth(S, n)
                                   /\ Nth(S, n) \in S
                                   /\ Before(S, Nth(S, n)) = n - 1
  BY NthExists DEF Ascending
<1>3. Ascending(S) \in [1..Cardinality(S) -> S]
  BY <1>2 DEF Ascending
<1>4. Ascending(S) \in Seq(S) /\ Len(Ascending(S)) = Cardinality(S)
  BY <1>1, <1>3
<1>5. ASSUME NEW m \in 1..Cardinality(S), NEW n \in 1..Cardinality(S), m < n
      PROVE  Ascending(S)[m] < Ascending(S)[n]
  <2>1. m - 1 < n - 1
    BY <1>1, <1>5
  <2>2. Before(S, Nth(S, m)) < Before(S, Nth(S, n))
    BY <1>2, <2>1
  <2> QED
    BY <1>2, <2>2, Ranks
<1>6. \A i \in S : \E n \in 1..Cardinality(S) : Ascending(S)[n] = i
  BY <1>2, NthIs
<1> QED
  BY <1>4, <1>5, <1>6

\* The first n of a set: what is left out comes after them, and nothing is
\* left out unless they are n.
LEMMA FirstIs ==
    ASSUME NEW S \in SUBSET Nat, IsFiniteSet(S), NEW n \in Nat
    PROVE  /\ First(S, n) \in SUBSET S /\ IsFiniteSet(First(S, n))
           /\ \A i \in S \ First(S, n) : \A j \in First(S, n) : i > j
           /\ First(S, n) # S => Cardinality(First(S, n)) = n
<1> DEFINE F == First(S, n)
<1>1. F = {i \in S : Before(S, i) < n} /\ F \in SUBSET S /\ IsFiniteSet(F)
  BY FS_Subset DEF First, Before
<1> HIDE DEF F
<1>2. ASSUME NEW i \in S \ F, NEW j \in F PROVE i > j
  <2>1. /\ i \in S /\ j \in S /\ i \in Nat /\ j \in Nat
        /\ Before(S, i) \in Nat /\ Before(S, j) \in Nat
    BY <1>1, Ranks
  <2>2. ~(Before(S, i) < n) /\ Before(S, j) < n
    BY <1>1
  <2>3. Before(S, j) < Before(S, i)
    BY <2>1, <2>2
  <2>4. j < i
    BY <2>1, <2>3, Ranks
  <2> QED
    BY <2>1, <2>4
<1>3. ASSUME F # S PROVE Cardinality(F) = n
  <2>0. \A i \in S : Before(S, i) \in Nat
    BY Ranks
  <2>1. PICK i \in S : Before(S, i) >= n
    <3>1. PICK i \in S : i \notin F
      BY <1>1, <1>3
    <3>2. ~(Before(S, i) < n) /\ Before(S, i) \in Nat
      BY <1>1, <2>0, <3>1
    <3> QED
      BY <3>2
  <2>2. Cardinality(S) \in Nat /\ n < Cardinality(S) + 1 /\ 1..n \subseteq 1..Cardinality(S)
    BY <2>1, Ranks
  <2> DEFINE g == [m \in 1..n |-> Nth(S, m)]
  <2>3. \A m \in 1..n : g[m] \in S /\ Before(S, g[m]) = m - 1
    BY <2>2, NthExists
  <2>4. \A m \in 1..n : g[m] \in F
    BY <1>1, <2>3
  <2>5. g \in Injection(1..n, F)
    <3>1. \A l, m \in 1..n : g[l] = g[m] => l = m
      <4>1. SUFFICES ASSUME NEW l \in 1..n, NEW m \in 1..n, g[l] = g[m] PROVE l = m
        OBVIOUS
      <4>2. l - 1 = m - 1
        BY <2>3, <4>1
      <4> QED
        BY <4>2
    <3>2. g \in [1..n -> F]
      BY <2>4
    <3> QED
      BY <3>1, <3>2 DEF Injection, IsInjective
  <2>6. \A i1 \in F : \E m \in 1..n : g[m] = i1
    <3>1. SUFFICES ASSUME NEW k \in F PROVE \E m \in 1..n : g[m] = k
      OBVIOUS
    <3>2. Before(S, k) \in Nat /\ Before(S, k) + 1 \in 1..n
      BY <1>1, Ranks
    <3> QED
      BY <1>1, <3>2, NthIs
  <2>7. g \in Surjection(1..n, F)
    BY <2>5, <2>6 DEF Injection, Surjection
  <2>8. IsFiniteSet(1..n) /\ Cardinality(1..n) = n
    BY FS_Interval
  <2> HIDE DEF g
  <2>9. Cardinality(1..n) = Cardinality(F)
    BY <1>1, <2>5, <2>7, FS_Injection
  <2> QED
    BY <2>8, <2>9
<1> QED
  BY <1>1, <1>2, <1>3 DEF F

-----------------------------------------------------------------------------
(* The inductive invariant *)

Typed ==
    /\ objects \in [Ids -> Objects \cup {None}]
    /\ live \subseteq Ids /\ checked \subseteq live
    /\ \A i \in live : objects[i] # None
    /\ schema \in OldSchemas \cup {NewSchema}
    /\ \A e \in index : e.id \in live
    /\ rix \in [pc : {"off", "scan", "rows", "done"}, page : SUBSET Ids, last : Nat]
    /\ rix.pc = "rows" <=> rix.page # {}
    /\ rix.pc # "off" => schema = NewSchema
    /\ pager \in [pc : {"idle", "ask", "done"}, query : Queries \cup {None},
                  after : Nat, got : Seq(Ids)]
    /\ pager.pc = "idle" <=> pager.query = None

\* What a create under the new schema stored was validated by it.
CheckedValid ==
    \A i \in checked : schema = NewSchema /\ Validate(NewSchema, objects[i])

\* The row of i is on the page in hand, or beyond it.
Ahead(i) ==
    \/ i \in rix.page
    \/ i > rix.last /\ \A j \in rix.page : i > j

Right(i) == \E out \in Indexed(schema, objects[i]) : EntriesOf(i) = Entries(i, out)

\* What is not indexed by the schema in use is ahead of a reindex.
IndexRight ==
    \A i \in live : \/ Right(i)
                    \/ /\ schema = NewSchema
                       /\ rix.pc = "off" \/ (rix.pc # "done" /\ Ahead(i))

Got(i) == \E n \in 1..Len(pager.got) : pager.got[n] = i

\* The caller has every id up to its cursor that matched all along.
PagerSoFar ==
    /\ always \subseteq Matching
    /\ PagesAscend
    /\ pager.pc = "idle" => pager.got = <<>>
    /\ pager.pc = "ask" => /\ \A n \in 1..Len(pager.got) : pager.got[n] <= pager.after
                           /\ \A i \in always : i <= pager.after => Got(i)
    /\ pager.pc = "done" => \A i \in always : Got(i)

\* The inductive invariant of searching.
SearchInv == Typed /\ CheckedValid /\ IndexRight /\ PagerSoFar

\* At first nothing is stored, indexed or asked for.
LEMMA InitSearchInv == Init => SearchInv
<1> SUFFICES ASSUME Init PROVE SearchInv
  OBVIOUS
<1>1. Typed
  BY DEF Init, Typed, NoRun, NoQuery
<1>2. CheckedValid /\ IndexRight
  BY DEF Init, CheckedValid, IndexRight
<1>3. PagerSoFar
  BY DEF Init, PagerSoFar, NoQuery, PagesAscend
<1> QED
  BY <1>1, <1>2, <1>3 DEF SearchInv

-----------------------------------------------------------------------------
(* What a step leaves as it was *)

\* What a search finds is live.
LEMMA HitsLive ==
    ASSUME Typed, NEW q
    PROVE  Hits(q) \subseteq live /\ Hits(q) \in SUBSET Nat /\ IsFiniteSet(Hits(q))
<1>1. Hits(q) \subseteq live
  BY DEF Hits, Typed
<1>2. Hits(q) \in SUBSET Ids
  BY <1>1 DEF Typed
<1> QED
  BY <1>1, <1>2, FS_Subset, SearchAssumption

\* A caller between two requests: of what matched all along there is less and
\* less.
LEMMA PagerStays ==
    ASSUME SearchInv, pager' = pager, Track
    PROVE  PagerSoFar'
<1>1. always' \subseteq Matching' /\ always' \subseteq always
  <2>1. CASE pager.query = None
    <3>1. Matching' = {} /\ always' = Matching'
      BY <2>1 DEF Track, Matching
    <3> QED
      BY <3>1
  <2>2. CASE pager.query # None
    BY <2>2 DEF Track
  <2> QED
    BY <2>1, <2>2
<1>2. PagesAscend' <=> PagesAscend
  BY DEF PagesAscend
<1>3. \A i : Got(i)' <=> Got(i)
  BY DEF Got
<1> QED
  BY <1>1, <1>2, <1>3 DEF SearchInv, PagerSoFar

\* Validated objects stay so while they and the schema stay.
LEMMA CheckedStays ==
    ASSUME CheckedValid, UNCHANGED <<stored, schema>>
    PROVE  CheckedValid'
BY DEF CheckedValid, stored, Validate

\* The entries of an object, wherever the index and its values stay.
LEMMA RightStays ==
    ASSUME NEW i, objects'[i] = objects[i], schema' = schema, EntriesOf(i)' = EntriesOf(i)
    PROVE  Right(i)' <=> Right(i)
BY DEF Right

\* The index stays right while nothing of it changes.
LEMMA IndexStays ==
    ASSUME IndexRight, UNCHANGED <<stored, index, schema, rix>>
    PROVE  IndexRight'
<1>1. \A i : EntriesOf(i)' = EntriesOf(i)
  BY DEF EntriesOf
<1>2. \A i : Right(i)' <=> Right(i)
  BY <1>1 DEF Right, stored
<1>3. \A i : Ahead(i)' <=> Ahead(i)
  BY DEF Ahead
<1> QED
  BY <1>2, <1>3 DEF IndexRight, stored

-----------------------------------------------------------------------------
(* Objects *)

\* Create: a new object is indexed by the schema that validated it.
LEMMA CreateInv ==
    ASSUME SearchInv, NEW i \in Ids, NEW o \in Objects, Create(i, o), Track
    PROVE  SearchInv'
<1> USE DEF SearchInv
<1>0. PICK out \in Indexed(schema, o) : index' = index \cup Entries(i, out)
  BY DEF Create
<1>1. /\ objects' = [objects EXCEPT ![i] = o] /\ live' = live \cup {i}
      /\ index' = index \cup Entries(i, out)
      /\ schema' = schema /\ rix' = rix /\ pager' = pager
      /\ objects[i] = None /\ Validate(schema, o)
      /\ checked' = IF schema = NewSchema THEN checked \cup {i} ELSE checked
  BY <1>0 DEF Create
<1>2. o # None /\ i \notin live /\ objects \in [Ids -> Objects \cup {None}]
  BY <1>1, SearchAssumption DEF Typed
<1>3. \A j \in Ids : objects'[j] = IF j = i THEN o ELSE objects[j]
  BY <1>1, <1>2
<1>4. \A e \in Entries(i, out) : e.id = i
  BY DEF Entries
<1>5. Typed'
  <2>1. objects' \in [Ids -> Objects \cup {None}]
    BY <1>1, <1>2
  <2>2. live' \subseteq Ids /\ checked' \subseteq live'
    BY <1>1 DEF Typed
  <2>3. \A j \in live' : objects'[j] # None
    BY <1>1, <1>2, <1>3 DEF Typed
  <2>4. \A e \in index' : e.id \in live'
    BY <1>1, <1>4 DEF Typed
  <2> QED
    BY <1>1, <2>1, <2>2, <2>3, <2>4 DEF Typed
<1>6. CheckedValid'
  <2>1. SUFFICES ASSUME NEW j \in checked'
                 PROVE  schema' = NewSchema /\ Validate(NewSchema, objects'[j])
    BY DEF CheckedValid
  <2>2. CASE j = i /\ j \notin checked
    <3>1. schema = NewSchema /\ objects'[j] = o
      BY <1>1, <1>3, <2>1, <2>2
    <3> QED
      BY <1>1, <3>1
  <2>3. CASE j \in checked
    <3>1. j # i /\ j \in Ids
      BY <1>2, <2>3 DEF Typed
    <3>2. objects'[j] = objects[j] /\ schema = NewSchema
      BY <1>3, <2>3, <3>1 DEF CheckedValid
    <3>3. Validate(NewSchema, objects[j])
      BY <2>3 DEF CheckedValid
    <3> QED
      BY <1>1, <3>2, <3>3
  <2> QED
    BY <1>1, <2>1, <2>2, <2>3
<1>7. IndexRight'
  <2>1. EntriesOf(i) = {}
    BY <1>2 DEF EntriesOf, Typed
  <2>2. EntriesOf(i)' = Entries(i, out)
    BY <1>1, <1>4, <2>1 DEF EntriesOf
  <2>3. Right(i)'
    BY <1>0, <1>1, <1>3, <2>2 DEF Right
  <2>4. ASSUME NEW j \in live, j # i PROVE (Right(j)' <=> Right(j)) /\ (Ahead(j)' <=> Ahead(j))
    <3>1. objects'[j] = objects[j]
      BY <1>3, <2>4 DEF Typed
    <3>2. EntriesOf(j)' = EntriesOf(j)
      BY <1>1, <1>4, <2>4 DEF EntriesOf
    <3>3. Ahead(j)' <=> Ahead(j)
      BY <1>1 DEF Ahead
    <3> QED
      BY <1>1, <3>1, <3>2, <3>3, RightStays
  <2> QED
    BY <1>1, <2>3, <2>4 DEF IndexRight
<1>8. PagerSoFar'
  BY <1>1, PagerStays
<1> QED
  BY <1>5, <1>6, <1>7, <1>8

\* Shred: index rows go with their object.
LEMMA ShredInv ==
    ASSUME SearchInv, NEW i \in Ids, Shred(i), Track
    PROVE  SearchInv'
<1> USE DEF SearchInv
<1>1. /\ objects' = objects /\ live' = live \ {i} /\ checked' = checked \ {i}
      /\ index' = index \ EntriesOf(i)
      /\ schema' = schema /\ rix' = rix /\ pager' = pager
  BY DEF Shred
<1>2. Typed'
  <2>1. \A e \in index' : e.id \in live'
    BY <1>1 DEF Typed, EntriesOf
  <2> QED
    BY <1>1, <2>1 DEF Typed
<1>3. CheckedValid'
  BY <1>1 DEF CheckedValid, Validate
<1>4. IndexRight'
  <2>1. ASSUME NEW j \in live' PROVE (Right(j)' <=> Right(j)) /\ (Ahead(j)' <=> Ahead(j))
    <3>1. EntriesOf(j)' = EntriesOf(j)
      BY <1>1, <2>1 DEF EntriesOf
    <3>2. Ahead(j)' <=> Ahead(j)
      BY <1>1 DEF Ahead
    <3> QED
      BY <1>1, <3>1, <3>2, RightStays
  <2> QED
    BY <1>1, <2>1 DEF IndexRight
<1>5. PagerSoFar'
  BY <1>1, PagerStays
<1> QED
  BY <1>2, <1>3, <1>4, <1>5

\* Redeploy: what is indexed by the old schema is for reindex to rebuild.
LEMMA RedeployInv ==
    ASSUME SearchInv, Redeploy, Track
    PROVE  SearchInv'
<1> USE DEF SearchInv
<1>1. /\ UNCHANGED <<objects, live, checked, index, rix, pager>>
      /\ schema # NewSchema /\ schema' = NewSchema
  BY DEF Redeploy, stored
<1>2. rix.pc = "off" /\ checked = {}
  BY <1>1 DEF Typed, CheckedValid
<1>3. Typed'
  BY <1>1 DEF Typed
<1>4. CheckedValid' /\ IndexRight'
  BY <1>1, <1>2 DEF CheckedValid, IndexRight
<1>5. PagerSoFar'
  BY <1>1, PagerStays
<1> QED
  BY <1>3, <1>4, <1>5

-----------------------------------------------------------------------------
(* Reindex *)

\* ReindexStart: every row is ahead.
LEMMA ReindexStartInv ==
    ASSUME SearchInv, ReindexStart, Track
    PROVE  SearchInv'
<1> USE DEF SearchInv
<1>1. /\ UNCHANGED <<objects, live, checked, index, schema, pager>>
      /\ schema = NewSchema /\ rix' = [pc |-> "scan", page |-> {}, last |-> 0]
  BY DEF ReindexStart, NoRun, stored
<1>2. Typed'
  BY <1>1 DEF Typed
<1>3. CheckedValid'
  BY <1>1, CheckedStays DEF stored
<1>4. IndexRight'
  <2>1. \A i \in live' : Ahead(i)'
    BY <1>1, SearchAssumption DEF Ahead, Typed
  <2> QED
    BY <1>1, <2>1 DEF IndexRight
<1>5. PagerSoFar'
  BY <1>1, PagerStays
<1> QED
  BY <1>2, <1>3, <1>4, <1>5

\* ReindexPage: what is not on the page is behind, or beyond it.
LEMMA ReindexPageInv ==
    ASSUME SearchInv, ReindexPage, Track
    PROVE  SearchInv'
<1> USE DEF SearchInv
<1> DEFINE T == {i \in live : ReindexAfter(i)}
           S == First(T, PageSize)
<1>1. /\ UNCHANGED <<objects, live, checked, index, schema, pager>>
      /\ rix.pc = "scan"
      /\ rix' = [rix EXCEPT !.pc = IF S = {} THEN "done" ELSE "rows", !.page = S]
  BY DEF ReindexPage, stored
<1>2. /\ T \in SUBSET Ids /\ T \in SUBSET Nat /\ IsFiniteSet(T)
      /\ PageSize \in Nat \ {0}
  <2>1. T \in SUBSET Ids
    BY DEF Typed
  <2> HIDE DEF T
  <2> QED
    BY <2>1, FS_Subset, SearchAssumption
<1>3. /\ S \in SUBSET T /\ IsFiniteSet(S)
      /\ \A i \in T \ S : \A j \in S : i > j
      /\ S = {} => T = {}
  <2> HIDE DEF T
  <2>1. PageSize \in Nat
    BY <1>2
  <2>2. /\ S \in SUBSET T /\ IsFiniteSet(S)
        /\ \A i \in T \ S : \A j \in S : i > j
        /\ S # T => Cardinality(S) = PageSize
    BY <1>2, <2>1, FirstIs
  <2> HIDE DEF S
  <2>3. S = {} => S = T
    BY <1>2, <2>2, FS_EmptySet
  <2> QED
    BY <2>2, <2>3
<1>4. rix.page = {} /\ schema = NewSchema
  BY <1>1 DEF Typed
<1>5. ASSUME NEW i \in live PROVE i \in T <=> i > rix.last
  BY DEF ReindexAfter
<1> HIDE DEF S, T
<1>6. /\ rix'.pc = IF S = {} THEN "done" ELSE "rows"
      /\ rix'.page = S /\ rix'.last = rix.last
  BY <1>1 DEF Typed
<1>7. Typed'
  <2>1. /\ rix' \in [pc : {"off", "scan", "rows", "done"}, page : SUBSET Ids, last : Nat]
        /\ rix'.pc = "rows" <=> rix'.page # {}
    BY <1>1, <1>2, <1>3, <1>6 DEF Typed
  <2> QED
    BY <1>1, <1>4, <2>1 DEF Typed
<1>8. CheckedValid'
  BY <1>1, CheckedStays DEF stored
<1>9. IndexRight'
  <2>1. SUFFICES ASSUME NEW i \in live, ~Right(i) PROVE rix'.pc # "done" /\ Ahead(i)'
    <3>1. \A i : Right(i)' <=> Right(i)
      BY <1>1 DEF Right, EntriesOf
    <3> QED
      BY <1>1, <1>4, <2>1, <3>1 DEF IndexRight
  <2>2. i > rix.last
    BY <1>1, <1>4, <2>1 DEF IndexRight, Ahead
  <2>3. i \in T /\ S # {}
    BY <1>3, <1>5, <2>2
  <2>4. i \in S \/ \A j \in S : i > j
    BY <1>3, <2>3
  <2> QED
    BY <1>6, <2>2, <2>3, <2>4 DEF Ahead
<1>10. PagerSoFar'
  BY <1>1, PagerStays
<1> QED
  BY <1>7, <1>8, <1>9, <1>10

\* ReindexRow: the row in hand is rebuilt, and the others stay as they were.
LEMMA ReindexRowInv ==
    ASSUME SearchInv, ReindexRow, Track
    PROVE  SearchInv'
<1> USE DEF SearchInv
<1>1. PICK i \in rix.page : i = Min(rix.page) /\ \A j \in rix.page : i <= j
  <2>1. rix.page \in SUBSET Nat /\ rix.page # {}
    BY SearchAssumption DEF ReindexRow, Typed
  <2>2. \E n \in rix.page : \A m \in rix.page : n <= m
    BY <2>1, LeastExists
  <2> QED
    BY <2>2 DEF Min
<1>0. PICK out : /\ i \in live => /\ out \in Indexed(schema, objects[i])
                                  /\ index' = (index \ EntriesOf(i)) \cup Entries(i, out)
                 /\ i \notin live => index' = index
  BY <1>1 DEF ReindexRow
<1>2. /\ UNCHANGED <<objects, live, checked, schema, pager>>
      /\ rix.pc = "rows"
      /\ index' = IF i \in live THEN (index \ EntriesOf(i)) \cup Entries(i, out) ELSE index
      /\ rix' = [pc   |-> IF rix.page = {i} THEN "scan" ELSE "rows",
                 page |-> rix.page \ {i}, last |-> i]
  BY <1>0, <1>1 DEF ReindexRow, stored
<1>3. rix.page \subseteq Ids /\ schema = NewSchema /\ Ids \subseteq Nat /\ live \subseteq Ids
  BY <1>2, SearchAssumption DEF Typed
<1>4. \A e \in Entries(i, out) : e.id = i
  BY DEF Entries
<1>5. Typed'
  <2>1. \A e \in index' : e.id \in live'
    BY <1>2, <1>4 DEF Typed
  <2>2. /\ rix' \in [pc : {"off", "scan", "rows", "done"}, page : SUBSET Ids, last : Nat]
        /\ rix'.pc = "rows" <=> rix'.page # {}
    BY <1>1, <1>2, <1>3
  <2> QED
    BY <1>2, <1>3, <2>1, <2>2 DEF Typed
<1>6. CheckedValid'
  BY <1>2, CheckedStays DEF stored
<1>7. IndexRight'
  <2>1. i \in live => Right(i)'
    <3>1. i \in live => EntriesOf(i)' = Entries(i, out)
      BY <1>2, <1>4 DEF EntriesOf
    <3> QED
      BY <1>0, <1>2, <3>1 DEF Right
  <2>2. ASSUME NEW j \in live, j # i, ~Right(j)' PROVE Ahead(j)'
    <3>1. EntriesOf(j)' = EntriesOf(j)
      BY <1>2, <1>4, <2>2 DEF EntriesOf
    <3>2. ~Right(j)
      BY <1>2, <2>2, <3>1, RightStays
    <3>3. Ahead(j)
      BY <1>2, <3>2 DEF IndexRight
    <3>4. rix'.page = rix.page \ {i} /\ rix'.last = i
      BY <1>2
    <3> QED
      BY <1>1, <2>2, <3>3, <3>4 DEF Ahead
  <2>3. rix'.pc # "done"
    BY <1>2
  <2> QED
    BY <1>2, <1>3, <2>1, <2>2, <2>3 DEF IndexRight
<1>8. PagerSoFar'
  BY <1>2, PagerStays
<1> QED
  BY <1>5, <1>6, <1>7, <1>8

\* ReindexFail: nothing is claimed of a run that failed.
LEMMA ReindexFailInv ==
    ASSUME SearchInv, ReindexFail, Track
    PROVE  SearchInv'
<1> USE DEF SearchInv
<1>1. /\ UNCHANGED <<objects, live, checked, index, schema, pager>>
      /\ rix.pc \in {"scan", "rows"} /\ rix' = [pc |-> "off", page |-> {}, last |-> 0]
  BY DEF ReindexFail, NoRun, stored
<1>2. Typed'
  BY <1>1 DEF Typed
<1>3. CheckedValid'
  BY <1>1, CheckedStays DEF stored
<1>4. IndexRight'
  BY <1>1 DEF IndexRight, Typed
<1>5. PagerSoFar'
  BY <1>1, PagerStays
<1> QED
  BY <1>2, <1>3, <1>4, <1>5

-----------------------------------------------------------------------------
(* Paging *)

\* The caller begins again, or anew.
LEMMA NoQueryInv ==
    ASSUME SearchInv, UNCHANGED <<stored, index, schema, rix>>, pager' = NoQuery, Track
    PROVE  SearchInv'
<1> USE DEF SearchInv
<1>1. Typed'
  BY DEF Typed, NoQuery, stored
<1>2. CheckedValid' /\ IndexRight'
  BY CheckedStays, IndexStays
<1>3. Matching' = {} /\ always' = {}
  BY DEF Track, Matching, NoQuery
<1>4. PagerSoFar'
  BY <1>3 DEF PagerSoFar, PagesAscend, NoQuery
<1> QED
  BY <1>1, <1>2, <1>4

\* Ask: before the first page nothing has been passed.
LEMMA AskInv ==
    ASSUME SearchInv, NEW q \in Queries, Ask(q), Track
    PROVE  SearchInv'
<1> USE DEF SearchInv
<1>1. /\ UNCHANGED <<stored, index, schema, rix>>
      /\ pager.query = None
      /\ pager' = [pc |-> "ask", query |-> q, after |-> 0, got |-> <<>>]
  BY DEF Ask, NoQuery, Typed
<1>2. q # None
  BY SearchAssumption
<1>3. Typed'
  BY <1>1, <1>2 DEF Typed, stored
<1>4. CheckedValid' /\ IndexRight'
  BY <1>1, CheckedStays, IndexStays
<1>5. always' = Matching' /\ Matching' = Hits(q)'
  BY <1>1, <1>2 DEF Track, Matching
<1>6. \A i \in always' : i \in Nat \ {0}
  <2>1. Hits(q)' \subseteq live'
    BY <1>3 DEF Hits, Typed
  <2> QED
    BY <1>3, <1>5, <2>1, SearchAssumption DEF Typed
<1>7. PagerSoFar'
  <2>1. \A i \in always' : ~(i <= 0)
    BY <1>6
  <2> QED
    BY <1>1, <1>5, <2>1 DEF PagerSoFar, PagesAscend
<1> QED
  BY <1>3, <1>4, <1>7

\* Two ascending sequences, all of the first up to a and all of the second
\* after it, ascend one after the other.
LEMMA AscendingAppend ==
    ASSUME NEW s \in Seq(Nat), NEW u \in Seq(Nat), NEW a \in Nat,
           \A m, n \in 1..Len(s) : m < n => s[m] < s[n],
           \A m, n \in 1..Len(u) : m < n => u[m] < u[n],
           \A n \in 1..Len(s) : s[n] <= a,
           \A n \in 1..Len(u) : u[n] > a
    PROVE  \A m, n \in 1..Len(s \o u) : m < n => (s \o u)[m] < (s \o u)[n]
<1>1. SUFFICES ASSUME NEW m \in 1..Len(s \o u), NEW n \in 1..Len(s \o u), m < n
               PROVE  (s \o u)[m] < (s \o u)[n]
  OBVIOUS
<1>2. Len(s \o u) = Len(s) + Len(u) /\ Len(s) \in Nat /\ Len(u) \in Nat
  OBVIOUS
<1>3. \A k \in 1..Len(s \o u) : (s \o u)[k] = IF k <= Len(s) THEN s[k] ELSE u[k - Len(s)]
  BY <1>2
<1>4. \A k \in 1..Len(s) : s[k] \in Nat
  OBVIOUS
<1>5. \A k \in 1..Len(u) : u[k] \in Nat
  OBVIOUS
<1>6. CASE n <= Len(s)
  BY <1>1, <1>2, <1>3, <1>6
<1>7. CASE m <= Len(s) /\ n > Len(s)
  <2>1. m \in 1..Len(s) /\ n - Len(s) \in 1..Len(u)
    BY <1>2, <1>7
  <2>2. s[m] <= a /\ u[n - Len(s)] > a /\ s[m] \in Nat /\ u[n - Len(s)] \in Nat
    BY <1>4, <1>5, <2>1
  <2>3. s[m] < u[n - Len(s)]
    BY <2>2
  <2> QED
    BY <1>2, <1>3, <1>7, <2>3
<1>8. CASE m > Len(s)
  <2>1. m - Len(s) \in 1..Len(u) /\ n - Len(s) \in 1..Len(u) /\ m - Len(s) < n - Len(s)
    BY <1>1, <1>2, <1>8
  <2>2. u[m - Len(s)] < u[n - Len(s)]
    BY <2>1
  <2> QED
    BY <1>1, <1>2, <1>3, <1>8, <2>2
<1> QED
  BY <1>2, <1>6, <1>7, <1>8

\* Page: what matches beyond the cursor is on the page, or beyond the next one.
LEMMA PageInv ==
    ASSUME SearchInv, Page, Track
    PROVE  SearchInv'
<1> USE DEF SearchInv
<1>0. UNCHANGED <<stored, index, schema, rix>> /\ pager.pc = "ask"
  BY DEF Page
<1>1. CASE pager' = NoQuery
  BY <1>0, <1>1, NoQueryInv
<1>2. CASE pager' # NoQuery
  <2>1. PICK q \in Queries : q = pager.query /\ q # None
    BY <1>0 DEF Typed
  <2>2. PICK T : T = {i \in Hits(q) : SearchAfter(i)}
    OBVIOUS
  <2>3. PICK S : S = First(T, SearchPage)
    OBVIOUS
  <2>4. PICK s : s = pager.got
    OBVIOUS
  <2>5. PICK u : u = Ascending(S)
    OBVIOUS
  <2>6. pager' = [pager EXCEPT !.got = @ \o Ascending(S),
                               !.after = IF Continues(S) THEN Max(S) ELSE @,
                               !.pc = IF Continues(S) THEN "ask" ELSE "done"]
    BY <1>2, <2>1, <2>2, <2>3 DEF Page
  <2>7. /\ pager'.got = s \o u /\ pager'.query = q
        /\ pager'.after = IF Continues(S) THEN Max(S) ELSE pager.after
        /\ pager'.pc = IF Continues(S) THEN "ask" ELSE "done"
    BY <2>1, <2>4, <2>5, <2>6 DEF Typed
  <2>8. T \in SUBSET Nat /\ T \subseteq Ids /\ IsFiniteSet(T) /\ SearchPage \in Nat \ {0}
    <3>1. T \in SUBSET Hits(q)
      BY <2>2
    <3>2. Hits(q) \subseteq live /\ Hits(q) \in SUBSET Nat /\ IsFiniteSet(Hits(q))
      BY HitsLive
    <3> QED
      BY <3>1, <3>2, FS_Subset, SearchAssumption DEF Typed
  <2>9. /\ S \in SUBSET T /\ S \in SUBSET Nat /\ IsFiniteSet(S)
        /\ \A i \in T \ S : \A j \in S : i > j
        /\ S # T => Cardinality(S) = SearchPage
    BY <2>3, <2>8, FirstIs
  <2>10. /\ u \in Seq(S) /\ Len(u) = Cardinality(S)
         /\ \A m, n \in 1..Len(u) : m < n => u[m] < u[n]
         /\ \A i \in S : \E n \in 1..Len(u) : u[n] = i
    BY <2>5, <2>9, AscendingIs
  <2>11. s \in Seq(Ids) /\ s \in Seq(Nat) /\ u \in Seq(Ids) /\ u \in Seq(Nat) /\ pager.after \in Nat
    <3>1. s \in Seq(Ids) /\ pager.after \in Nat
      BY <2>4 DEF Typed
    <3>2. S \subseteq Ids /\ Ids \subseteq Nat /\ S \subseteq Nat
      BY <2>8, <2>9, SearchAssumption
    <3>3. Len(s) \in Nat /\ s \in [1..Len(s) -> Ids] /\ Len(u) \in Nat /\ u \in [1..Len(u) -> S]
      BY <2>10, <3>1
    <3>4. /\ s \in [1..Len(s) -> Nat]
          /\ u \in [1..Len(u) -> Ids] /\ u \in [1..Len(u) -> Nat]
      BY <3>2, <3>3
    <3> QED
      BY <3>1, <3>3, <3>4
  <2>12. \A i \in T : i > pager.after
    BY <2>2 DEF SearchAfter
  <2>13. ASSUME Continues(S)
         PROVE  Max(S) \in S /\ Max(S) > pager.after /\ \A i \in S : i <= Max(S)
    <3>1. S # {}
      BY <2>8, <2>13, FS_EmptySet DEF Continues
    <3>2. \E n \in S : \A m \in S : m <= n
      BY <2>9, <3>1, GreatestExists
    <3>3. \E n \in S : \A m \in S : n >= m
      BY <2>9, <3>2
    <3>4. Max(S) \in S /\ \A m \in S : Max(S) >= m
      BY <3>3 DEF Max
    <3> QED
      BY <2>9, <2>12, <3>4
  <2>14. ~Continues(S) => S = T
    BY <2>9 DEF Continues
  <2>15. ASSUME NEW i, (\E n \in 1..Len(s) : s[n] = i) \/ i \in S
         PROVE  Got(i)'
    <3>1. Len(s \o u) = Len(s) + Len(u) /\ Len(s) \in Nat /\ Len(u) \in Nat
      BY <2>11
    <3>2. CASE \E n \in 1..Len(s) : s[n] = i
      <4>1. PICK n \in 1..Len(s) : s[n] = i
        BY <3>2
      <4>2. n \in 1..Len(s \o u) /\ (s \o u)[n] = i
        BY <2>11, <3>1, <4>1
      <4> QED
        BY <2>7, <4>2 DEF Got
    <3>3. CASE i \in S
      <4>1. PICK n \in 1..Len(u) : u[n] = i
        BY <2>10, <3>3
      <4>2. Len(s) + n \in 1..Len(s \o u) /\ (s \o u)[Len(s) + n] = i
        BY <2>11, <3>1, <4>1
      <4> QED
        BY <2>7, <4>2 DEF Got
    <3> QED
      BY <2>15, <3>2, <3>3
  <2>16. Typed'
    <3>1. s \o u \in Seq(Ids)
      BY <2>11
    <3>2. pager'.after \in Nat
      BY <2>7, <2>9, <2>11, <2>13
    <3>3. pager' \in [pc : {"idle", "ask", "done"}, query : Queries \cup {None},
                      after : Nat, got : Seq(Ids)]
      BY <2>6, <2>7, <3>1, <3>2 DEF Typed
    <3>4. pager'.pc # "idle" /\ pager'.query # None
      BY <2>1, <2>7
    <3> QED
      BY <1>0, <3>3, <3>4 DEF Typed, stored
  <2>17. CheckedValid' /\ IndexRight'
    BY <1>0, CheckedStays, IndexStays
  <2>18. always' \subseteq Matching' /\ always' \subseteq always /\ always \subseteq Hits(q)
    <3>1. Matching = Hits(q)
      BY <2>1 DEF Matching
    <3> QED
      BY <2>1, <3>1 DEF Track, PagerSoFar
  <2>19. PagesAscend'
    <3>1. \A m, n \in 1..Len(s) : m < n => s[m] < s[n]
      BY <2>4 DEF PagerSoFar, PagesAscend
    <3>2. \A n \in 1..Len(s) : s[n] <= pager.after
      BY <1>0, <2>4 DEF PagerSoFar
    <3>3. \A n \in 1..Len(u) : u[n] > pager.after
      <4>1. \A n \in 1..Len(u) : u[n] \in S
        BY <2>10
      <4> QED
        BY <2>9, <2>12, <4>1
    <3>4. \A m, n \in 1..Len(s \o u) : m < n => (s \o u)[m] < (s \o u)[n]
      BY <2>10, <2>11, <3>1, <3>2, <3>3, AscendingAppend
    <3> QED
      BY <2>7, <3>4 DEF PagesAscend
  <2>20. ASSUME Continues(S), NEW n \in 1..Len(s \o u) PROVE (s \o u)[n] <= Max(S)
    <3>1. Len(s \o u) = Len(s) + Len(u) /\ Len(s) \in Nat /\ Len(u) \in Nat
      BY <2>11
    <3>2. Max(S) \in Nat
      BY <2>9, <2>13, <2>20
    <3>3. CASE n <= Len(s)
      <4>1. n \in 1..Len(s) /\ (s \o u)[n] = s[n] /\ s[n] \in Nat
        BY <2>11, <3>1, <3>3
      <4>2. s[n] <= pager.after
        BY <1>0, <2>4, <4>1 DEF PagerSoFar
      <4> QED
        BY <2>11, <2>13, <2>20, <3>2, <4>1, <4>2
    <3>4. CASE n > Len(s)
      <4>1. n - Len(s) \in 1..Len(u) /\ (s \o u)[n] = u[n - Len(s)]
        BY <2>11, <3>1, <3>4
      <4>2. u[n - Len(s)] \in S
        BY <2>10, <4>1
      <4> QED
        BY <2>13, <2>20, <4>1, <4>2
    <3> QED
      BY <3>1, <3>3, <3>4
  <2>21. ASSUME NEW i \in always, ~Continues(S) \/ i <= Max(S) PROVE Got(i)'
    <3>1. i \in Hits(q) /\ i \in Nat
      BY <2>18, HitsLive
    <3>2. CASE i <= pager.after
      <4>1. Got(i)
        BY <1>0, <2>21, <3>2 DEF PagerSoFar
      <4> QED
        BY <2>4, <2>15, <4>1 DEF Got
    <3>3. CASE i > pager.after
      <4>1. i \in T
        BY <2>2, <3>1, <3>3 DEF SearchAfter
      <4>2. CASE ~Continues(S)
        BY <2>14, <2>15, <4>1, <4>2
      <4>3. CASE Continues(S)
        <5>1. i <= Max(S) /\ Max(S) \in S /\ Max(S) \in Nat
          BY <2>9, <2>13, <2>21, <4>3
        <5>2. ~(i > Max(S))
          BY <3>1, <5>1
        <5>3. i \in S
          BY <2>9, <4>1, <5>1, <5>2
        <5> QED
          BY <2>15, <5>3
      <4> QED
        BY <4>2, <4>3
    <3> QED
      BY <2>11, <3>1, <3>2, <3>3
  <2>22. PagerSoFar'
    <3>1. CASE Continues(S)
      <4>1. pager'.pc = "ask" /\ pager'.after = Max(S)
        BY <2>7, <3>1
      <4> QED
        BY <2>7, <2>18, <2>19, <2>20, <2>21, <3>1, <4>1 DEF PagerSoFar
    <3>2. CASE ~Continues(S)
      <4>1. pager'.pc = "done"
        BY <2>7, <3>2
      <4> QED
        BY <2>7, <2>18, <2>19, <2>21, <3>2, <4>1 DEF PagerSoFar
    <3> QED
      BY <3>1, <3>2
  <2> QED
    BY <2>16, <2>17, <2>22
<1> QED
  BY <1>1, <1>2

\* Every step preserves the invariant.
LEMMA NextSearchInv == SearchInv /\ [Next]_vars => SearchInv'
<1> SUFFICES ASSUME SearchInv, [Next]_vars PROVE SearchInv'
  OBVIOUS
<1>1. CASE UNCHANGED vars
  <2>1. Typed' /\ CheckedValid' /\ IndexRight'
    BY <1>1, CheckedStays, IndexStays DEF SearchInv, vars, stored, Typed
  <2>2. PagerSoFar'
    BY <1>1 DEF SearchInv, vars, PagerSoFar, Matching, Hits, PagesAscend, Got
  <2> QED
    BY <2>1, <2>2 DEF SearchInv
<1>2. ASSUME NEW i \in Ids, NEW o \in Objects, Create(i, o), Track PROVE SearchInv'
  BY <1>2, CreateInv
<1>3. ASSUME NEW i \in Ids, Shred(i), Track PROVE SearchInv'
  BY <1>3, ShredInv
<1>4. ASSUME Redeploy, Track PROVE SearchInv'
  BY <1>4, RedeployInv
<1>5. ASSUME ReindexStart \/ ReindexPage \/ ReindexRow \/ ReindexFail, Track PROVE SearchInv'
  BY <1>5, ReindexStartInv, ReindexPageInv, ReindexRowInv, ReindexFailInv
<1>6. ASSUME NEW q \in Queries, Ask(q), Track PROVE SearchInv'
  BY <1>6, AskInv
<1>7. ASSUME Page, Track PROVE SearchInv'
  BY <1>7, PageInv
<1>8. ASSUME Forget, Track PROVE SearchInv'
  BY <1>8, NoQueryInv DEF Forget
<1> QED
  BY <1>1, <1>2, <1>3, <1>4, <1>5, <1>6, <1>7, <1>8 DEF Next

\* Between requests, restarts and rewrites: the inductive invariant holds.
THEOREM SearchInvHolds == Spec => []SearchInv
BY InitSearchInv, NextSearchInv, PTL DEF Spec

\* Whatever is created, shredded or reindexed between two requests of
\* SearchAfter, no id comes twice or out of order.
THEOREM PagesNeverRepeat == Spec => []PagesAscend
<1>1. SearchInv => PagesAscend
  BY DEF SearchInv, PagerSoFar
<1> QED
  BY <1>1, SearchInvHolds, PTL

\* When an answer has no "next", the caller has every id that matched all
\* along: api.search leaves it out only on a page that is not full.
THEOREM PagesLeaveNothingOut == Spec => []PagesComplete
<1>1. SearchInv => PagesComplete
  BY DEF SearchInv, PagerSoFar, PagesComplete, Got
<1> QED
  BY <1>1, SearchInvHolds, PTL

-----------------------------------------------------------------------------
(* Digits *)

\* The digits of a text are a sequence of digits.
LEMMA DigitsType ==
    ASSUME NEW v \in Seq(STRING)
    PROVE  digits(v) \in Seq(Digit)
<1> DEFINE P == {i \in 1..Len(v) : v[i] \in Digit}
           at == Ascending(P)
<1>1. IsFiniteSet(1..Len(v)) /\ P \in SUBSET (1..Len(v))
  BY FS_Interval
<1>2. P \in SUBSET Nat /\ IsFiniteSet(P)
  BY <1>1, FS_Subset
<1>3. digits(v) = [n \in DOMAIN at |-> v[at[n]]]
  BY DEF digits
<1>4. \A i \in P : v[i] \in Digit
  OBVIOUS
<1> HIDE DEF P
<1>5. at \in Seq(P)
  BY <1>2, AscendingIs
<1> HIDE DEF at
<1>6. Len(at) \in Nat /\ DOMAIN at = 1..Len(at) /\ \A n \in 1..Len(at) : at[n] \in P
  BY <1>5
<1>7. digits(v) \in [1..Len(at) -> Digit]
  BY <1>3, <1>4, <1>6
<1> QED
  BY <1>6, <1>7

\* The last four of a sequence.
LEMMA LastFour ==
    ASSUME NEW d \in Seq(Digit), Len(d) >= 4
    PROVE  /\ last4(d) \in Seq(Digit) /\ Len(last4(d)) = 4
           /\ IsSuffix(last4(d), d)
           /\ Len(d) = 4 => last4(d) = d
<1> DEFINE t == last4(d)
<1>1. Len(d) \in Nat /\ ~(Len(d) < 4)
  OBVIOUS
<1>2. t = SubSeq(d, Len(d) - 3, Len(d))
  BY <1>1 DEF last4
<1>3. t \in Seq(Digit) /\ Len(t) = 4
  BY <1>1, <1>2
<1>4. \A n \in 1..4 : t[n] = d[Len(d) - 4 + n]
  BY <1>1, <1>2
<1> HIDE DEF t
<1>5. IsSuffix(t, d)
  <2> DEFINE a == Reverse(t)
             b == Reverse(d)
  <2>1. /\ a = [i \in 1..4 |-> t[(4 - i) + 1]]
        /\ b = [i \in 1..Len(d) |-> d[(Len(d) - i) + 1]]
    BY <1>3 DEF Reverse
  <2>2. ASSUME NEW i \in 1..4 PROVE t[(4 - i) + 1] \in Digit /\ (4 - i) + 1 \in 1..4
    <3>1. (4 - i) + 1 \in 1..4
      OBVIOUS
    <3>2. t[(4 - i) + 1] \in Digit
      BY <1>3, <3>1, ElementOfSeq
    <3> QED
      BY <3>1, <3>2
  <2>3. \A i \in 1..Len(d) : d[(Len(d) - i) + 1] \in Digit
    BY <1>1
  <2>4. a \in Seq(Digit) /\ Len(a) = 4 /\ b \in Seq(Digit) /\ Len(b) = Len(d)
    BY <1>1, <2>1, <2>2, <2>3
  <2>5. \A i \in 1..4 : a[i] = b[i]
    <3>1. SUFFICES ASSUME NEW i \in 1..4 PROVE a[i] = b[i]
      OBVIOUS
    <3>2. a[i] = t[(4 - i) + 1] /\ b[i] = d[(Len(d) - i) + 1]
      BY <1>1, <2>1
    <3>3. t[(4 - i) + 1] = d[Len(d) - 4 + ((4 - i) + 1)]
      BY <1>4, <2>2
    <3>4. Len(d) - 4 + ((4 - i) + 1) = (Len(d) - i) + 1
      BY <1>1
    <3> QED
      BY <3>2, <3>3, <3>4
  <2> HIDE DEF a, b
  <2>6. Len(a) <= Len(b)
    BY <1>1, <2>4
  <2>7. /\ SubSeq(a, 1, 4) = [i \in 1..4 |-> a[i]]
        /\ SubSeq(b, 1, 4) = [i \in 1..4 |-> b[i]]
    BY <1>1, <2>4
  <2>8. SubSeq(a, 1, Len(a)) = SubSeq(b, 1, Len(a))
    BY <2>4, <2>5, <2>7
  <2> QED
    BY <2>6, <2>8 DEF IsSuffix, IsPrefix, a, b
<1>6. Len(d) = 4 => t = d
  BY <1>1, <1>3, <1>4
<1> QED
  BY <1>3, <1>5, <1>6 DEF t

\* A mask is fixed text, no digit, and digits after it: only those are the
\* digits of it.
LEMMA MaskDigits ==
    ASSUME NEW x, x \notin Digit, NEW d \in Seq(Digit)
    PROVE  digits(<<x>> \o d) = d
<1> DEFINE l == Len(d)
           v == <<x>> \o d
           P == {i \in 1..Len(v) : v[i] \in Digit}
           at == Ascending(P)
<1>0. l \in Nat /\ \A n \in 1..l : d[n] \in Digit
  BY ElementOfSeq
<1>1. /\ Len(v) = l + 1 /\ v[1] = x
      /\ \A i \in 2..(l + 1) : v[i] = d[i - 1] /\ v[i] \in Digit
  <2> DEFINE C == Digit \cup {x}
             y == <<x>>
  <2>1. y \in Seq(C) /\ Len(y) = 1 /\ y[1] = x
    OBVIOUS
  <2>2. d \in Seq(C)
    BY SeqMonotonic
  <2> HIDE DEF y, C
  <2>3. /\ Len(y \o d) = Len(y) + Len(d)
        /\ \A i \in 1..(Len(y) + Len(d)) :
             (y \o d)[i] = IF i <= Len(y) THEN y[i] ELSE d[i - Len(y)]
    BY <2>1, <2>2, ConcatProperties
  <2>4. Len(y \o d) = l + 1 /\ (y \o d)[1] = x
    BY <1>0, <2>1, <2>3
  <2>5. ASSUME NEW i \in 2..(l + 1) PROVE (y \o d)[i] = d[i - 1] /\ i - 1 \in 1..l
    BY <1>0, <2>1, <2>3
  <2> QED
    BY <1>0, <2>4, <2>5 DEF y
<1> HIDE DEF v
<1>2. P = 2..(l + 1)
  <2>1. \A i \in 1..(l + 1) : v[i] \in Digit <=> i \in 2..(l + 1)
    BY <1>0, <1>1
  <2>2. \A i \in 2..(l + 1) : i \in 1..(l + 1)
    BY <1>0
  <2> QED
    BY <1>1, <2>1, <2>2
<1> HIDE DEF P, l
<1>3. IsFiniteSet(P) /\ Cardinality(P) = l /\ P \in SUBSET Nat
  <2>1. 2 \in Int /\ l + 1 \in Int
    BY <1>0
  <2>2. /\ IsFiniteSet(2..(l + 1))
        /\ Cardinality(2..(l + 1)) = IF 2 > l + 1 THEN 0 ELSE (l + 1) - 2 + 1
    BY <2>1, FS_Interval
  <2>3. 2..(l + 1) \in SUBSET Nat
    BY <1>0
  <2> QED
    BY <1>0, <1>2, <2>2, <2>3
<1>4. ASSUME NEW n \in 1..l PROVE at[n] = n + 1
  <2>1. {j \in P : j < n + 1} = 2..n
    BY <1>0, <1>2
  <2>2. Cardinality(2..n) = n - 1
    <3>1. n \in Int /\ 2 \in Int
      BY <1>0
    <3>2. Cardinality(2..n) = IF 2 > n THEN 0 ELSE n - 2 + 1
      BY <3>1, FS_Interval
    <3> QED
      BY <1>0, <3>2
  <2>3. n + 1 \in P /\ Before(P, n + 1) = n - 1
    <3>1. n + 1 \in 2..(l + 1)
      BY <1>0
    <3> QED
      BY <1>2, <2>1, <2>2, <3>1 DEF Before
  <2>4. Nth(P, (n - 1) + 1) = n + 1
    BY <1>3, <2>3, NthIs
  <2>5. (n - 1) + 1 = n
    BY <1>0
  <2> QED
    BY <1>3, <2>4, <2>5 DEF Ascending
<1>5. DOMAIN at = 1..l
  BY <1>3 DEF Ascending
<1>6. digits(v) = [n \in DOMAIN at |-> v[at[n]]]
  BY DEF digits, P
<1> HIDE DEF at
<1>7. \A n \in 1..l : v[at[n]] = d[n]
  <2>1. SUFFICES ASSUME NEW n \in 1..l PROVE v[at[n]] = d[n]
    OBVIOUS
  <2>2. n + 1 \in 2..(l + 1) /\ (n + 1) - 1 = n
    BY <1>0
  <2> QED
    BY <1>1, <1>4, <2>2
<1>8. digits(v) = [n \in 1..l |-> d[n]]
  BY <1>5, <1>6, <1>7
<1>9. d = [n \in 1..l |-> d[n]]
  BY DEF l
<1> QED
  BY <1>8, <1>9 DEF v

-----------------------------------------------------------------------------
(* Indexed and Normalize *)

\* What is stored: text that Go decodes into a string, of any length.
LEMMA StoredText ==
    ASSUME NEW o \in Objects, NEW name \in DOMAIN o, IsText(o[name])
    PROVE  Text(o[name]) \in Seq(STRING)
<1>1. CASE o[name].kind = "null"
  BY <1>1 DEF Text
<1>2. CASE o[name].kind = "string"
  BY <1>2, SearchAssumption DEF Text
<1> QED
  BY <1>1, <1>2 DEF IsText

\* Keys of the index are the same when both their parts are.
LEMMA SameKey ==
    ASSUME NEW a, NEW n, NEW b, NEW m, <<a, n>> = <<b, m>>
    PROVE  a = b /\ n = m
OBVIOUS

\* In an index that is a field's own, Indexed keeps what the field assigned.
LEMMA OwnIsKept ==
    ASSUME NEW s, NEW o, NEW out \in Indexed(s, o), NEW field, NEW k,
           field \in DOMAIN s.fields => Fragment(field) # Whole(field),
           \A name \in DOMAIN o \cap DOMAIN s.fields :
               k[1] \in IndexNames(s, name) => name = field,
           k \in Assigned(s, o)
    PROVE  k \in out
<1>1. PICK b \in out : b[1] = k[1]
  BY DEF Indexed
<1>2. b \in Assigned(s, o)
  BY DEF Indexed
<1>3. PICK x \in DOMAIN o \cap DOMAIN s.fields :
           k \in IndexedField(s.fields[x], x, Text(o[x]))
  BY DEF Assigned
<1>4. PICK y \in DOMAIN o \cap DOMAIN s.fields :
           b \in IndexedField(s.fields[y], y, Text(o[y]))
  BY <1>2 DEF Assigned
<1>5. x = field /\ y = field
  <2>1. k[1] \in IndexNames(s, x) /\ b[1] \in IndexNames(s, y)
    BY <1>3, <1>4 DEF IndexedField, IndexNames
  <2> QED
    BY <1>1, <2>1
<1> DEFINE m == normalize(s.fields[field].type, Text(o[field]))
<1>6. /\ k = <<Whole(field), m>> \/ k = <<Fragment(field), last4(m)>>
      /\ b = <<Whole(field), m>> \/ b = <<Fragment(field), last4(m)>>
  BY <1>3, <1>4, <1>5 DEF IndexedField
<1> HIDE DEF m
<1>7. b = k
  BY <1>1, <1>3, <1>5, <1>6
<1> QED
  BY <1>7

\* Indexed puts a value where Normalize sends a search for it, if no other field
\* fills that index.
LEMMA IndexedWhereSearched ==
    ASSUME NEW s, Parse(s), NEW o, NEW field \in DOMAIN o, IsText(o[field]),
           Text(o[field]) \in Seq(STRING), NEW v,
           \A name \in DOMAIN s.fields : Fragment(name) # Whole(name),
           Normalize(s, field, v) # Refused,
           Unshared(s, field, Normalize(s, field, v)[1]),
           normalize(s.fields[field].type, Text(o[field])) = normalize(s.fields[field].type, v),
           NEW out \in Indexed(s, o)
    PROVE  Normalize(s, field, v) \in out
<1> DEFINE f == s.fields[field]
           n == normalize(f.type, v)
<1>1. field \in DOMAIN s.fields
  BY DEF Normalize, Searchable
<1>2. \/ /\ f.fragments # {} /\ Len(n) = 4
         /\ Normalize(s, field, v) = <<Fragment(field), n>>
      \/ /\ f.index /\ Normalize(s, field, v) = <<Whole(field), n>>
  BY DEF Normalize
<1>3. Normalize(s, field, v) \in IndexedField(f, field, Text(o[field]))
  <2>1. CASE f.fragments # {} /\ Len(n) = 4 /\ Normalize(s, field, v) = <<Fragment(field), n>>
    <3>1. f.type \in {"phone", "card"}
      BY <1>1, <2>1 DEF Parse
    <3>2. n = digits(Text(o[field]))
      BY <3>1 DEF normalize
    <3>3. n \in Seq(Digit)
      BY <3>2, DigitsType
    <3> HIDE DEF n
    <3>4. Len(n) >= 4
      BY <2>1
    <3>5. last4(n) = n /\ HasTail(n)
      BY <2>1, <3>3, <3>4, LastFour DEF HasTail
    <3> QED
      BY <2>1, <3>5 DEF IndexedField, n
  <2>2. CASE f.index /\ Normalize(s, field, v) = <<Whole(field), n>>
    BY <2>2 DEF IndexedField
  <2> QED
    BY <1>2, <2>1, <2>2
<1>4. Normalize(s, field, v) \in Assigned(s, o)
  BY <1>1, <1>3 DEF Assigned
<1>5. \A name \in DOMAIN o \cap DOMAIN s.fields :
          Normalize(s, field, v)[1] \in IndexNames(s, name) => name = field
  BY DEF Unshared
<1> QED
  BY <1>1, <1>4, <1>5, OwnIsKept

\* And what a search meets in an index of its field's own has that value, or
\* ends in it.
LEMMA SearchedWhereIndexed ==
    ASSUME NEW s, Parse(s), NEW o \in Objects, NEW field, NEW v \in Seq(STRING),
           \A name \in DOMAIN s.fields : Fragment(name) # Whole(name),
           Normalize(s, field, v) # Refused,
           Unshared(s, field, Normalize(s, field, v)[1]),
           NEW out \in Indexed(s, o), Normalize(s, field, v) \in out
    PROVE  /\ field \in DOMAIN o /\ IsText(o[field])
           /\ \/ normalize(s.fields[field].type, Text(o[field]))
                   = normalize(s.fields[field].type, v)
              \/ /\ Len(digits(v)) = 4
                 /\ IsSuffix(digits(v), digits(Text(o[field])))
<1> DEFINE f == s.fields[field]
           n == normalize(f.type, v)
<1>0. field \in DOMAIN s.fields
  BY DEF Normalize, Searchable
<1>1. PICK name \in DOMAIN o \cap DOMAIN s.fields :
           /\ IsText(o[name])
           /\ Normalize(s, field, v) \in IndexedField(s.fields[name], name, Text(o[name]))
  BY DEF Indexed, Assigned
<1>2. \/ /\ f.fragments # {} /\ Len(n) = 4
         /\ Normalize(s, field, v) = <<Fragment(field), n>>
      \/ /\ f.index /\ Normalize(s, field, v) = <<Whole(field), n>>
  BY DEF Normalize
<1>3. name = field
  <2>1. Normalize(s, field, v)[1] \in IndexNames(s, name)
    BY <1>1 DEF IndexedField, IndexNames
  <2> QED
    BY <2>1 DEF Unshared
<1> DEFINE m == normalize(f.type, Text(o[field]))
<1>4. \/ Normalize(s, field, v) = <<Whole(field), m>>
      \/ HasTail(m) /\ Normalize(s, field, v) = <<Fragment(field), last4(m)>>
  BY <1>1, <1>3 DEF IndexedField
<1>5. Fragment(field) # Whole(field)
  BY <1>0
<1> HIDE DEF f, n, m
<1>6. \/ n = m
      \/ f.fragments # {} /\ Len(n) = 4 /\ HasTail(m) /\ n = last4(m)
  <2>1. CASE Normalize(s, field, v) = <<Whole(field), n>>
    BY <1>4, <1>5, <2>1, SameKey
  <2>2. CASE /\ f.fragments # {} /\ Len(n) = 4
             /\ Normalize(s, field, v) = <<Fragment(field), n>>
    BY <1>4, <1>5, <2>2, SameKey
  <2> QED
    BY <1>2, <2>1, <2>2
<1>7. CASE n = m
  BY <1>1, <1>3, <1>7 DEF n, m, f
<1>8. CASE f.fragments # {} /\ Len(n) = 4 /\ HasTail(m) /\ n = last4(m)
  <2>1. f.type \in {"phone", "card"}
    BY <1>0, <1>8 DEF Parse, f
  <2>2. n = digits(v) /\ m = digits(Text(o[field]))
    BY <2>1 DEF normalize, n, m
  <2>3. m \in Seq(Digit)
    <3>1. Text(o[field]) \in Seq(STRING)
      BY <1>1, <1>3, StoredText
    <3> QED
      BY <2>2, <3>1, DigitsType
  <2>4. IsSuffix(last4(m), m)
    BY <1>8, <2>3, LastFour DEF HasTail
  <2> QED
    BY <1>1, <1>3, <1>8, <2>2, <2>4
<1> QED
  BY <1>6, <1>7, <1>8

\* Once the index is settled every live object is indexed by the schema in use.
LEMMA SettledRight ==
    ASSUME SearchInv, Settled, NEW i \in live
    PROVE  /\ Right(i) /\ objects[i] \in Objects
           /\ Parse(schema) /\ (schema.declared \/ schema = Undeclared)
           /\ \A name \in DOMAIN schema.fields : Fragment(name) # Whole(name)
<1>1. Right(i)
  BY DEF SearchInv, IndexRight, Settled
<1>2. objects[i] \in Objects
  BY DEF SearchInv, Typed
<1>3. schema \in OldSchemas \cup {NewSchema}
  BY DEF SearchInv, Typed
<1> QED
  BY <1>1, <1>2, <1>3, SearchAssumption, NamesAssumption

\* Indexed and Normalize agree, and reindex reaches every row: in an index that
\* only its field fills, a search finds each live object whose value has the
\* same normal form.
THEOREM SearchesFind == Spec => []SearchFinds
<1>1. SearchInv => SearchFinds
  <2>1. SUFFICES ASSUME SearchInv, Settled, NEW q \in Queries, NEW i \in live,
                        Normalize(schema, q.field, q.text) # Refused, LooksInOwn(q),
                        Holds(i, q.field), Same(q.field, TextOf(i, q.field), q.text)
                 PROVE  i \in Hits(q)
    BY DEF SearchFinds
  <2>2. /\ objects[i] \in Objects /\ Parse(schema)
        /\ \A name \in DOMAIN schema.fields : Fragment(name) # Whole(name)
    BY <2>1, SettledRight
  <2>3. q.field \in DOMAIN objects[i] /\ IsText(objects[i][q.field])
    BY <2>1 DEF Holds
  <2>4. Text(objects[i][q.field]) \in Seq(STRING)
    BY <2>2, <2>3, StoredText
  <2>5. PICK out \in Indexed(schema, objects[i]) : EntriesOf(i) = Entries(i, out)
    BY <2>1, SettledRight DEF Right
  <2>6. Normalize(schema, q.field, q.text) \in out
    BY <2>1, <2>2, <2>3, <2>4, IndexedWhereSearched DEF Same, TextOf, LooksInOwn
  <2>7. [key |-> Normalize(schema, q.field, q.text), id |-> i] \in index
    BY <2>5, <2>6 DEF Entries, EntriesOf
  <2> QED
    BY <2>1, <2>7 DEF Hits
<1> QED
  BY <1>1, SearchInvHolds, PTL

\* A search finds nothing shredded, and, in an index that only its field fills,
\* nothing whose value is another.
THEOREM SearchesAreExact == Spec => []SearchExact
<1>1. SearchInv => SearchExact
  <2>1. SUFFICES ASSUME SearchInv, Settled, NEW q \in Queries, NEW i \in Hits(q)
                 PROVE  /\ i \in live
                        /\ LooksInOwn(q) =>
                             /\ Holds(i, q.field)
                             /\ \/ Same(q.field, TextOf(i, q.field), q.text)
                                \/ /\ Len(digits(q.text)) = 4
                                   /\ IsSuffix(digits(q.text), digits(TextOf(i, q.field)))
    BY DEF SearchExact
  <2>2. i \in live
    BY <2>1, HitsLive DEF SearchInv
  <2>3. /\ objects[i] \in Objects /\ Parse(schema)
        /\ \A name \in DOMAIN schema.fields : Fragment(name) # Whole(name)
    BY <2>1, <2>2, SettledRight
  <2>4. Normalize(schema, q.field, q.text) # Refused
    BY <2>1 DEF Hits
  <2>5. PICK e \in index : e.key = Normalize(schema, q.field, q.text) /\ e.id = i
    BY <2>1, <2>4 DEF Hits
  <2>6. PICK out \in Indexed(schema, objects[i]) : EntriesOf(i) = Entries(i, out)
    BY <2>1, <2>2, SettledRight DEF Right
  <2>7. Normalize(schema, q.field, q.text) \in out
    BY <2>5, <2>6 DEF Entries, EntriesOf
  <2>8. q.text \in Seq(STRING)
    BY SearchAssumption
  <2>9. ASSUME LooksInOwn(q)
        PROVE  /\ q.field \in DOMAIN objects[i] /\ IsText(objects[i][q.field])
               /\ \/ normalize(schema.fields[q.field].type, Text(objects[i][q.field]))
                       = normalize(schema.fields[q.field].type, q.text)
                  \/ /\ Len(digits(q.text)) = 4
                     /\ IsSuffix(digits(q.text), digits(Text(objects[i][q.field])))
    BY <2>3, <2>4, <2>7, <2>8, <2>9, SearchedWhereIndexed DEF LooksInOwn
  <2> QED
    BY <2>2, <2>9 DEF Holds, Same, TextOf
<1> QED
  BY <1>1, SearchInvHolds, PTL

-----------------------------------------------------------------------------
(* Validated numbers *)

\* What was validated by the new schema: text of its field's type.
LEMMA CheckedField ==
    ASSUME SearchInv, NEW i \in checked,
           NEW name \in DOMAIN objects[i] \cap DOMAIN schema.fields
    PROVE  /\ objects[i][name].kind = "string"
           /\ TextOf(i, name) = objects[i][name].text /\ TextOf(i, name) \in Seq(STRING)
           /\ validate(schema.fields[name].type, TextOf(i, name))
<1>1. i \in live /\ objects[i] \in Objects
  BY DEF SearchInv, Typed
<1>2. schema = NewSchema /\ Validate(NewSchema, objects[i])
  BY DEF SearchInv, CheckedValid
<1>3. schema.declared
  <2>1. schema.declared \/ schema = Undeclared
    BY <1>2, SearchAssumption
  <2>2. schema # Undeclared
    <3>1. ASSUME schema = Undeclared PROVE FALSE
      <4>1. schema.fields = <<>>
        BY <3>1 DEF Undeclared
      <4>2. DOMAIN schema.fields = {}
        BY <4>1
      <4> QED
        BY <4>2
    <3> QED
      BY <3>1
  <2> QED
    BY <2>1, <2>2
<1>4. /\ objects[i][name].kind = "string"
      /\ validate(schema.fields[name].type, objects[i][name].text)
  BY <1>2, <1>3 DEF Validate
<1>5. TextOf(i, name) = objects[i][name].text
  BY <1>4 DEF TextOf, Text
<1>6. objects[i][name].text \in Seq(STRING)
  BY <1>1, <1>4, SearchAssumption
<1> QED
  BY <1>4, <1>5, <1>6

\* The ten digits.
LEMMA DigitsAre == Digit \subseteq {"0", "1", "2", "3", "4", "5", "6", "7", "8", "9"}
<1>1. /\ Digits[1] = "0" /\ Digits[2] = "1" /\ Digits[3] = "2" /\ Digits[4] = "3"
      /\ Digits[5] = "4" /\ Digits[6] = "5" /\ Digits[7] = "6" /\ Digits[8] = "7"
      /\ Digits[9] = "8" /\ Digits[10] = "9"
  BY DEF Digits
<1>2. ASSUME NEW n \in 1..10
      PROVE  \/ n = 1 \/ n = 2 \/ n = 3 \/ n = 4 \/ n = 5
             \/ n = 6 \/ n = 7 \/ n = 8 \/ n = 9 \/ n = 10
  OBVIOUS
<1> QED
  BY <1>1, <1>2 DEF Digit

\* Of seven digits or more, at least three are not among the last four.
LEMMA ThreeHidden == \A l \in 7..19 : l >= 4 /\ l - 4 >= 3
OBVIOUS

\* maskPhone and maskCard of a validated number: fixed text and last four.
THEOREM MasksAreSafe == Spec => []MasksHide
<1>1. SearchInv => MasksHide
  <2>1. SUFFICES ASSUME SearchInv, NEW i \in checked,
                        NEW name \in DOMAIN objects[i] \cap DOMAIN schema.fields,
                        schema.fields[name].type \in {"phone", "card"}
                 PROVE  LET all   == digits(TextOf(i, name))
                            shown == digits(MaskValue(schema, name, objects[i][name]))
                        IN  /\ Len(shown) = 4 /\ IsSuffix(shown, all)
                            /\ Len(all) - Len(shown) >= 3
    BY DEF MasksHide
  <2>2. PICK v : v = TextOf(i, name)
    OBVIOUS
  <2>3. PICK d : d = digits(v)
    OBVIOUS
  <2>4. v \in Seq(STRING) /\ IsText(objects[i][name]) /\ v = Text(objects[i][name])
    BY <2>1, <2>2, CheckedField DEF IsText, TextOf
  <2>5. d \in Seq(Digit) /\ Len(d) \in Nat
    BY <2>3, <2>4, DigitsType
  <2>6. PICK l \in 7..19 : l = Len(d)
    <3>1. validate(schema.fields[name].type, v)
      BY <2>1, <2>2, CheckedField
    <3>2. CASE schema.fields[name].type = "phone"
      <4>1. Len(d) \in 7..15
        BY <2>3, <3>1, <3>2 DEF validate, validatePhone
      <4>2. 7..15 \subseteq 7..19
        OBVIOUS
      <4> QED
        BY <4>1, <4>2, Zenon
    <3>3. CASE schema.fields[name].type = "card"
      <4>1. Len(d) \in 13..19
        BY <2>3, <3>1, <3>3 DEF validate, validateCard
      <4>2. 13..19 \subseteq 7..19
        OBVIOUS
      <4> QED
        BY <4>1, <4>2, Zenon
    <3> QED
      BY <2>1, <3>2, <3>3
  <2>7. /\ last4(d) \in Seq(Digit) /\ Len(last4(d)) = 4 /\ IsSuffix(last4(d), d)
    <3>1. l >= 4
      BY ThreeHidden
    <3> QED
      BY <2>5, <2>6, <3>1, LastFour
  <2>8. last4(d) # <<>>
    <3>1. SUFFICES ASSUME last4(d) = <<>> PROVE FALSE
      OBVIOUS
    <3>2. Len(<<>>) = 4
      BY <2>7, <3>1, Zenon
    <3> QED
      BY <3>2
  <2>9. PICK x \in {"***", "**** **** **** "} :
            MaskValue(schema, name, objects[i][name]) = <<x>> \o last4(d)
    <3>1. CASE schema.fields[name].type = "phone"
      <4>1. MaskValue(schema, name, objects[i][name]) = maskTail(v, hidden)
        BY <2>4, <3>1 DEF MaskValue, mask
      <4> QED
        BY <2>3, <2>8, <4>1 DEF maskTail, hidden
    <3>2. CASE schema.fields[name].type = "card"
      <4>1. MaskValue(schema, name, objects[i][name]) = maskTail(v, <<"**** **** **** ">>)
        BY <2>4, <3>2 DEF MaskValue, mask
      <4> QED
        BY <2>3, <2>8, <4>1 DEF maskTail
    <3> QED
      BY <2>1, <3>1, <3>2
  <2>10. x \notin Digit
    <3>1. Digit \subseteq {"0", "1", "2", "3", "4", "5", "6", "7", "8", "9"}
      BY DigitsAre
    <3> QED
      BY <2>9, <3>1
  <2>11. digits(MaskValue(schema, name, objects[i][name])) = last4(d)
    BY <2>7, <2>9, <2>10, MaskDigits
  <2>12. Len(d) - Len(last4(d)) >= 3
    <3>1. l - 4 >= 3
      BY ThreeHidden
    <3> QED
      BY <2>6, <2>7, <3>1, Zenon
  <2> QED
    BY <2>2, <2>3, <2>7, <2>11, <2>12
<1> QED
  BY <1>1, SearchInvHolds, PTL

\* The number of a digit.
LEMMA DigitNumber ==
    ASSUME NEW ch \in Digit
    PROVE  /\ (CHOOSE k \in 1..10 : Digits[k] = ch) \in 1..10
           /\ Digits[CHOOSE k \in 1..10 : Digits[k] = ch] = ch
<1>1. \E k \in 1..10 : Digits[k] = ch
  BY DEF Digit
<1> QED
  BY <1>1

\* What the k-th digit counts for with l digits after it.
Counts(k, l) == CASE l % 2 = 0 -> k - 1
                  [] l % 2 = 1 /\ 2 * (k - 1) <= 9 -> 2 * (k - 1)
                  [] l % 2 = 1 /\ 2 * (k - 1) > 9  -> 2 * (k - 1) - 9

\* A digit with an odd number of digits after it.
LEMMA CountsDoubled ==
    ASSUME NEW k \in 1..10, NEW l \in Nat, l % 2 = 1
    PROVE  Counts(k, l) = IF 2 * (k - 1) <= 9 THEN 2 * (k - 1) ELSE 2 * (k - 1) - 9
BY DEF Counts

\* A digit with an even number of digits after it.
LEMMA CountsOnce ==
    ASSUME NEW k \in 1..10, NEW l \in Nat, l % 2 = 0
    PROVE  Counts(k, l) = k - 1
BY DEF Counts

\* It is below ten, and another digit counts for something else: doubling and
\* reducing is one to one.
LEMMA CountsDiffer ==
    ASSUME NEW a \in 1..10, NEW b \in 1..10, NEW l \in Nat
    PROVE  /\ Counts(a, l) \in 0..9 /\ Counts(b, l) \in 0..9
           /\ Counts(a, l) = Counts(b, l) <=> a = b
<1>1. CASE l % 2 = 1
  BY <1>1, CountsDoubled
<1>2. CASE l % 2 = 0
  BY <1>2, CountsOnce
<1> QED
  BY <1>1, <1>2

\* Weight depends on the digit and on how many come after it.
LEMMA WeightCounts ==
    ASSUME NEW d, NEW i
    PROVE  Weight(d, i) = Counts(CHOOSE k \in 1..10 : Digits[k] = d[i], Len(d) - i)
BY DEF Weight, Counts

\* A digit's weight is below ten, and another digit in its place has another.
LEMMA WeightsDiffer ==
    ASSUME NEW v \in Seq(Digit), NEW w \in Seq(Digit), Len(v) = Len(w), NEW i \in 1..Len(v)
    PROVE  /\ Weight(v, i) \in 0..9 /\ Weight(w, i) \in 0..9
           /\ Weight(v, i) = Weight(w, i) <=> v[i] = w[i]
<1>1. v[i] \in Digit /\ w[i] \in Digit
  BY ElementOfSeq
<1> DEFINE a == CHOOSE k \in 1..10 : Digits[k] = v[i]
           b == CHOOSE k \in 1..10 : Digits[k] = w[i]
           l == Len(v) - i
<1>2. a \in 1..10 /\ Digits[a] = v[i] /\ b \in 1..10 /\ Digits[b] = w[i]
  BY <1>1, DigitNumber
<1>3. a = b <=> v[i] = w[i]
  BY <1>2
<1>4. l \in Nat
  OBVIOUS
<1>5. Weight(v, i) = Counts(a, l) /\ Weight(w, i) = Counts(b, l)
  BY WeightCounts
<1> HIDE DEF a, b, l
<1>6. /\ Counts(a, l) \in 0..9 /\ Counts(b, l) \in 0..9
      /\ Counts(a, l) = Counts(b, l) <=> a = b
  BY <1>2, <1>4, CountsDiffer
<1> QED
  BY <1>3, <1>5, <1>6

\* Two totals that luhn accepts cannot differ by less than ten.
LEMMA SameTail ==
    ASSUME NEW a \in Nat, NEW b \in Nat, a % 10 = 0, b % 10 = 0,
           NEW x \in 0..9, NEW y \in 0..9, b + x = a + y
    PROVE  x = y
OBVIOUS

\* luhn refuses one of two numbers that differ in one digit.
LEMMA LuhnCatchesTypo ==
    ASSUME NEW v \in Seq(Digit), NEW w \in Seq(Digit), Len(v) = Len(w), luhn(v), luhn(w)
    PROVE  Differ(v, w) # 1
<1> DEFINE P == 1..Len(v)
           D == {n \in P : v[n] # w[n]}
           f == [i \in P |-> Weight(v, i)]
           e == [i \in P |-> Weight(w, i)]
<1>1. SUFFICES ASSUME Cardinality(D) = 1 PROVE FALSE
  BY DEF Differ
<1>2. Len(v) \in Nat /\ IsFiniteSet(P)
  BY FS_Interval
<1>3. IsFiniteSet(D)
  <2>1. D \in SUBSET P
    OBVIOUS
  <2> QED
    BY <1>2, <2>1, FS_Subset
<1>4. PICK y : D = {y}
  <2> HIDE DEF D
  <2> QED
    BY <1>1, <1>3, FS_Singleton
<1>5. y \in P /\ v[y] # w[y] /\ \A n \in P : n # y => v[n] = w[n]
  BY <1>4
<1>6. \A n \in P : f[n] \in 0..9 /\ e[n] \in 0..9 /\ (f[n] = e[n] <=> v[n] = w[n])
  BY WeightsDiffer
<1>7. SumOf(f, P) % 10 = 0 /\ SumOf(e, P) % 10 = 0
  BY DEF luhn
<1> HIDE DEF f, e, P, D
<1>8. \A n \in P : f[n] \in Nat /\ e[n] \in Nat
  BY <1>6
<1>9. SumOf(f, P) \in Nat /\ SumOf(e, P) \in Nat
  BY <1>2, <1>8, SumNat
<1>10. SumOf(e, P) + f[y] = SumOf(f, P) + e[y]
  <2>1. \A n \in P : n # y => e[n] = f[n]
    BY <1>5, <1>6
  <2> QED
    BY <1>2, <1>5, <1>8, <2>1, SumChange
<1>11. f[y] \in 0..9 /\ e[y] \in 0..9
  BY <1>5, <1>6
<1>12. f[y] = e[y]
  BY <1>7, <1>9, <1>10, <1>11, SameTail
<1> QED
  BY <1>5, <1>6, <1>12

\* validateCard: a card number with one digit mistyped is never stored beside
\* the right one.
THEOREM TyposAreRefused == Spec => []TypoRefused
<1>1. SearchInv => TypoRefused
  <2>1. SUFFICES ASSUME SearchInv, NEW i \in checked, NEW j \in checked,
                        NEW name \in DOMAIN objects[i] \cap DOMAIN objects[j]
                                       \cap DOMAIN schema.fields,
                        schema.fields[name].type = "card",
                        Len(digits(TextOf(i, name))) = Len(digits(TextOf(j, name)))
                 PROVE  Differ(digits(TextOf(i, name)), digits(TextOf(j, name))) # 1
    BY DEF TypoRefused
  <2>2. /\ TextOf(i, name) \in Seq(STRING) /\ validateCard(TextOf(i, name))
        /\ TextOf(j, name) \in Seq(STRING) /\ validateCard(TextOf(j, name))
    BY <2>1, CheckedField DEF validate
  <2>3. /\ digits(TextOf(i, name)) \in Seq(Digit) /\ luhn(digits(TextOf(i, name)))
        /\ digits(TextOf(j, name)) \in Seq(Digit) /\ luhn(digits(TextOf(j, name)))
    BY <2>2, DigitsType DEF validateCard
  <2> QED
    BY <2>1, <2>3, LuhnCatchesTypo
<1> QED
  BY <1>1, SearchInvHolds, PTL
=============================================================================
