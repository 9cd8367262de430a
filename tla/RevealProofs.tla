---------------------------- MODULE RevealProofs ----------------------------
(***************************************************************************)
(* A batch reveal gives each row what opening it alone would give, and     *)
(* answers each id once: proofs for every request, every table, damaged or *)
(* not, every set of keys and every size of a batch.                       *)
(***************************************************************************)
EXTENDS Reveal, FiniteSetTheorems, SequenceTheorems, TLAPS

\* Where the rows have been read, and where a group is in hand.
Reading == {"index", "group", "one", "batch", "scatter", "respond", "answered"}
InGroup == {"one", "batch", "scatter"}

Answer == [objects : [Ids -> Ids \cup {None}], missing : Seq(Ids \cup Unknown),
           entries : Seq(Ids)]

Typed ==
    /\ table \in Tables /\ req \in Requests
    /\ pc \in Reading \cup {"select", "failed"}
    /\ rows \in Seq(Ids) /\ at \in Nat /\ byKey \in [Keys -> Seq(Nat)]
    /\ left \subseteq Keys /\ start \in Nat /\ deks \in Seq(Ids \cup {None})
    /\ plain \in [1..Len(rows) -> Ids \cup {None}]
    /\ errs \in [1..Len(rows) -> {"none", "unknown", "open"}]
    /\ calls \in [Keys -> Nat]
    /\ answer \in Answer

\* The SELECT returned each row once.
RowsRead ==
    /\ pc \in Reading => /\ ToSet(rows) = ToSet(req) \cap Ids
                         /\ IsInjective(rows)
    /\ pc \notin Reading => rows = <<>> /\ byKey = NoGroups

\* Every row that was looked at is in its group, once.
Grouped ==
    /\ pc \in {"select", "index", "failed"} => left = {}
    /\ pc = "index" => at <= Len(rows)
    /\ pc \in {"respond", "answered"} => at <= Len(req) /\ left = {}
    /\ pc = "answered" => at = Len(req)
    /\ pc \notin {"index", "respond", "answered"} => at = 0
    /\ pc \in Reading =>
         \A k \in Keys :
             /\ IsInjective(byKey[k])
             /\ ToSet(byKey[k]) = {n \in 1..(IF pc = "index" THEN at ELSE Len(rows)) :
                                     table[rows[n]].key = k}

\* A slot is filled when its group is done, and as it was before that.
SlotsRight ==
    pc \in Reading => \A n \in 1..Len(rows) :
        [plain |-> plain[n], err |-> errs[n]] =
            IF pc = "index" \/ table[rows[n]].key \in left
            THEN [plain |-> None, err |-> "none"]
            ELSE Open(rows[n])

\* The group in hand: each result so far is that of its row.
Unwrapped ==
    /\ pc \in InGroup =>
         /\ key \in left \cap Loaded
         /\ Len(deks) <= Len(byKey[key])
         /\ \A j \in 1..Len(deks) : deks[j] = UnwrapSlot(j)
    /\ pc = "batch" =>
         /\ start = calls[key] * BatchSize
         /\ Len(deks) = IF start < Len(byKey[key]) THEN start ELSE Len(byKey[key])
    /\ pc = "scatter" => Len(deks) = Len(byKey[key])

\* No key service was asked for a group that is still to do.
Called ==
    /\ RoundTrips
    /\ pc \notin {"respond", "answered"} =>
         \A k \in Keys : calls[k] = 0 \/ (pc \in Reading \ {"index"} /\ k \notin left)
                         \/ (pc \in {"batch", "scatter"} /\ k = key)

\* The answer to the first ids of the request.
Answered ==
    LET S == {req[m] : m \in 1..at} IN
    /\ pc \notin {"respond", "answered"} => answer = NoAnswer
    /\ pc \in {"respond", "answered"} =>
         /\ \A n \in 1..Len(rows) : errs[n] = "none"
         /\ \A i \in Ids : answer.objects[i] = IF i \in S THEN i ELSE None
         /\ ToSet(answer.missing) = S \ Ids
         /\ ToSet(answer.entries) = S \cap Ids
         /\ IsInjective(answer.missing) /\ IsInjective(answer.entries)

\* The inductive invariant.
RevealInv ==
    Typed /\ RowsRead /\ Grouped /\ SlotsRight /\ Unwrapped /\ Called /\ Answered

-----------------------------------------------------------------------------
(* Sequences *)

\* One more element, that was not there.
LEMMA Appending ==
    ASSUME NEW T, NEW s \in Seq(T), NEW x \in T
    PROVE  /\ Append(s, x) \in Seq(T)
           /\ Append(s, x) # <<>>
           /\ ToSet(Append(s, x)) = ToSet(s) \cup {x}
           /\ IsInjective(s) /\ x \notin ToSet(s) => IsInjective(Append(s, x))
<1> DEFINE a == Append(s, x)
<1>1. /\ Len(s) \in Nat /\ a \in Seq(T) /\ Len(a) = Len(s) + 1 /\ a[Len(s) + 1] = x
      /\ \A i \in 1..Len(s) : a[i] = s[i]
      /\ DOMAIN a = 1..(Len(s) + 1) /\ DOMAIN s = 1..Len(s)
  OBVIOUS
<1> HIDE DEF a
<1>2. ToSet(a) = ToSet(s) \cup {x}
  BY <1>1 DEF ToSet
<1>3. ASSUME IsInjective(s), x \notin ToSet(s) PROVE IsInjective(a)
  <2> SUFFICES ASSUME NEW i \in DOMAIN a, NEW j \in DOMAIN a, a[i] = a[j] PROVE i = j
    BY DEF IsInjective
  <2>1. CASE i \in 1..Len(s) /\ j \in 1..Len(s)
    BY <1>1, <1>3, <2>1 DEF IsInjective
  <2>2. CASE i = Len(s) + 1 /\ j = Len(s) + 1
    BY <2>2
  <2>3. ASSUME NEW m \in 1..Len(s) PROVE a[m] # x
    BY <1>1, <1>3, <2>3 DEF ToSet
  <2> QED
    BY <1>1, <2>1, <2>2, <2>3
<1>4. a # <<>>
  BY <1>1
<1> QED
  BY <1>1, <1>2, <1>3, <1>4 DEF a

LEMMA Nothing ==
    /\ ToSet(<<>>) = {} /\ IsInjective(<<>>) /\ Len(<<>>) = 0
    /\ \A T : <<>> \in Seq(T)
<1>1. DOMAIN <<>> = {}
  OBVIOUS
<1> QED
  BY <1>1 DEF ToSet, IsInjective

\* Each row once, in some order: every row has a place.
LEMMA InSomeOrder ==
    ASSUME NEW S, IsFiniteSet(S), NEW order \in SetToSeqs(S)
    PROVE  /\ order \in Seq(S) /\ ToSet(order) = S /\ IsInjective(order)
<1> DEFINE N == Cardinality(S)
<1>1. /\ N \in Nat /\ order \in [1..N -> S]
      /\ \A i, j \in 1..N : i # j => order[i] # order[j]
  BY FS_CardinalityType DEF SetToSeqs
<1>2. order \in Seq(S) /\ DOMAIN order = 1..N /\ IsInjective(order)
  BY <1>1 DEF IsInjective
<1>3. order \in Injection(1..N, S)
  BY <1>1 DEF Injection, IsInjective
<1>4. Cardinality(1..N) = N
  BY <1>1, FS_Interval
<1>5. order \in Surjection(1..N, S)
  BY <1>3, <1>4, FS_Injection
<1>6. ToSet(order) = S
  BY <1>2, <1>5 DEF Surjection, ToSet
<1> QED
  BY <1>2, <1>6

\* A request names finitely many ids.
LEMMA FinitelyMany ==
    ASSUME NEW T, NEW s \in Seq(T)
    PROVE  IsFiniteSet(ToSet(s))
<1>1. Len(s) \in Nat /\ DOMAIN s = 1..Len(s) /\ s \in [1..Len(s) -> T]
  OBVIOUS
<1>2. s \in Surjection(1..Len(s), ToSet(s))
  BY <1>1 DEF Surjection, ToSet
<1> QED
  BY <1>1, <1>2, FS_Surjection, FS_Interval

-----------------------------------------------------------------------------
(* RevealInv is inductive *)

LEMMA InitRevealInv == Init => RevealInv
<1> SUFFICES ASSUME Init PROVE RevealInv
  OBVIOUS
<1> USE DEF Init, Reading, InGroup
<1>1. NoAnswer \in Answer /\ NoGroups \in [Keys -> Seq(Nat)]
  BY Nothing DEF NoAnswer, Answer, NoGroups
<1>2. <<>> \in [1..0 -> Ids \cup {None}] /\ <<>> \in [1..0 -> {"none", "unknown", "open"}]
  <2>1. 1..0 = {} /\ DOMAIN <<>> = {}
    OBVIOUS
  <2> QED
    BY <2>1
<1>3. Typed
  BY <1>1, <1>2, Nothing DEF Typed
<1>4. RowsRead /\ Grouped /\ SlotsRight /\ Unwrapped /\ Answered
  BY DEF RowsRead, Grouped, SlotsRight, Unwrapped, Answered
<1>5. Called
  <2>1. \A k \in Keys : byKey[k] = <<>> /\ calls[k] = 0
    BY DEF NoGroups
  <2> QED
    BY <2>1, Nothing, RevealAssumption DEF Called, RoundTrips
<1> QED
  BY <1>3, <1>4, <1>5 DEF RevealInv

\* The request has failed: nothing is left of it.
LEMMA FailKeeps ==
    ASSUME RevealInv, Fail, pc \notin {"respond", "answered"}
    PROVE  RevealInv'
<1> USE DEF Fail, Reading, InGroup
<1>1. table' = table /\ req' = req /\ answer' = answer
  BY DEF input
<1>2. NoGroups \in [Keys -> Seq(Nat)]
  BY Nothing DEF NoGroups
<1>3. <<>> \in [1..0 -> Ids \cup {None}] /\ <<>> \in [1..0 -> {"none", "unknown", "open"}]
  <2>1. 1..0 = {} /\ DOMAIN <<>> = {}
    OBVIOUS
  <2> QED
    BY <2>1
<1>4. Typed'
  BY <1>1, <1>2, <1>3, Nothing DEF RevealInv, Typed
<1>5. RowsRead' /\ Grouped' /\ SlotsRight' /\ Unwrapped' /\ Answered'
  BY <1>1 DEF RevealInv, RowsRead, Grouped, SlotsRight, Unwrapped, Answered
<1>6. Called'
  <2>1. \A k \in Keys : byKey'[k] = <<>> /\ calls'[k] = 0
    BY DEF NoGroups
  <2> QED
    BY <2>1, Nothing, RevealAssumption DEF Called, RoundTrips
<1> QED
  BY <1>4, <1>5, <1>6 DEF RevealInv

\* The SELECT: nothing is opened yet.
LEMMA SelectKeeps ==
    ASSUME RevealInv, NEW order \in SetToSeqs(ToSet(req) \cap Ids), Select(order)
    PROVE  RevealInv'
<1> USE DEF Select, Reading, InGroup
<1>1. /\ table' = table /\ req' = req /\ at' = at /\ byKey' = byKey /\ left' = left
      /\ key' = key /\ start' = start /\ deks' = deks /\ calls' = calls /\ answer' = answer
      /\ rows' = order /\ pc' = "index" /\ pc = "select"
  BY DEF input, group
<1>2. req \in Seq(Ids \cup Unknown)
  BY RevealAssumption DEF RevealInv, Typed
<1>3. /\ order \in Seq(ToSet(req) \cap Ids) /\ ToSet(order) = ToSet(req) \cap Ids
      /\ IsInjective(order)
  <2>1. IsFiniteSet(ToSet(req) \cap Ids)
    BY <1>2, FinitelyMany, FS_Subset
  <2> QED
    BY <2>1, InSomeOrder
<1>4. order \in Seq(Ids) /\ Len(order) \in Nat
  BY <1>3
<1>5. /\ byKey = NoGroups /\ at = 0 /\ answer = NoAnswer
      /\ \A k \in Keys : calls[k] = 0 /\ byKey[k] = <<>>
  BY <1>1 DEF RevealInv, RowsRead, Grouped, Answered, Called, NoGroups
<1>6. Typed'
  BY <1>1, <1>4 DEF RevealInv, Typed
<1>7. RowsRead'
  BY <1>1, <1>3 DEF RowsRead
<1>8. left = {}
  BY <1>1 DEF RevealInv, Grouped
<1>9. Grouped'
  BY <1>1, <1>4, <1>5, <1>8, Nothing DEF Grouped
<1>10. SlotsRight'
  BY <1>1 DEF SlotsRight
<1>11. Unwrapped' /\ Answered'
  BY <1>1, <1>5 DEF Unwrapped, Answered
<1>12. Called'
  BY <1>1, <1>5, Nothing, RevealAssumption DEF Called, RoundTrips
<1> QED
  BY <1>6, <1>7, <1>9, <1>10, <1>11, <1>12 DEF RevealInv

\* A row's key, slot by slot.
LEMMA RowsHaveKeys ==
    ASSUME RevealInv, NEW n \in 1..Len(rows)
    PROVE  /\ rows[n] \in Ids /\ Len(rows) \in Nat /\ n \in Nat
           /\ table[rows[n]] \in Row /\ table[rows[n]].key \in Keys
<1>1. table \in [Ids -> Row] /\ rows \in Seq(Ids)
  BY RevealAssumption DEF RevealInv, Typed
<1>2. rows[n] \in Ids /\ Len(rows) \in Nat /\ n \in Nat
  BY <1>1
<1> QED
  BY <1>1, <1>2 DEF Row

\* The next row joins its group; then the groups are those that are not empty.
LEMMA GroupRowKeeps ==
    ASSUME RevealInv, GroupRow
    PROVE  RevealInv'
<1> USE DEF Reading, InGroup
<1> DEFINE n == at + 1
           k == table[rows[n]].key
<1>1. /\ table' = table /\ req' = req /\ rows' = rows /\ key' = key /\ start' = start
      /\ deks' = deks /\ plain' = plain /\ errs' = errs /\ calls' = calls
      /\ answer' = answer /\ pc = "index"
  BY DEF GroupRow, input, result
<1>2. /\ at \in Nat /\ at <= Len(rows) /\ Len(rows) \in Nat /\ byKey \in [Keys -> Seq(Nat)]
      /\ answer = NoAnswer /\ left = {} /\ Typed
      /\ \A h \in Keys : /\ calls[h] = 0 /\ IsInjective(byKey[h]) /\ byKey[h] \in Seq(Nat)
                         /\ ToSet(byKey[h]) = {m \in 1..at : table[rows[m]].key = h}
  BY <1>1 DEF RevealInv, Typed, Grouped, Called, Answered
<1>3. CASE at < Len(rows)
  <2>1. /\ byKey' = [byKey EXCEPT ![k] = Append(@, n)] /\ at' = n
        /\ left' = left /\ pc' = pc
    BY <1>3 DEF GroupRow
  <2>2. n \in 1..Len(rows) /\ n \in Nat /\ n <= Len(rows)
    BY <1>2, <1>3
  <2>3. k \in Keys
    BY <2>2, RowsHaveKeys
  <2>4. n \notin ToSet(byKey[k])
    BY <1>2, <2>3
  <2>5. /\ Append(byKey[k], n) \in Seq(Nat) /\ IsInjective(Append(byKey[k], n))
        /\ ToSet(Append(byKey[k], n)) = ToSet(byKey[k]) \cup {n}
    BY <1>2, <2>2, <2>3, <2>4, Appending
  <2>6. 1..n = (1..at) \cup {n}
    BY <1>2
  <2>7. k = table[rows[n]].key
    OBVIOUS
  <2> HIDE DEF n, k
  <2>8. /\ byKey' \in [Keys -> Seq(Nat)]
        /\ byKey'[k] = Append(byKey[k], n)
        /\ \A h \in Keys \ {k} : byKey'[h] = byKey[h]
    BY <1>2, <2>1, <2>3, <2>5
  <2>9. ASSUME NEW h \in Keys
        PROVE  /\ IsInjective(byKey'[h])
               /\ ToSet(byKey'[h]) = {m \in 1..n : table[rows[m]].key = h}
    <3>1. CASE h = k
      BY <1>2, <2>3, <2>5, <2>6, <2>7, <2>8, <3>1
    <3>2. CASE h # k
      BY <1>2, <2>6, <2>7, <2>8, <3>2
    <3> QED
      BY <3>1, <3>2
  <2>10. Typed'
    BY <1>1, <1>2, <2>1, <2>2, <2>8 DEF Typed
  <2>11. RowsRead' /\ SlotsRight' /\ Unwrapped' /\ Answered'
    BY <1>1, <1>2, <2>1 DEF RevealInv, RowsRead, SlotsRight, Unwrapped, Answered, Open
  <2>12. Grouped'
    BY <1>1, <1>2, <2>1, <2>2, <2>9 DEF Grouped
  <2>13. Called'
    <3>1. \A h \in Keys : Len(byKey'[h]) \in Nat
      BY <2>8
    <3> QED
      BY <1>1, <1>2, <2>1, <3>1, RevealAssumption DEF Called, RoundTrips
  <2> QED
    BY <2>10, <2>11, <2>12, <2>13 DEF RevealInv
<1>4. CASE ~(at < Len(rows))
  <2>1. /\ byKey' = byKey /\ at' = 0 /\ pc' = "group"
        /\ left' = {h \in Keys : byKey[h] # <<>>} /\ at = Len(rows)
    BY <1>2, <1>4 DEF GroupRow
  <2>2. Typed'
    BY <1>1, <1>2, <2>1 DEF Typed
  <2>3. Grouped'
    BY <1>1, <1>2, <2>1 DEF Grouped
  <2>4. RowsRead' /\ Unwrapped' /\ Answered'
    BY <1>1, <1>2, <2>1 DEF RevealInv, RowsRead, Unwrapped, Answered
  <2>5. ASSUME NEW m \in 1..Len(rows) PROVE table[rows[m]].key \in left'
    <3>1. table[rows[m]].key \in Keys
      BY RowsHaveKeys
    <3>2. m \in ToSet(byKey[table[rows[m]].key])
      BY <1>2, <2>1, <3>1
    <3> QED
      BY <2>1, <3>1, <3>2, Nothing
  <2>6. SlotsRight'
    BY <1>1, <2>1, <2>5 DEF RevealInv, SlotsRight
  <2>7. Called'
    BY <1>1, <1>2, <2>1 DEF RevealInv, Called, RoundTrips
  <2> QED
    BY <2>2, <2>3, <2>4, <2>6, <2>7 DEF RevealInv
<1> QED
  BY <1>3, <1>4

\* A group without its key: every row of it, and no other, has the error.
LEMMA UnknownKeyKeeps ==
    ASSUME RevealInv, NEW k \in Keys, UnknownKey(k)
    PROVE  RevealInv'
<1> USE DEF Reading, InGroup
<1>1. /\ table' = table /\ req' = req /\ rows' = rows /\ at' = at /\ byKey' = byKey
      /\ key' = key /\ start' = start /\ deks' = deks /\ plain' = plain /\ calls' = calls
      /\ answer' = answer /\ pc = "group" /\ pc' = pc /\ k \in left \ Loaded
      /\ left' = left \ {k}
      /\ errs' = [n \in 1..Len(rows) |->
                    IF n \in ToSet(byKey[k]) THEN "unknown" ELSE errs[n]]
  BY DEF UnknownKey, input, select
<1>2. Typed'
  BY <1>1 DEF RevealInv, Typed
<1>3. RowsRead' /\ Grouped' /\ Unwrapped' /\ Answered'
  BY <1>1 DEF RevealInv, RowsRead, Grouped, Unwrapped, Answered
<1>4. Called'
  BY <1>1 DEF RevealInv, Called, RoundTrips
<1>5. SlotsRight'
  <2> SUFFICES ASSUME NEW n \in 1..Len(rows)
               PROVE  [plain |-> plain[n], err |-> errs'[n]] =
                         IF table[rows[n]].key \in left \ {k}
                         THEN [plain |-> None, err |-> "none"] ELSE Open(rows[n])
    BY <1>1 DEF SlotsRight, Open
  <2>1. n \in ToSet(byKey[k]) <=> table[rows[n]].key = k
    BY <1>1 DEF RevealInv, Grouped
  <2>2. [plain |-> plain[n], err |-> errs[n]] =
           IF table[rows[n]].key \in left
           THEN [plain |-> None, err |-> "none"] ELSE Open(rows[n])
    BY <1>1 DEF RevealInv, SlotsRight
  <2>3. CASE table[rows[n]].key = k
    <3>1. Open(rows[n]) = [plain |-> None, err |-> "unknown"]
      BY <1>1, <2>3 DEF Open
    <3>2. plain[n] = None
      BY <1>1, <2>2, <2>3
    <3> QED
      BY <1>1, <2>1, <2>3, <3>1, <3>2
  <2>4. CASE table[rows[n]].key # k
    BY <1>1, <2>1, <2>2, <2>4
  <2> QED
    BY <2>3, <2>4
<1> QED
  BY <1>2, <1>3, <1>4, <1>5 DEF RevealInv

\* The next group: nothing is unwrapped yet, and nobody was asked.
LEMMA BeginGroupKeeps ==
    ASSUME RevealInv, NEW k \in Keys, BeginGroup(k)
    PROVE  RevealInv'
<1> USE DEF Reading, InGroup
<1>1. /\ table' = table /\ req' = req /\ rows' = rows /\ at' = at /\ byKey' = byKey
      /\ left' = left /\ plain' = plain /\ errs' = errs /\ calls' = calls
      /\ answer' = answer /\ pc = "group" /\ pc' \in {"one", "batch"}
      /\ k \in left \cap Loaded /\ key' = k /\ start' = 0 /\ deks' = <<>>
  BY DEF BeginGroup, input, select, result
<1>2. Typed'
  BY <1>1, Nothing DEF RevealInv, Typed
<1>3. RowsRead' /\ Grouped' /\ Answered'
  BY <1>1 DEF RevealInv, RowsRead, Grouped, Answered
<1>4. SlotsRight'
  BY <1>1 DEF RevealInv, SlotsRight, Open
<1>5. calls[k] = 0 /\ Len(byKey[k]) \in Nat
  BY <1>1 DEF RevealInv, Called, Typed
<1>6. Called'
  BY <1>1, <1>5 DEF RevealInv, Called, RoundTrips
<1>7. Unwrapped'
  BY <1>1, <1>5, Nothing, RevealAssumption DEF Unwrapped
<1> QED
  BY <1>2, <1>3, <1>4, <1>6, <1>7 DEF RevealInv

\* The places of the group in hand are slots of its rows.
LEMMA SlotsOfGroup ==
    ASSUME RevealInv, pc \in InGroup, NEW j \in 1..Len(byKey[key])
    PROVE  /\ byKey[key][j] \in 1..Len(rows) /\ table[rows[byKey[key][j]]].key = key
           /\ UnwrapSlot(j) \in Ids \cup {None}
<1>1. key \in Keys /\ byKey[key] \in Seq(Nat)
  BY DEF RevealInv, Unwrapped, Typed, InGroup
<1>2. byKey[key][j] \in ToSet(byKey[key])
  BY <1>1 DEF ToSet
<1>3. byKey[key][j] \in 1..Len(rows) /\ table[rows[byKey[key][j]]].key = key
  BY <1>1, <1>2 DEF RevealInv, Grouped, InGroup, Reading
<1>4. table[rows[byKey[key][j]]] \in Row
  BY <1>3, RowsHaveKeys
<1> QED
  BY <1>3, <1>4 DEF UnwrapSlot, Unwrap, Row

\* A step that only asks for keys, and hands the group on when it has them all.
LEMMA AskingKeeps ==
    ASSUME RevealInv, pc \in {"one", "batch"}, pc' \in {pc, "scatter"},
           UNCHANGED <<input, select, left, key, result, answer>>,
           deks' \in Seq(Ids \cup {None}), start' \in Nat, calls' \in [Keys -> Nat],
           Unwrapped', RoundTrips',
           \A k \in Keys \ {key} : calls'[k] = calls[k],
           pc = "one" => calls' = calls
    PROVE  RevealInv'
<1> USE DEF Reading, InGroup
<1>1. /\ table' = table /\ req' = req /\ rows' = rows /\ at' = at /\ byKey' = byKey
      /\ left' = left /\ key' = key /\ plain' = plain /\ errs' = errs /\ answer' = answer
  BY DEF input, select, result
<1>2. Typed'
  BY <1>1 DEF RevealInv, Typed
<1>3. RowsRead' /\ Grouped' /\ Answered'
  BY <1>1 DEF RevealInv, RowsRead, Grouped, Answered
<1>4. SlotsRight'
  BY <1>1 DEF RevealInv, SlotsRight, Open
<1>5. Called'
  BY <1>1 DEF RevealInv, Called
<1> QED
  BY <1>2, <1>3, <1>4, <1>5 DEF RevealInv

\* One key at a time.
LEMMA UnwrapOneKeeps ==
    ASSUME RevealInv, UnwrapOne
    PROVE  RevealInv'
<1> USE DEF Reading, InGroup
<1>1. /\ pc = "one" /\ UNCHANGED <<input, select, left, key, start, result, calls, answer>>
      /\ table' = table /\ rows' = rows /\ byKey' = byKey /\ left' = left /\ key' = key
      /\ start' = start /\ calls' = calls
  BY DEF UnwrapOne, input, select
<1>2. /\ key \in left \cap Loaded /\ key \in Keys /\ byKey[key] \in Seq(Nat)
      /\ deks \in Seq(Ids \cup {None}) /\ Len(deks) \in Nat /\ Len(byKey[key]) \in Nat
      /\ Len(deks) <= Len(byKey[key]) /\ \A j \in 1..Len(deks) : deks[j] = UnwrapSlot(j)
      /\ start \in Nat /\ calls \in [Keys -> Nat] /\ RoundTrips
  BY <1>1 DEF RevealInv, Unwrapped, Typed, Called
<1>3. RoundTrips' /\ \A j : UnwrapSlot(j)' = UnwrapSlot(j)
  BY <1>1, <1>2 DEF RoundTrips, UnwrapSlot
<1>4. CASE Len(deks) < Len(byKey[key])
  <2> DEFINE n == Len(deks) + 1
             x == UnwrapSlot(n)
  <2>1. deks' = Append(deks, x) /\ pc' = pc
    BY <1>1, <1>4 DEF UnwrapOne
  <2>2. n \in 1..Len(byKey[key]) /\ x \in Ids \cup {None}
    BY <1>1, <1>2, <1>4, SlotsOfGroup
  <2>3. x = UnwrapSlot(n) /\ n = Len(deks) + 1
    OBVIOUS
  <2> HIDE DEF n, x
  <2>4. /\ deks' \in Seq(Ids \cup {None}) /\ Len(deks') = n /\ deks'[n] = x
        /\ \A j \in 1..Len(deks) : deks'[j] = deks[j]
    BY <1>2, <2>1, <2>2, <2>3
  <2>5. ASSUME NEW j \in 1..Len(deks') PROVE deks'[j] = UnwrapSlot(j)
    <3>1. j = n \/ j \in 1..Len(deks)
      BY <1>2, <2>3, <2>4
    <3> QED
      BY <1>2, <2>3, <2>4, <3>1
  <2>6. Unwrapped'
    BY <1>1, <1>2, <1>3, <2>1, <2>2, <2>4, <2>5 DEF Unwrapped
  <2> QED
    BY <1>1, <1>2, <1>3, <2>1, <2>4, <2>6, AskingKeeps
<1>5. CASE ~(Len(deks) < Len(byKey[key]))
  <2>1. deks' = deks /\ pc' = "scatter"
    BY <1>1, <1>5 DEF UnwrapOne
  <2>2. Unwrapped'
    BY <1>1, <1>2, <1>3, <1>5, <2>1 DEF Unwrapped
  <2> QED
    BY <1>1, <1>2, <1>3, <2>1, <2>2, AskingKeeps
<1> QED
  BY <1>4, <1>5

\* A round trip: the results that came, and those of the next items.
LEMMA UnwrapBatchKeeps ==
    ASSUME RevealInv, UnwrapBatch
    PROVE  RevealInv'
<1> USE DEF Reading, InGroup
<1>1. /\ pc = "batch" /\ UNCHANGED <<input, select, left, key, result, answer>>
      /\ table' = table /\ rows' = rows /\ byKey' = byKey /\ left' = left /\ key' = key
  BY DEF UnwrapBatch, input, select
<1> DEFINE n == Len(byKey[key])
<1>2. /\ key \in left \cap Loaded /\ key \in Keys /\ byKey[key] \in Seq(Nat) /\ n \in Nat
      /\ deks \in Seq(Ids \cup {None}) /\ Len(deks) \in Nat
      /\ \A j \in 1..Len(deks) : deks[j] = UnwrapSlot(j)
      /\ start \in Nat /\ calls \in [Keys -> Nat] /\ RoundTrips
      /\ start = calls[key] * BatchSize /\ Len(deks) = IF start < n THEN start ELSE n
      /\ BatchSize \in Nat \ {0}
  BY <1>1, RevealAssumption DEF RevealInv, Unwrapped, Typed, Called
<1>3. \A j : UnwrapSlot(j)' = UnwrapSlot(j)
  BY <1>1 DEF UnwrapSlot
<1>4. CASE start < n
  <2> DEFINE w == BatchEnd(n) - start
             more == [j \in 1..w |-> UnwrapSlot(start + j)]
  <2>1. /\ deks' = deks \o more /\ start' = start + BatchSize /\ pc' = pc
        /\ calls' = [calls EXCEPT ![key] = @ + 1]
    BY <1>1, <1>4 DEF UnwrapBatch, BatchStep
  <2>2. /\ w \in Nat \ {0} /\ start + w <= n
        /\ start + w = IF start + BatchSize < n THEN start + BatchSize ELSE n
    <3>1. start \in Nat /\ n \in Nat /\ BatchSize \in Nat \ {0} /\ start < n
      BY <1>2, <1>4
    <3> HIDE DEF n
    <3> QED
      BY <3>1 DEF BatchEnd
  <2> HIDE DEF w
  <2>3. \A j \in 1..w : start + j \in 1..n
    <3>1. start \in Nat /\ n \in Nat /\ w \in Nat /\ start + w <= n
      BY <1>2, <2>2
    <3> HIDE DEF n
    <3> QED
      BY <3>1
  <2>4. \A j \in 1..w : UnwrapSlot(start + j) \in Ids \cup {None}
    BY <1>1, <2>3, SlotsOfGroup
  <2>5. more \in [1..w -> Ids \cup {None}]
    BY <2>4
  <2>6. more \in Seq(Ids \cup {None}) /\ Len(more) = w
    BY <2>2, <2>5
  <2>7. \A j \in 1..w : more[j] = UnwrapSlot(start + j)
    OBVIOUS
  <2> HIDE DEF more
  <2>8. /\ deks' \in Seq(Ids \cup {None}) /\ Len(deks') = start + w
        /\ \A j \in 1..(start + w) :
              deks'[j] = IF j <= start THEN deks[j] ELSE more[j - start]
    <3>1. /\ deks \in Seq(Ids \cup {None}) /\ more \in Seq(Ids \cup {None})
          /\ Len(deks) = start /\ Len(more) = w /\ start \in Nat /\ w \in Nat
      BY <1>2, <1>4, <2>2, <2>6
    <3> QED
      BY <2>1, <3>1, ConcatProperties
  <2>9. ASSUME NEW j \in 1..Len(deks') PROVE deks'[j] = UnwrapSlot(j)
    <3>1. CASE j <= start
      BY <1>2, <1>4, <2>8, <2>9, <3>1
    <3>2. CASE ~(j <= start)
      <4>1. j - start \in 1..w /\ start + (j - start) = j
        <5>1. start \in Nat /\ w \in Nat /\ j \in 1..(start + w)
          BY <1>2, <2>2, <2>8, <2>9
        <5> QED
          BY <3>2, <5>1
      <4> QED
        BY <2>7, <2>8, <2>9, <3>2, <4>1
    <3> QED
      BY <3>1, <3>2
  <2>10. /\ calls' \in [Keys -> Nat] /\ calls'[key] = calls[key] + 1
         /\ \A k \in Keys \ {key} : calls'[k] = calls[k]
    BY <1>2, <2>1
  <2>11. calls'[key] * BatchSize = start + BatchSize
    <3>1. PICK c \in Nat : c = calls[key]
      BY <1>2
    <3>2. (c + 1) * BatchSize = c * BatchSize + BatchSize
      BY <1>2, <3>1
    <3> QED
      BY <1>2, <2>10, <3>1, <3>2
  <2>12. Unwrapped'
    BY <1>1, <1>2, <1>3, <2>1, <2>2, <2>8, <2>9, <2>11 DEF Unwrapped
  <2>13. RoundTrips'
    <3> SUFFICES ASSUME NEW k \in Keys
                 PROVE  calls'[k] * BatchSize < Len(byKey[k]) + BatchSize
      BY <1>1 DEF RoundTrips
    <3>1. CASE k = key
      BY <1>2, <1>4, <2>11, <3>1
    <3>2. CASE k # key
      BY <1>2, <2>10, <3>2 DEF RoundTrips
    <3> QED
      BY <3>1, <3>2
  <2>14. start' \in Nat /\ pc' \in {pc, "scatter"}
    BY <1>2, <2>1
  <2> QED
    BY <1>1, <2>8, <2>10, <2>12, <2>13, <2>14, AskingKeeps
<1>5. CASE ~(start < n)
  <2>1. deks' = deks /\ start' = start /\ calls' = calls /\ pc' = "scatter"
    BY <1>1, <1>5 DEF UnwrapBatch
  <2>2. Unwrapped' /\ RoundTrips'
    BY <1>1, <1>2, <1>3, <1>5, <2>1 DEF Unwrapped, RoundTrips
  <2> QED
    BY <1>1, <1>2, <2>1, <2>2, AskingKeeps
<1> QED
  BY <1>4, <1>5

\* What opening a row by itself gives when its key is loaded.
Opening(i) == OpenWithDEK(Unwrap(table[i].key, table[i].wrap, i), table[i].body, i)

LEMMA OpenIsOpening ==
    ASSUME NEW i, table[i].key \in Loaded
    PROVE  Open(i) = [plain |-> Opening(i), err |-> IF Opening(i) = None THEN "open" ELSE "none"]
BY DEF Open, Opening

\* The results of the group in hand go to the slots of its rows.
LEMMA ScatterKeeps ==
    ASSUME RevealInv, Scatter
    PROVE  RevealInv'
<1> USE DEF Reading, InGroup
<1> DEFINE Js == 1..Len(byKey[key])
           Mine == {SlotOf(j) : j \in Js}
           J(n) == CHOOSE j \in Js : SlotOf(j) = n
           Out(n) == OpenWithDEK(deks[J(n)], table[rows[n]].body, rows[n])
<1>1. /\ table' = table /\ req' = req /\ rows' = rows /\ at' = at /\ byKey' = byKey
      /\ key' = key /\ start' = start /\ deks' = deks /\ calls' = calls /\ answer' = answer
      /\ pc = "scatter" /\ pc' = "group" /\ left' = left \ {key}
      /\ plain' = [n \in 1..Len(rows) |-> IF n \in Mine THEN Out(n) ELSE plain[n]]
      /\ errs' = [n \in 1..Len(rows) |->
                    IF n \notin Mine THEN errs[n]
                    ELSE IF Out(n) = None THEN "open" ELSE "none"]
  BY DEF Scatter, input, select
<1>2. /\ key \in left \cap Loaded /\ key \in Keys /\ byKey[key] \in Seq(Nat)
      /\ Len(deks) = Len(byKey[key]) /\ \A j \in Js : deks[j] = UnwrapSlot(j)
  BY <1>1 DEF RevealInv, Typed, Unwrapped
<1>3. ASSUME NEW n \in 1..Len(rows) PROVE n \in Mine <=> table[rows[n]].key = key
  <2>1. Mine = ToSet(byKey[key])
    BY <1>2 DEF SlotOf, ToSet
  <2> HIDE DEF Mine
  <2> QED
    BY <1>1, <1>2, <2>1 DEF RevealInv, Grouped
<1>4. ASSUME NEW n \in 1..Len(rows), n \in Mine
      PROVE  Out(n) = Opening(rows[n]) /\ Opening(rows[n]) \in Ids \cup {None}
  <2>1. \E j \in Js : SlotOf(j) = n
    BY <1>4
  <2>2. J(n) \in Js /\ byKey[key][J(n)] = n
    BY <2>1 DEF SlotOf
  <2> HIDE DEF J, Js
  <2>3. deks[J(n)] = Unwrap(key, table[rows[n]].wrap, rows[n])
    BY <1>2, <2>2 DEF UnwrapSlot
  <2>4. table[rows[n]].key = key
    BY <1>3, <1>4
  <2>5. table[rows[n]] \in Row
    BY RowsHaveKeys
  <2> QED
    BY <2>3, <2>4, <2>5 DEF Opening, OpenWithDEK, Row
<1> HIDE DEF Mine, Js, J, Out
<1>5. Typed'
  <2>1. \A n \in 1..Len(rows) : plain[n] \in Ids \cup {None}
                                /\ errs[n] \in {"none", "unknown", "open"}
    BY DEF RevealInv, Typed
  <2>2. plain' \in [1..Len(rows) -> Ids \cup {None}]
    BY <1>1, <1>4, <2>1
  <2>3. errs' \in [1..Len(rows) -> {"none", "unknown", "open"}]
    BY <1>1, <2>1
  <2> QED
    BY <1>1, <2>2, <2>3 DEF RevealInv, Typed
<1>6. RowsRead' /\ Grouped' /\ Unwrapped' /\ Answered'
  BY <1>1 DEF RevealInv, RowsRead, Grouped, Unwrapped, Answered
<1>7. Called'
  BY <1>1 DEF RevealInv, Called, RoundTrips
<1>8. SlotsRight'
  <2> SUFFICES ASSUME NEW n \in 1..Len(rows)
               PROVE  [plain |-> plain'[n], err |-> errs'[n]] =
                         IF table[rows[n]].key \in left \ {key}
                         THEN [plain |-> None, err |-> "none"] ELSE Open(rows[n])
    BY <1>1 DEF SlotsRight, Open
  <2>1. CASE table[rows[n]].key = key
    <3>1. n \in Mine
      BY <1>3, <2>1
    <3>2. plain'[n] = Opening(rows[n])
          /\ errs'[n] = IF Opening(rows[n]) = None THEN "open" ELSE "none"
      BY <1>1, <1>4, <3>1
    <3> QED
      BY <1>2, <2>1, <3>2, OpenIsOpening
  <2>2. CASE table[rows[n]].key # key
    <3>1. plain'[n] = plain[n] /\ errs'[n] = errs[n]
      BY <1>1, <1>3, <2>2
    <3> QED
      BY <1>1, <2>2, <3>1 DEF RevealInv, SlotsRight
  <2> QED
    BY <2>1, <2>2
<1> QED
  BY <1>5, <1>6, <1>7, <1>8 DEF RevealInv

\* All groups are done: every row has opened, or the request fails.
LEMMA OpenedKeeps ==
    ASSUME RevealInv, Opened
    PROVE  RevealInv'
<1> USE DEF Reading, InGroup
<1>1. CASE Fail
  BY <1>1, FailKeeps DEF Opened
<1>2. CASE ~Fail
  <2>1. /\ pc = "group" /\ left = {} /\ pc' = "respond"
        /\ \A n \in 1..Len(rows) : errs[n] = "none"
        /\ table' = table /\ req' = req /\ rows' = rows /\ at' = at /\ byKey' = byKey
        /\ left' = left /\ key' = key /\ start' = start /\ deks' = deks
        /\ plain' = plain /\ errs' = errs /\ calls' = calls /\ answer' = answer
    BY <1>2 DEF Opened, input, select, group, result
  <2>2. at = 0 /\ answer = NoAnswer /\ req \in Seq(Ids \cup Unknown) /\ Len(req) \in Nat
    BY <2>1, RevealAssumption DEF RevealInv, Grouped, Answered, Typed
  <2>3. Typed' /\ RowsRead' /\ Unwrapped'
    BY <2>1 DEF RevealInv, Typed, RowsRead, Unwrapped
  <2>4. Grouped'
    BY <2>1, <2>2 DEF RevealInv, Grouped
  <2>5. SlotsRight'
    BY <2>1 DEF RevealInv, SlotsRight, Open
  <2>6. Called'
    BY <2>1 DEF RevealInv, Called, RoundTrips
  <2>7. Answered'
    <3>1. {req[m] : m \in 1..0} = {}
      OBVIOUS
    <3> QED
      BY <2>1, <2>2, <3>1, Nothing DEF Answered, NoAnswer
  <2> QED
    BY <2>3, <2>4, <2>5, <2>6, <2>7 DEF RevealInv
<1> QED
  BY <1>1, <1>2

\* A row that has opened gave its own object.
LEMMA OpenedRow ==
    ASSUME RevealInv, pc \in {"respond", "answered"}, NEW n \in 1..Len(rows)
    PROVE  plain[n] = rows[n] /\ Open(rows[n]).err = "none"
<1>1. rows[n] \in Ids
  BY RowsHaveKeys
<1>2. [plain |-> plain[n], err |-> "none"] = Open(rows[n])
  BY DEF RevealInv, SlotsRight, Grouped, Answered, Reading
<1>3. Open(rows[n]).err = "none" /\ Open(rows[n]).plain = plain[n]
  BY <1>2
<1>4. table[rows[n]].key \in Loaded
  BY <1>3 DEF Open
<1>5. Opening(rows[n]) # None /\ Opening(rows[n]) = plain[n]
  BY <1>3, <1>4, OpenIsOpening
<1> QED
  BY <1>3, <1>5 DEF Opening, OpenWithDEK

\* The next id of the request: answered before, missing, or given.
LEMMA RespondKeeps ==
    ASSUME RevealInv, Respond
    PROVE  RevealInv'
<1> USE DEF Reading, InGroup
<1>1. /\ table' = table /\ req' = req /\ rows' = rows /\ byKey' = byKey
      /\ left' = left /\ key' = key /\ start' = start /\ deks' = deks
      /\ plain' = plain /\ errs' = errs /\ calls' = calls /\ pc = "respond"
  BY DEF Respond, input, group, result
<1>2. /\ at \in Nat /\ at <= Len(req) /\ req \in Seq(Ids \cup Unknown) /\ Len(req) \in Nat
      /\ answer \in Answer /\ left = {} /\ Typed
      /\ ToSet(rows) = ToSet(req) \cap Ids /\ rows \in Seq(Ids)
  BY <1>1, RevealAssumption DEF RevealInv, Typed, Grouped, RowsRead
<1> DEFINE S == {req[m] : m \in 1..at}
<1>3. /\ \A n \in 1..Len(rows) : errs[n] = "none"
      /\ \A i \in Ids : answer.objects[i] = IF i \in S THEN i ELSE None
      /\ ToSet(answer.missing) = S \ Ids /\ ToSet(answer.entries) = S \cap Ids
      /\ IsInjective(answer.missing) /\ IsInjective(answer.entries)
  BY <1>1 DEF RevealInv, Answered
<1>4. CASE ~(at < Len(req))
  <2>1. pc' = "answered" /\ at' = at /\ answer' = answer /\ at = Len(req)
    BY <1>2, <1>4 DEF Respond
  <2>2. Typed' /\ RowsRead' /\ Grouped' /\ Unwrapped'
    BY <1>1, <1>2, <2>1 DEF RevealInv, Typed, RowsRead, Grouped, Unwrapped
  <2>3. SlotsRight' /\ Called'
    BY <1>1, <2>1 DEF RevealInv, SlotsRight, Open, Called, RoundTrips
  <2>4. Answered'
    BY <1>1, <1>3, <2>1 DEF Answered
  <2> QED
    BY <2>2, <2>3, <2>4 DEF RevealInv
<1>5. CASE at < Len(req)
  <2> DEFINE id == req[at + 1]
  <2>1. pc' = "respond" /\ at' = at + 1 /\ answer' = Give(id)
    BY <1>1, <1>5 DEF Respond
  <2>2. at + 1 \in 1..Len(req) /\ at + 1 \in Nat /\ at + 1 <= Len(req)
    BY <1>2, <1>5
  <2>3. id \in Ids \cup Unknown /\ id \in ToSet(req)
    BY <1>2, <2>2 DEF ToSet
  <2>4. {req[m] : m \in 1..(at + 1)} = S \cup {id}
    <3>1. 1..(at + 1) = (1..at) \cup {at + 1}
      BY <1>2
    <3> QED
      BY <3>1
  <2>5. Seen(id) <=> id \in S
    BY DEF Seen
  <2>6. Found(id) # {} <=> id \in Ids
    <3>1. DOMAIN rows = 1..Len(rows)
      BY <1>2
    <3> QED
      BY <1>2, <2>3, <3>1 DEF Found, ToSet
  <2> HIDE DEF id, S
  <2> DEFINE a == Give(id)
  <2>7. /\ a \in Answer
        /\ \A i \in Ids : a.objects[i] = IF i \in S \cup {id} THEN i ELSE None
        /\ ToSet(a.missing) = (S \cup {id}) \ Ids
        /\ ToSet(a.entries) = (S \cup {id}) \cap Ids
        /\ IsInjective(a.missing) /\ IsInjective(a.entries)
    <3>1. CASE id \in S
      BY <1>2, <1>3, <2>5, <3>1 DEF Give
    <3>2. CASE id \notin S /\ id \notin Ids
      <4>1. a = [answer EXCEPT !.missing = Append(@, id)]
        BY <2>5, <2>6, <3>2 DEF Give
      <4>2. answer.missing \in Seq(Ids \cup Unknown) /\ id \notin ToSet(answer.missing)
        BY <1>2, <1>3, <3>2 DEF Answer
      <4>3. /\ Append(answer.missing, id) \in Seq(Ids \cup Unknown)
            /\ ToSet(Append(answer.missing, id)) = ToSet(answer.missing) \cup {id}
            /\ IsInjective(Append(answer.missing, id))
        BY <1>3, <2>3, <4>2, Appending
      <4>4. /\ a \in Answer /\ a.missing = Append(answer.missing, id)
            /\ a.objects = answer.objects /\ a.entries = answer.entries
        BY <1>2, <4>1, <4>3 DEF Answer
      <4> QED
        BY <1>3, <3>2, <4>3, <4>4
    <3>3. CASE id \notin S /\ id \in Ids
      <4>1. PICK n \in Found(id) : n = CHOOSE m \in Found(id) : TRUE
        BY <2>6, <3>3
      <4>2. n \in 1..Len(rows) /\ rows[n] = id
        BY DEF Found
      <4>3. plain[n] = id
        BY <1>1, <4>2, OpenedRow
      <4>4. a = [answer EXCEPT !.objects[id] = id, !.entries = Append(@, id)]
        BY <2>5, <2>6, <3>3, <4>1, <4>3 DEF Give
      <4>5. answer.entries \in Seq(Ids) /\ id \notin ToSet(answer.entries)
        BY <1>2, <1>3, <3>3 DEF Answer
      <4>6. /\ Append(answer.entries, id) \in Seq(Ids)
            /\ ToSet(Append(answer.entries, id)) = ToSet(answer.entries) \cup {id}
            /\ IsInjective(Append(answer.entries, id))
        BY <1>3, <3>3, <4>5, Appending
      <4>7. /\ a \in Answer /\ a.missing = answer.missing
            /\ a.objects = [answer.objects EXCEPT ![id] = id]
            /\ a.entries = Append(answer.entries, id)
        BY <1>2, <3>3, <4>4, <4>6 DEF Answer
      <4>8. answer.objects \in [Ids -> Ids \cup {None}]
        BY <1>2 DEF Answer
      <4> QED
        BY <1>3, <3>3, <4>6, <4>7, <4>8
    <3> QED
      BY <3>1, <3>2, <3>3
  <2> HIDE DEF a
  <2>8. answer' = a
    BY <2>1 DEF a
  <2>9. Typed'
    BY <1>1, <1>2, <2>1, <2>2, <2>7, <2>8 DEF Typed
  <2>10. RowsRead' /\ Grouped' /\ Unwrapped'
    BY <1>1, <1>2, <2>1, <2>2 DEF RevealInv, RowsRead, Grouped, Unwrapped
  <2>11. SlotsRight' /\ Called'
    BY <1>1, <2>1 DEF RevealInv, SlotsRight, Open, Called, RoundTrips
  <2>12. Answered'
    BY <1>1, <1>3, <2>1, <2>4, <2>7, <2>8 DEF Answered
  <2> QED
    BY <2>9, <2>10, <2>11, <2>12 DEF RevealInv
<1> QED
  BY <1>4, <1>5

LEMMA NextRevealInv == RevealInv /\ [Next]_vars => RevealInv'
<1> SUFFICES ASSUME RevealInv, [Next]_vars PROVE RevealInv'
  OBVIOUS
<1>1. CASE UNCHANGED vars
  <2>1. /\ table' = table /\ req' = req /\ rows' = rows /\ at' = at /\ byKey' = byKey
        /\ left' = left /\ key' = key /\ start' = start /\ deks' = deks /\ pc' = pc
        /\ plain' = plain /\ errs' = errs /\ calls' = calls /\ answer' = answer
    BY <1>1 DEF vars, input, select, group, result
  <2> QED
    BY <2>1 DEF RevealInv, Typed, RowsRead, Grouped, SlotsRight, Unwrapped, Called, Answered,
                RoundTrips, Open, UnwrapSlot
<1>2. CASE Unreachable
  BY <1>2, FailKeeps DEF Unreachable
<1> QED
  BY <1>1, <1>2, SelectKeeps, GroupRowKeeps, UnknownKeyKeeps, BeginGroupKeeps, UnwrapOneKeeps,
     UnwrapBatchKeeps, ScatterKeeps, OpenedKeeps, RespondKeeps DEF Next

-----------------------------------------------------------------------------
(* What a caller can rely on *)

\* The inductive invariant holds in every reachable state of a batch reveal.
THEOREM RevealInvHolds == Spec => []RevealInv
BY InitRevealInv, NextRevealInv, PTL DEF Spec

\* OpenMany gives each row what Open would give it, in its own slot: whatever
\* the order of the groups, however UnwrapMany cuts them into batches, and
\* whichever rows are damaged or under a key that is not loaded.
THEOREM OpenManyIsOpen == Spec => []OpenManyExact
<1>1. RevealInv => OpenManyExact
  BY DEF RevealInv, Unwrapped, SlotsRight, OpenManyExact, Reading
<1> QED
  BY <1>1, RevealInvHolds, PTL

\* A batch is answered exactly: each id once, given with its own plaintext and
\* a line for the log, or missing; and not at all when one row is damaged.
THEOREM BatchAnsweredExactly == Spec => []AnswerExact
<1>1. RevealInv => AnswerExact
  <2> SUFFICES ASSUME RevealInv, pc = "answered"
               PROVE  /\ \A i \in Ids :
                           answer.objects[i] = IF i \in ToSet(req) THEN i ELSE None
                      /\ \A i \in ToSet(req) \cap Ids : Open(i).err = "none"
                      /\ ToSet(answer.missing) = ToSet(req) \ Ids
                      /\ ToSet(answer.entries) = ToSet(req) \cap Ids
                      /\ IsInjective(answer.missing) /\ IsInjective(answer.entries)
    BY DEF AnswerExact
  <2>1. {req[m] : m \in 1..at} = ToSet(req)
    <3>1. DOMAIN req = 1..Len(req) /\ at = Len(req)
      BY RevealAssumption DEF RevealInv, Typed, Grouped
    <3> QED
      BY <3>1 DEF ToSet
  <2>2. ASSUME NEW i \in ToSet(req) \cap Ids PROVE Open(i).err = "none"
    <3>1. DOMAIN rows = 1..Len(rows) /\ ToSet(rows) = ToSet(req) \cap Ids
      BY DEF RevealInv, Typed, RowsRead, Reading
    <3>2. PICK n \in 1..Len(rows) : rows[n] = i
      BY <2>2, <3>1 DEF ToSet
    <3> QED
      BY <3>2, OpenedRow
  <2> QED
    BY <2>1, <2>2 DEF RevealInv, Answered
<1> QED
  BY <1>1, RevealInvHolds, PTL

\* A group of n rows takes at most n / batchSize round trips, rounded up.
THEOREM FewRoundTrips == Spec => []RoundTrips
<1>1. RevealInv => RoundTrips
  BY DEF RevealInv, Called
<1> QED
  BY <1>1, RevealInvHolds, PTL
=============================================================================
