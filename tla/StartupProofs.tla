--------------------------- MODULE StartupProofs ---------------------------
(***************************************************************************)
(* Proofs about Startup, for any number of replicas, releases and keys.    *)
(***************************************************************************)
EXTENDS Startup, SumProofs

\* The session lock is held by the one process that applies migrations.
LockHeld == \A r \in Replicas : locker = r <=> pc[r] = "apply"

\* What that process still has to apply is what is missing, since nobody else
\* applies anything meanwhile.
TodoExact == \A r \in Replicas : pc[r] = "apply" => todo[r] = (1..Needs[r]) \ Done

\* Migrations are applied in order, so the newest one stands for all before it:
\* schemaCurrent compares one number.
InOrder == \A v \in Done : 1..v \subseteq Done

\* A process has what its next step of loadIndexKey reads, and what it read
\* back holds the key that is stored, although the row may be re-wrapped since.
KeySoFar(r) ==
    /\ pc[r] = "insert" => mine[r] # None
    /\ pc[r] = "read" => keys # None
    /\ pc[r] = "open" => mine[r] # None /\ keys # None /\ mine[r].key = keys.key

\* The inductive invariant of the start.
StartInv ==
    /\ TypeOK
    /\ LockHeld /\ TodoExact /\ InOrder /\ MigratedOnce /\ TablesThere
    /\ \A r \in Replicas : KeySoFar(r)
    /\ OneIndexKey

-----------------------------------------------------------------------------
(* Versions *)

\* Max2 is the greatest element of a finite set of naturals.
LEMMA Max2Greatest ==
    ASSUME NEW S \in SUBSET Nat, IsFiniteSet(S), S # {}
    PROVE  Max2(S) \in S /\ \A m \in S : m <= Max2(S)
BY GreatestExists DEF Max2

\* Every migration that some release embeds is one of Migrations, which are
\* finitely many.
LEMMA MigrationsCover ==
    ASSUME NEW r \in Replicas
    PROVE  /\ 1..Needs[r] \subseteq Migrations /\ Needs[r] \in Nat \ {0}
           /\ Migrations \subseteq Nat \ {0} /\ IsFiniteSet(Migrations)
<1> DEFINE S == {Needs[q] : q \in Replicas}
<1>1. S \in SUBSET Nat /\ S # {} /\ Needs[r] \in S /\ Needs[r] \in Nat \ {0}
  BY StartupAssumption
<1>2. IsFiniteSet(S)
  <2>1. Needs \in Surjection(Replicas, S)
    BY StartupAssumption DEF Surjection
  <2> QED
    BY <2>1, StartupAssumption, FS_Surjection
<1> HIDE DEF S
<1>3. Max2(S) \in Nat /\ Needs[r] <= Max2(S)
  BY <1>1, <1>2, Max2Greatest
<1>4. IsFiniteSet(1..Max2(S))
  BY <1>3, FS_Interval
<1>5. Migrations = 1..Max2(S)
  BY DEF Migrations, S
<1> QED
  BY <1>1, <1>3, <1>4, <1>5

\* A set of applied migrations with a greatest one: the number that
\* GetDBVersion reports.
LEMMA DoneGreatest ==
    ASSUME TypeOK, Done # {}, NEW r \in Replicas
    PROVE  Max2(Done) \in Done /\ Done \subseteq Nat
<1>1. Done \subseteq Migrations /\ Migrations \subseteq Nat /\ IsFiniteSet(Migrations)
  BY MigrationsCover DEF Done
<1>2. Done \in SUBSET Nat /\ IsFiniteSet(Done)
  BY <1>1, FS_Subset
<1> QED
  BY <1>2, Max2Greatest

-----------------------------------------------------------------------------
(* The invariant is inductive *)

\* An empty database on which nobody has started.
LEMMA InitStartInv == Init => StartInv
<1> SUFFICES ASSUME Init PROVE StartInv
  OBVIOUS
<1> USE DEF Init
<1>1. TypeOK
  BY StartupAssumption DEF TypeOK, Control
<1>2. Done = {}
  BY DEF Done
<1>3. LockHeld /\ TodoExact
  BY NoneAssumption DEF LockHeld, TodoExact
<1>4. InOrder /\ MigratedOnce /\ TablesThere
  BY <1>2 DEF InOrder, MigratedOnce, TablesThere
<1>5. OneIndexKey /\ \A r \in Replicas : KeySoFar(r)
  BY DEF OneIndexKey, KeySoFar
<1> QED
  BY <1>1, <1>3, <1>4, <1>5 DEF StartInv

\* What a step keeps that moves only process r and applies no migration.
LEMMA OnlyMoves ==
    ASSUME StartInv, TypeOK', NEW r \in Replicas,
           \A q \in Replicas \ {r} : /\ pc'[q] = pc[q] /\ todo'[q] = todo[q]
                                     /\ mine'[q] = mine[q] /\ index'[q] = index[q],
           applied' = applied,
           pc'[r] = "apply" <=> locker' = r,
           \A q \in Replicas \ {r} : locker' = q <=> locker = q,
           pc'[r] = "apply" => todo'[r] = (1..Needs[r]) \ Done,
           pc'[r] \in {"propose", "insert", "read", "open", "up"} => 1..Needs[r] \subseteq Done,
           keys # None => keys' # None /\ keys'.key = keys.key,
           KeySoFar(r)',
           pc'[r] = "up" => keys' # None /\ index'[r] = keys'.key
    PROVE  StartInv'
<1>1. Done' = Done
  BY DEF Done
<1>2. LockHeld'
  BY DEF StartInv, LockHeld
<1>3. TodoExact'
  BY <1>1 DEF StartInv, TodoExact
<1>4. InOrder' /\ MigratedOnce'
  BY <1>1 DEF StartInv, InOrder, MigratedOnce
<1>5. TablesThere'
  BY <1>1 DEF StartInv, TablesThere
<1>6. \A q \in Replicas : KeySoFar(q)'
  BY DEF StartInv, KeySoFar
<1>7. OneIndexKey'
  BY DEF StartInv, OneIndexKey
<1> QED
  BY <1>2, <1>3, <1>4, <1>5, <1>6, <1>7 DEF StartInv

\* A process stops: its lock goes with it.
LEMMA StopInv ==
    ASSUME StartInv, NEW r \in Replicas, Stop(r)
    PROVE  StartInv'
<1>1. TypeOK
  BY DEF StartInv
<1>2. TypeOK'
  BY <1>1 DEF TypeOK, Stop, Goto, Release, Control
<1>3. pc'[r] = "down" /\ locker' # r
  BY <1>1, NoneAssumption DEF TypeOK, Stop, Goto, Release
<1>4. \A q \in Replicas \ {r} : /\ pc'[q] = pc[q] /\ todo'[q] = todo[q]
                                /\ mine'[q] = mine[q] /\ index'[q] = index[q]
                                /\ locker' = q <=> locker = q
  BY <1>1, NoneAssumption DEF TypeOK, Stop, Goto, Release
<1>5. applied' = applied /\ keys' = keys
  BY DEF Stop
<1>6. KeySoFar(r)'
  BY <1>3 DEF KeySoFar
<1> QED
  BY <1>2, <1>3, <1>4, <1>5, <1>6, OnlyMoves

\* store.Open begins.
LEMMA OpenInv ==
    ASSUME StartInv, NEW r \in Replicas, Open(r)
    PROVE  StartInv'
<1>1. TypeOK /\ locker # r
  BY DEF StartInv, LockHeld, Open
<1>2. TypeOK'
  BY <1>1 DEF TypeOK, Open, Goto, db, Control
<1>3. /\ pc'[r] \in {"lock", "check"} /\ locker' = locker /\ applied' = applied /\ keys' = keys
      /\ \A q \in Replicas \ {r} : /\ pc'[q] = pc[q] /\ todo'[q] = todo[q]
                                   /\ mine'[q] = mine[q] /\ index'[q] = index[q]
  BY <1>1 DEF TypeOK, Open, Goto, db
<1>4. KeySoFar(r)'
  BY <1>3 DEF KeySoFar
<1> QED
  BY <1>1, <1>2, <1>3, <1>4, OnlyMoves

\* migrateUp takes the session lock and lists what is missing.
LEMMA MigrateLockInv ==
    ASSUME StartInv, NEW r \in Replicas, MigrateLock(r)
    PROVE  StartInv'
<1>1. TypeOK /\ locker = None
  BY DEF StartInv, MigrateLock, MayLock
<1>2. TypeOK'
  <2>1. (1..Needs[r]) \ Done \subseteq Migrations
    BY MigrationsCover
  <2> QED
    BY <1>1, <2>1 DEF TypeOK, MigrateLock, Goto, Control
<1>3. /\ pc'[r] = "apply" /\ locker' = r /\ applied' = applied /\ keys' = keys
      /\ todo'[r] = (1..Needs[r]) \ Done
      /\ \A q \in Replicas \ {r} : /\ pc'[q] = pc[q] /\ todo'[q] = todo[q]
                                   /\ mine'[q] = mine[q] /\ index'[q] = index[q]
  BY <1>1 DEF TypeOK, MigrateLock, Goto
<1>4. \A q \in Replicas \ {r} : locker' = q <=> locker = q
  BY <1>1, <1>3, NoneAssumption
<1>5. KeySoFar(r)'
  BY <1>3 DEF KeySoFar
<1> QED
  BY <1>2, <1>3, <1>4, <1>5, OnlyMoves

\* One migration is applied: it was missing, and all before it are there.
LEMMA MigrateApplyInv ==
    ASSUME StartInv, NEW r \in Replicas, MigrateApply(r)
    PROVE  StartInv'
<1> DEFINE v == CHOOSE v \in todo[r] : \A w \in todo[r] : v <= w
<1>1. /\ TypeOK /\ pc[r] = "apply" /\ todo[r] # {} /\ todo[r] = (1..Needs[r]) \ Done
      /\ locker = r
  BY DEF StartInv, TodoExact, LockHeld, MigrateApply
<1>2. /\ applied' = [applied EXCEPT ![v] = @ + 1]
      /\ todo' = [todo EXCEPT ![r] = @ \ {v}]
      /\ pc' = pc /\ locker' = locker /\ keys' = keys /\ drawn' = drawn
      /\ mine' = mine /\ index' = index
  BY DEF MigrateApply
<1>3. v \in todo[r] /\ \A w \in todo[r] : v <= w
  <2>1. todo[r] \in SUBSET Nat
    BY <1>1
  <2>2. \E n \in todo[r] : \A w \in todo[r] : n <= w
    BY <1>1, <2>1, LeastExists
  <2> QED
    BY <2>2
<1> HIDE DEF v
<1>4. v \in 1..Needs[r] /\ v \notin Done /\ v \in Migrations /\ Needs[r] \in Nat
  BY <1>1, <1>3, MigrationsCover
<1>5. applied[v] = 0 /\ applied \in [Migrations -> Nat]
  BY <1>1, <1>4 DEF Done, TypeOK
<1>6. TypeOK'
  <2>1. applied' \in [Migrations -> Nat]
    BY <1>2, <1>4, <1>5
  <2>2. todo' \in [Replicas -> SUBSET Migrations]
    BY <1>1, <1>2 DEF TypeOK
  <2> QED
    BY <1>1, <1>2, <2>1, <2>2 DEF TypeOK
<1>7. Done' = Done \cup {v}
  BY <1>2, <1>4, <1>5 DEF Done
<1>8. MigratedOnce'
  BY <1>2, <1>4, <1>5 DEF StartInv, MigratedOnce
<1>9. LockHeld'
  BY <1>2 DEF StartInv, LockHeld
<1>10. TodoExact'
  <2>1. \A q \in Replicas : pc[q] = "apply" => q = r
    BY <1>1 DEF StartInv, LockHeld
  <2>2. todo'[r] = (1..Needs[r]) \ Done'
    BY <1>1, <1>2, <1>7 DEF TypeOK
  <2> QED
    BY <1>2, <2>1, <2>2 DEF TodoExact
<1>11. InOrder'
  <2>1. \A w \in 1..v : w # v => w \in Done
    BY <1>1, <1>3, <1>4
  <2> QED
    BY <1>7, <2>1 DEF StartInv, InOrder
<1>12. TablesThere'
  BY <1>2, <1>7 DEF StartInv, TablesThere
<1>13. OneIndexKey' /\ \A q \in Replicas : KeySoFar(q)'
  BY <1>2 DEF StartInv, OneIndexKey, KeySoFar
<1> QED
  BY <1>6, <1>8, <1>9, <1>10, <1>11, <1>12, <1>13 DEF StartInv

\* Up is through.
LEMMA MigrateUnlockInv ==
    ASSUME StartInv, NEW r \in Replicas, MigrateUnlock(r)
    PROVE  StartInv'
<1>1. TypeOK /\ locker = r /\ 1..Needs[r] \subseteq Done
  BY DEF StartInv, MigrateUnlock, LockHeld, TodoExact
<1>2. TypeOK'
  BY <1>1 DEF TypeOK, MigrateUnlock, Goto, Release, Control
<1>3. /\ pc'[r] = "propose" /\ locker' = None /\ applied' = applied /\ keys' = keys
      /\ \A q \in Replicas \ {r} : /\ pc'[q] = pc[q] /\ todo'[q] = todo[q]
                                   /\ mine'[q] = mine[q] /\ index'[q] = index[q]
  BY <1>1 DEF TypeOK, MigrateUnlock, Goto, Release
<1>4. KeySoFar(r)'
  BY <1>3 DEF KeySoFar
<1> QED
  BY <1>1, <1>2, <1>3, <1>4, NoneAssumption, OnlyMoves

\* schemaCurrent accepts a schema only if every table is there.
LEMMA SchemaCurrentInv ==
    ASSUME StartInv, NEW r \in Replicas, SchemaCurrent(r)
    PROVE  StartInv'
<1>1. TypeOK /\ locker # r
  BY DEF StartInv, LockHeld, SchemaCurrent
<1>2. CASE Stop(r)
  BY <1>2, StopInv
<1>3. CASE IsCurrent(r) /\ Goto(r, "propose") /\ UNCHANGED <<db, todo, mine, index>>
  <2>1. TypeOK'
    BY <1>1, <1>3 DEF TypeOK, Goto, db, Control
  <2>2. /\ pc'[r] = "propose" /\ locker' = locker /\ applied' = applied /\ keys' = keys
        /\ \A q \in Replicas \ {r} : /\ pc'[q] = pc[q] /\ todo'[q] = todo[q]
                                     /\ mine'[q] = mine[q] /\ index'[q] = index[q]
    BY <1>1, <1>3 DEF TypeOK, Goto, db
  <2>3. 1..Needs[r] \subseteq Done
    BY <1>1, <1>3, DoneGreatest DEF IsCurrent, StartInv, InOrder
  <2>4. KeySoFar(r)'
    BY <2>2 DEF KeySoFar
  <2> QED
    BY <1>1, <2>1, <2>2, <2>3, <2>4, OnlyMoves
<1> QED
  BY <1>2, <1>3 DEF SchemaCurrent

\* loadIndexKey draws a candidate.
LEMMA ProposeInv ==
    ASSUME StartInv, NEW r \in Replicas, Propose(r)
    PROVE  StartInv'
<1> DEFINE s == [key |-> Drawn, under |-> Current[r]]
<1>1. TypeOK /\ locker # r /\ 1..Needs[r] \subseteq Done
  BY DEF StartInv, LockHeld, Propose, TablesThere
<1>2. s \in Sealed /\ s # None /\ drawn + 1 \in 0..MaxKeys
  <2>1. drawn \in 0..MaxKeys /\ drawn < MaxKeys /\ MaxKeys \in Nat
    BY <1>1, StartupAssumption DEF Propose, TypeOK
  <2>2. drawn + 1 \in 1..MaxKeys
    BY <2>1
  <2>3. s \in Sealed
    BY <2>2, StartupAssumption DEF Sealed, Drawn
  <2> QED
    BY <2>1, <2>2, <2>3, NoneAssumption
<1>3. mine' = [mine EXCEPT ![r] = s] /\ drawn' = drawn + 1
  BY DEF Propose
<1> HIDE DEF s
<1>4. TypeOK'
  BY <1>1, <1>2, <1>3 DEF TypeOK, Propose, Goto, Control
<1>5. /\ pc'[r] = "insert" /\ locker' = locker /\ applied' = applied /\ keys' = keys
      /\ mine'[r] = s
      /\ \A q \in Replicas \ {r} : /\ pc'[q] = pc[q] /\ todo'[q] = todo[q]
                                   /\ mine'[q] = mine[q] /\ index'[q] = index[q]
  BY <1>1, <1>3 DEF TypeOK, Propose, Goto
<1>6. KeySoFar(r)'
  BY <1>2, <1>5 DEF KeySoFar
<1> QED
  BY <1>1, <1>4, <1>5, <1>6, OnlyMoves

\* The candidate is inserted, or another one was before it.
LEMMA InsertInv ==
    ASSUME StartInv, NEW r \in Replicas, Insert(r)
    PROVE  StartInv'
<1>1. TypeOK /\ locker # r /\ 1..Needs[r] \subseteq Done /\ mine[r] # None
  BY DEF StartInv, LockHeld, Insert, TablesThere, KeySoFar
<1>2. keys' = IF keys = None THEN mine[r] ELSE keys
  BY DEF Insert, Inserted
<1>3. TypeOK'
  BY <1>1, <1>2 DEF TypeOK, Insert, Goto, Control
<1>4. /\ pc'[r] = "read" /\ locker' = locker /\ applied' = applied
      /\ \A q \in Replicas \ {r} : /\ pc'[q] = pc[q] /\ todo'[q] = todo[q]
                                   /\ mine'[q] = mine[q] /\ index'[q] = index[q]
  BY <1>1 DEF TypeOK, Insert, Goto
<1>5. KeySoFar(r)'
  BY <1>1, <1>2, <1>4 DEF KeySoFar
<1> QED
  BY <1>1, <1>2, <1>3, <1>4, <1>5, OnlyMoves

\* The stored row is read back.
LEMMA ReadInv ==
    ASSUME StartInv, NEW r \in Replicas, Read(r)
    PROVE  StartInv'
<1>1. TypeOK /\ locker # r /\ 1..Needs[r] \subseteq Done /\ keys # None
  BY DEF StartInv, LockHeld, Read, TablesThere, KeySoFar
<1>2. TypeOK'
  BY <1>1 DEF TypeOK, Read, ReadBack, Goto, db, Control
<1>3. /\ pc'[r] = "open" /\ locker' = locker /\ applied' = applied /\ keys' = keys
      /\ mine'[r] = keys
      /\ \A q \in Replicas \ {r} : /\ pc'[q] = pc[q] /\ todo'[q] = todo[q]
                                   /\ mine'[q] = mine[q] /\ index'[q] = index[q]
  BY <1>1 DEF TypeOK, Read, ReadBack, Goto, db
<1>4. KeySoFar(r)'
  BY <1>1, <1>3 DEF KeySoFar
<1> QED
  BY <1>1, <1>2, <1>3, <1>4, OnlyMoves

\* The row opens and its key is adopted, or the process stops.
LEMMA AdoptInv ==
    ASSUME StartInv, NEW r \in Replicas, Adopt(r)
    PROVE  StartInv'
<1>1. /\ TypeOK /\ locker # r /\ 1..Needs[r] \subseteq Done
      /\ keys # None /\ mine[r] # None /\ mine[r].key = keys.key
  BY DEF StartInv, LockHeld, Adopt, TablesThere, KeySoFar
<1>2. CASE Stop(r)
  BY <1>2, StopInv
<1>3. CASE /\ index' = [index EXCEPT ![r] = mine[r].key]
           /\ Goto(r, "up") /\ UNCHANGED <<db, todo, mine>>
  <2>1. mine[r].key \in 1..MaxKeys
    BY <1>1 DEF TypeOK, Sealed
  <2>2. TypeOK'
    BY <1>1, <1>3, <2>1 DEF TypeOK, Goto, db, Control
  <2>3. /\ pc'[r] = "up" /\ locker' = locker /\ applied' = applied /\ keys' = keys
        /\ index'[r] = keys.key
        /\ \A q \in Replicas \ {r} : /\ pc'[q] = pc[q] /\ todo'[q] = todo[q]
                                     /\ mine'[q] = mine[q] /\ index'[q] = index[q]
    BY <1>1, <1>3 DEF TypeOK, Goto, db
  <2>4. KeySoFar(r)'
    BY <2>3 DEF KeySoFar
  <2> QED
    BY <1>1, <2>2, <2>3, <2>4, OnlyMoves
<1> QED
  BY <1>2, <1>3 DEF Adopt

\* A rotation re-wraps the row: the key in it is the same.
LEMMA RotateInv ==
    ASSUME StartInv, NEW r \in Replicas, Rotate(r)
    PROVE  StartInv'
<1>1. /\ TypeOK /\ locker # r /\ 1..Needs[r] \subseteq Done /\ pc[r] = "up"
      /\ keys # None /\ index[r] = keys.key /\ keys \in Sealed
  BY DEF StartInv, LockHeld, Rotate, TablesThere, OneIndexKey, TypeOK
<1>2. keys' \in Sealed /\ keys'.key = keys.key
  BY <1>1, StartupAssumption DEF Rotate, Sealed
<1>3. /\ locker' = locker /\ applied' = applied /\ drawn' = drawn
      /\ pc' = pc /\ todo' = todo /\ mine' = mine /\ index' = index
  BY DEF Rotate, local
<1>4. TypeOK'
  BY <1>1, <1>2, <1>3 DEF TypeOK
<1>5. KeySoFar(r)'
  BY <1>1, <1>3 DEF KeySoFar
<1> QED
  BY <1>1, <1>2, <1>3, <1>4, <1>5, NoneAssumption, OnlyMoves

\* StartInv is inductive.
LEMMA NextStartInv == StartInv /\ [Next]_vars => StartInv'
<1> SUFFICES ASSUME StartInv, [Next]_vars PROVE StartInv'
  OBVIOUS
<1>1. ASSUME NEW r \in Replicas, Crash(r) PROVE StartInv'
  BY <1>1, StopInv DEF Crash
<1>2. CASE UNCHANGED vars
  BY <1>2 DEF vars, db, local, StartInv, TypeOK, LockHeld, TodoExact, InOrder, MigratedOnce,
              TablesThere, OneIndexKey, KeySoFar, Done
<1> QED
  BY <1>1, <1>2, OpenInv, MigrateLockInv, MigrateApplyInv, MigrateUnlockInv,
     SchemaCurrentInv, ProposeInv, InsertInv, ReadInv, AdoptInv, RotateInv DEF Next

-----------------------------------------------------------------------------
\* The inductive invariant holds whatever starts, stops and dies.
THEOREM StartInvHolds == Spec => []StartInv
BY InitStartInv, NextStartInv, PTL DEF Spec

\* Rows, candidates and adopted keys are keys that some process really drew.
THEOREM StartTypeCorrect == Spec => []TypeOK
<1>1. StartInv => TypeOK
  BY DEF StartInv
<1> QED
  BY <1>1, StartInvHolds, PTL

\* However many replicas of however many releases start at once and die in the
\* middle, no migration is applied twice: migrateUp applies under the lock.
THEOREM EachMigrationOnce == Spec => []MigratedOnce
<1>1. StartInv => MigratedOnce
  BY DEF StartInv
<1> QED
  BY <1>1, StartInvHolds, PTL

\* A process that got past migrateUp or schemaCurrent has every table its
\* release needs, although schemaCurrent compares only the newest version.
THEOREM EveryTableThere == Spec => []TablesThere
<1>1. StartInv => TablesThere
  BY DEF StartInv
<1> QED
  BY <1>1, StartInvHolds, PTL

\* All running processes hash with the one stored blind-index key, although
\* each drew a candidate of its own and the row is re-wrapped meanwhile.
THEOREM SameIndexKey == Spec => []OneIndexKey
<1>1. StartInv => OneIndexKey
  BY DEF StartInv
<1> QED
  BY <1>1, StartInvHolds, PTL

\* No step replaces a stored blind-index key: loadIndexKey inserts only where
\* there is none, and a rotation keeps the key in the row.
THEOREM IndexKeyIsForever == Spec => IndexKeyStays
<1> DEFINE Kept == keys # None => keys' # None /\ keys'.key = keys.key
<1>1. StartInv /\ [Next]_vars => [Kept]_vars
  <2> SUFFICES ASSUME StartInv, NEW r \in Replicas,
                      \/ Open(r) \/ MigrateLock(r) \/ MigrateApply(r) \/ MigrateUnlock(r)
                      \/ SchemaCurrent(r) \/ Propose(r) \/ Insert(r) \/ Read(r) \/ Adopt(r)
                      \/ Crash(r) \/ Rotate(r)
               PROVE  Kept
    BY DEF Next
  <2>1. CASE Insert(r)
    BY <2>1 DEF Insert, Inserted
  <2>2. CASE Rotate(r)
    <3>1. keys \in Sealed /\ keys # None
      BY <2>2 DEF StartInv, TypeOK, Rotate
    <3>2. keys' \in Sealed /\ keys'.key = keys.key
      BY <2>2, <3>1, StartupAssumption DEF Rotate, Sealed
    <3> QED
      BY <3>2, NoneAssumption
  <2>3. CASE \/ Open(r) \/ MigrateLock(r) \/ MigrateApply(r) \/ MigrateUnlock(r)
             \/ SchemaCurrent(r) \/ Propose(r) \/ Read(r) \/ Adopt(r) \/ Crash(r)
    BY <2>3 DEF Open, MigrateLock, MigrateApply, MigrateUnlock, SchemaCurrent, Propose, Read,
                Adopt, Crash, Stop, db
  <2> QED
    BY <2>1, <2>2, <2>3
<1> QED
  BY <1>1, StartInvHolds, PTL DEF Spec, IndexKeyStays
=============================================================================
