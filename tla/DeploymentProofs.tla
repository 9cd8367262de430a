-------------------------- MODULE DeploymentProofs --------------------------
(***************************************************************************)
(* Following the documented procedures loses nothing and leaves nothing    *)
(* behind: proofs for every number of replicas, objects, keys, versions of *)
(* the engine's key and runs of the commands.                              *)
(***************************************************************************)
EXTENDS DeploymentInvariant, StoreRefinementProofs, SumProofs

-----------------------------------------------------------------------------
(* Pages: ORDER BY id LIMIT n *)

\* The page is in order: what is left for later comes after all of it, and
\* nothing is left when it is empty.
LEMMA PageInOrder ==
    ASSUME NEW S \in SUBSET Ids
    PROVE  /\ FirstPage(S) \in SUBSET S
           /\ \A i \in S \ FirstPage(S) : \A j \in FirstPage(S) : i > j
           /\ FirstPage(S) = {} => S = {}
<1>1. S \in SUBSET Nat /\ IsFiniteSet(S) /\ PageSize \in Nat \ {0}
  BY FS_Subset, ConstantsAssumption
<1>2. ASSUME NEW i \in S
      PROVE  /\ IsFiniteSet({k \in S : k < i}) /\ Cardinality({k \in S : k < i}) \in Nat
  BY <1>1, FS_Subset, FS_CardinalityType
<1>3. ASSUME NEW i \in S \ FirstPage(S), NEW j \in FirstPage(S) PROVE i > j
  <2> SUFFICES ASSUME i <= j PROVE FALSE
    BY <1>1 DEF FirstPage
  <2>1. j \in S /\ Cardinality({k \in S : k < j}) < PageSize
    BY DEF FirstPage
  <2>2. ~(Cardinality({k \in S : k < i}) < PageSize)
    BY DEF FirstPage
  <2>3. {k \in S : k < i} \in SUBSET {k \in S : k < j}
    <3>1. i \in Nat /\ j \in Nat /\ \A k \in S : k \in Nat
      BY <1>1, <2>1
    <3>2. \A k \in S : k < i => k < j
      BY <3>1
    <3> QED
      BY <3>2
  <2>4. Cardinality({k \in S : k < i}) <= Cardinality({k \in S : k < j})
    BY <1>2, <2>1, <2>3, FS_Subset
  <2> QED
    BY <1>1, <1>2, <2>1, <2>2, <2>4
<1>4. ASSUME S # {} PROVE FirstPage(S) # {}
  <2>1. PICK n \in S : \A m \in S : n <= m
    BY <1>1, <1>4, LeastExists
  <2>2. {k \in S : k < n} = {}
    <3>1. n \in Nat /\ \A k \in S : k \in Nat
      BY <1>1
    <3>2. \A k \in S : ~(k < n)
      BY <2>1, <3>1
    <3> QED
      BY <3>2
  <2>3. Cardinality({k \in S : k < n}) = 0
    BY <2>2, FS_EmptySet
  <2> QED
    BY <1>1, <2>3 DEF FirstPage
<1> QED
  BY <1>3, <1>4 DEF FirstPage

-----------------------------------------------------------------------------
(* The steps of the processes, and what the operator sees of them *)

\* A step of process p, with what the operator concludes from it.
Step(p) ==
    /\ \/ p \in Servers /\ Serve(p)
       \/ p \in Rotators /\ Rotate(p) /\ (pc[p] = "idle" => MayRun)
       \/ p \in Reindexers /\ Reindex(p) /\ (pc[p] = "idle" => MayRun)
       \/ Abort(p)
    /\ \/ phase' = phase
       \/ /\ phase = "roll" /\ phase' = "drop"
          /\ p \in Rotators /\ pc[p] = "rotated" /\ job[p].skipped = {}
    /\ rebuilt \subseteq rebuilt'
    /\ \A c \in rebuilt' \ rebuilt :
         /\ c \in Collections /\ p \in Reindexers /\ pc[p] = "reindexed"
         /\ job[p].skipped = {} /\ job[p].collection \in {c, None}

\* Where the steps of a request lead.
LEMMA ServeGoes ==
    ASSUME TypeOK, NEW p \in Procs, Serve(p), ServeSoFar(p)
    PROVE  ServeSoFar(p)'
<1>1. pc \in [Procs -> Control]
  BY DEF TypeOK
<1>2. \/ UNCHANGED pc
      \/ \E l \in {"idle", "put", "erase", "unindex", "got", "answer"} : Goto(p, l)
  <2>1. CASE \E c \in Collections, i \in Ids, item \in Items : PutItem(p, c, i, item)
    BY <2>1 DEF PutItem
  <2>2. CASE \E told \in BOOLEAN : PutCommit(p, told) \/ ShredCommit(p, told)
    BY <2>2 DEF PutCommit, ShredCommit, Return
  <2>3. CASE \E c \in Collections, i \in Ids : DeleteUpdate(p, c, i)
    BY <2>3 DEF DeleteUpdate
  <2>4. CASE \E s \in Subjects : EraseBegin(p, s)
    BY <2>4 DEF EraseBegin
  <2>5. CASE \E i \in Ids : EraseScan(p, i) \/ Unindex(p, i)
    BY <2>5 DEF EraseScan, Unindex
  <2>6. CASE EraseLock(p) \/ EraseReturn(p)
    BY <2>6 DEF EraseLock, EraseReturn
  <2>7. CASE \E c \in Collections, S \in SUBSET Ids : GetSelect(p, c, S)
    BY <2>7 DEF GetSelect
  <2>8. CASE \E told \in BOOLEAN : GetAudit(p, told)
    BY <2>8 DEF GetAudit, Return
  <2>9. CASE Respond(p) \/ DeadlockAbort(p)
    BY <2>9 DEF Respond, DeadlockAbort, Leave, Return
  <2> QED
    BY <2>1, <2>2, <2>3, <2>4, <2>5, <2>6, <2>7, <2>8, <2>9 DEF Serve
<1> QED
  BY <1>1, <1>2 DEF ServeSoFar, Goto

\* A step of a process is a step of the store: it moves nobody else, changes no
\* configuration, and only Rotate's UPDATE of keys changes the blind-index key.
LEMMA StepFrame ==
    ASSUME DInv, NEW p \in Procs, Step(p)
    PROVE  /\ Next /\ Inv' /\ OthersStay(p)
           /\ env' = env /\ schema' = schema /\ engine' = engine
           /\ keyrow' = keyrow \/ (p \in Rotators /\ RotateKeyWrite(p))
           /\ \A q \in Procs : IndexSoFar(q)'
<1>1. Inv /\ TypeOK /\ \A q \in Procs : IndexSoFar(q)
  BY DEF DInv, Inv
<1>2. Next
  BY DEF Step, Next
<1>3. Serve(p) \/ Reindex(p) \/ Rotate(p) \/ Abort(p)
  BY DEF Step
<1>4. OthersStay(p) /\ UNCHANGED config /\ (keyrow' = keyrow \/ RotateKeyWrite(p))
  BY <1>1, <1>3, OneMoves
<1>5. env' = env /\ schema' = schema /\ engine' = engine
  BY <1>4 DEF config
<1>6. Silent(p) \/ Staging(p) \/ Seen(p) \/ RotateWrite(p)
  <2>1. ASSUME Abort(p) PROVE Silent(p)
    BY <1>1, <2>1, SilentStep DEF Abort, Leave, Return
  <2> QED
    BY <1>1, <2>1, ServeKinds, ReindexKinds, RotateKinds DEF Step
<1>7. Inv' /\ \A q \in Procs : IndexSoFar(q)'
  BY <1>1, <1>2, <1>4, <1>5, <1>6, NextInv, IndexStep
<1>8. RotateKeyWrite(p) => p \in Rotators
  BY DEF RotateKeyWrite, DInv, ServeSoFar, ReindexSoFar, Procs
<1> QED
  BY <1>2, <1>4, <1>5, <1>7, <1>8

\* Every step is the operator's or that of one process.
LEMMA DeploymentSteps ==
    ASSUME DInv, DNext
    PROVE  Operate \/ \E p \in Procs : Step(p)
<1>1. TypeOK /\ Servers \subseteq Procs /\ Rotators \subseteq Procs /\ Reindexers \subseteq Procs
  BY DEF DInv, Inv, Procs
<1>2. ASSUME NEW p \in Procs, Abort(p), UNCHANGED <<phase, rebuilt>> PROVE Step(p)
  BY <1>2 DEF Step
<1>3. ASSUME NEW p \in Procs, Observe,
             \/ p \in Servers /\ Serve(p)
             \/ p \in Rotators /\ Rotate(p) /\ (pc[p] = "idle" => MayRun)
             \/ p \in Reindexers /\ Reindex(p) /\ (pc[p] = "idle" => MayRun)
      PROVE  Step(p)
  <2>1. OthersStay(p)
    BY <1>1, <1>3, OneMoves
  <2>2. ASSUME NEW q \in Procs, NEW l, l # "idle", Exited(q, l) PROVE q = p
    BY <2>1, <2>2 DEF Exited, OthersStay
  <2>3. \/ phase' = phase
        \/ /\ phase = "roll" /\ phase' = "drop"
           /\ p \in Rotators /\ pc[p] = "rotated" /\ job[p].skipped = {}
    <3>1. CASE phase = "roll" /\ \E q \in Rotators : Exited(q, "rotated")
      <4>1. PICK q \in Rotators : Exited(q, "rotated")
        BY <3>1
      <4>2. q = p
        BY <1>1, <2>2, <4>1
      <4> QED
        BY <1>3, <3>1, <4>1, <4>2 DEF Exited, Observe
    <3>2. CASE ~(phase = "roll" /\ \E q \in Rotators : Exited(q, "rotated"))
      BY <1>3, <3>2 DEF Observe
    <3> QED
      BY <3>1, <3>2
  <2>4. rebuilt \subseteq rebuilt'
    BY <1>3 DEF Observe
  <2>5. ASSUME NEW c \in rebuilt' \ rebuilt
        PROVE  /\ c \in Collections /\ p \in Reindexers /\ pc[p] = "reindexed"
               /\ job[p].skipped = {} /\ job[p].collection \in {c, None}
    <3>1. PICK q \in Reindexers : /\ c \in Collections /\ Exited(q, "reindexed")
                                  /\ job[q].collection \in {c, None}
      BY <1>3, <2>5 DEF Observe
    <3>2. q = p
      BY <1>1, <2>2, <3>1
    <3> QED
      BY <3>1, <3>2 DEF Exited
  <2> QED
    BY <1>3, <2>3, <2>4, <2>5 DEF Step
<1>4. ASSUME NEW p \in Rotators \cup Reindexers, Commands(p), Observe PROVE Step(p)
  BY <1>1, <1>3, <1>4 DEF Commands
<1>5. ASSUME NEW p \in Servers, Serve(p), Observe PROVE Step(p)
  BY <1>1, <1>3, <1>5
<1> QED
  BY <1>1, <1>2, <1>4, <1>5 DEF DNext

\* What a step may do to a row: a request inserts or shreds it, a rotation
\* re-wraps it.
LEMMA RowMoves ==
    ASSUME DInv, NEW p \in Procs, Step(p), NEW i \in Ids
    PROVE  \/ rows'[i] = rows[i]
           \/ /\ p \in Servers /\ i \in New(p)
              /\ rows[i] = None /\ rows'[i] = tx[p].rows[i]
           \/ rows'[i] # None /\ rows'[i].deleted
           \/ /\ p \in Rotators /\ pc[p] = "write" /\ i = job[p].cur
              /\ Live(i) /\ rows'[i] = Rewritten(rows[i], job[p].re)
<1> DEFINE Goal ==
           \/ rows'[i] = rows[i]
           \/ /\ p \in Servers /\ i \in New(p)
              /\ rows[i] = None /\ rows'[i] = tx[p].rows[i]
           \/ rows'[i] # None /\ rows'[i].deleted
           \/ /\ p \in Rotators /\ pc[p] = "write" /\ i = job[p].cur
              /\ Live(i) /\ rows'[i] = Rewritten(rows[i], job[p].re)
<1> SUFFICES Goal
  OBVIOUS
<1>1. Inv /\ TypeOK /\ rows \in [Ids -> Row \cup {None}]
  BY DEF DInv, Inv, TypeOK
<1>2. ASSUME NEW told \in BOOLEAN, CommitReady(p), CommitTx(p, told), i \in New(p) => p \in Servers
      PROVE  Goal
  BY <1>1, <1>2, CommittedRow
<1>3. ASSUME NEW told \in BOOLEAN, PutCommit(p, told), p \in Servers PROVE Goal
  BY <1>1, <1>2, <1>3, PutCommitReady DEF PutCommit
<1>4. ASSUME NEW told \in BOOLEAN, ShredCommit(p, told), p \in Servers PROVE Goal
  BY <1>1, <1>2, <1>4, ShredCommitReady DEF ShredCommit
<1>5. ASSUME NEW told \in BOOLEAN, RewriteCommit(p, told) PROVE Goal
  <2>1. New(p) = {} /\ pc[p] = "rewritten" /\ CommitTx(p, told)
    BY <1>1, <1>5 DEF RewriteCommit, Inv, ProcInv, RewriteSoFar
  <2> QED
    BY <1>1, <1>2, <2>1, RewriteCommitReady
<1>6. ASSUME rows' = rows PROVE Goal
  BY <1>6
<1>7. ASSUME p \in Rotators, RotateWrite(p) PROVE Goal
  <2>1. \/ rows' = rows
        \/ /\ Live(job[p].cur)
           /\ rows' = [rows EXCEPT ![job[p].cur] = Rewritten(@, job[p].re)]
    BY <1>7 DEF RotateWrite, RotateMatches
  <2> QED
    BY <1>1, <1>7, <2>1 DEF RotateWrite
<1> HIDE DEF Goal
<1>8. CASE p \in Servers /\ Serve(p)
  <2>1. Silent(p) \/ Staging(p) \/ Seen(p)
    BY <1>1, <1>8, ServeKinds
  <2>2. CASE Silent(p) \/ Staging(p)
    BY <1>6, <2>2 DEF Silent, Unseen, Staging, PutItem, GetSelect, Rewrite, tables
  <2>3. CASE Seen(p)
    BY <1>3, <1>4, <1>5, <1>6, <1>8, <2>3 DEF Seen, GetAudit, Respond, tables
  <2> QED
    BY <2>1, <2>2, <2>3
<1>9. CASE p \in Reindexers /\ Reindex(p)
  BY <1>5, <1>6, <1>9 DEF Reindex, ReindexStart, ReindexPage, ReindexOpen, RewriteLock,
                          Rewrite, Exit, tables
<1>10. CASE p \in Rotators /\ Rotate(p)
  BY <1>1, <1>6, <1>7, <1>10, RotateKinds DEF Silent, Unseen
<1>11. CASE Abort(p)
  BY <1>6, <1>11 DEF Abort, tables
<1> QED
  BY <1>8, <1>9, <1>10, <1>11 DEF Step

\* A row that p's transaction has staged was staged before, or is sealed now.
LEMMA StagedMoves ==
    ASSUME TypeOK, NEW p \in Procs, Serve(p) \/ Abort(p), NEW i \in New(p)'
    PROVE  \/ i \in New(p) /\ tx'[p].rows[i] = tx[p].rows[i]
           \/ /\ tx'[p].rows[i].key_id = env[p].current
              /\ tx'[p].rows[i].wrapped = WrapUnder(env[p].current).wrapped
<1> DEFINE Goal == \/ i \in New(p) /\ tx'[p].rows[i] = tx[p].rows[i]
                   \/ /\ tx'[p].rows[i].key_id = env[p].current
                      /\ tx'[p].rows[i].wrapped = WrapUnder(env[p].current).wrapped
<1> SUFFICES Goal
  OBVIOUS
<1>1. tx \in [Procs -> Tx] /\ i \in Ids /\ tx'[p].rows[i] # None /\ tx[p] \in Tx
  BY DEF TypeOK, New
<1>2. ASSUME tx'[p].rows = tx[p].rows PROVE Goal
  BY <1>1, <1>2 DEF New
<1>3. ASSUME Stage(p, NoTx) PROVE FALSE
  BY <1>1, <1>3 DEF Stage, NoTx
<1>4. ASSUME NEW c \in Collections, NEW k \in Ids, NEW item \in Items, PutItem(p, c, k, item)
      PROVE  Goal
  <2> DEFINE r == NewRow(c, item, WrapUnder(env[p].current))
  <2>1. tx'[p].rows = [tx[p].rows EXCEPT ![k] = r]
    BY <1>1, <1>4 DEF PutItem, Stage, Tx
  <2>2. r.key_id = env[p].current /\ r.wrapped = WrapUnder(env[p].current).wrapped
    BY DEF NewRow, WrapUnder
  <2>3. tx[p].rows \in [Ids -> Row \cup {None}]
    BY <1>1 DEF Tx
  <2>4. CASE i = k
    BY <1>1, <2>1, <2>2, <2>3, <2>4
  <2>5. CASE i # k
    BY <1>1, <2>1, <2>3, <2>5 DEF New
  <2> QED
    BY <2>4, <2>5
<1> HIDE DEF Goal
<1>5. CASE \E c \in Collections, k \in Ids : DeleteUpdate(p, c, k)
  BY <1>1, <1>2, <1>5 DEF DeleteUpdate, Stage, Tx
<1>6. CASE \E s \in Subjects : EraseBegin(p, s)
  BY <1>1, <1>2, <1>6 DEF EraseBegin, Stage, Tx
<1>7. CASE EraseLock(p) \/ EraseReturn(p)
  <2>1. \/ \E todo, shred : Stage(p, [tx[p] EXCEPT !.shred = shred, !.todo = todo])
        \/ \E todo : Stage(p, [tx[p] EXCEPT !.todo = todo])
    BY <1>7 DEF EraseLock, EraseReturn
  <2> QED
    BY <1>1, <1>2, <2>1 DEF Stage, Tx
<1>8. CASE \E k \in Ids : EraseScan(p, k) \/ Unindex(p, k)
  <2>1. \/ UNCHANGED tx
        \/ \E todo, dels, log :
             Stage(p, [tx[p] EXCEPT !.todo = todo, !.dels = dels, !.log = log])
    BY <1>8 DEF EraseScan, Unindex
  <2> QED
    BY <1>1, <1>2, <2>1 DEF Stage, Tx
<1>9. CASE \E c \in Collections, S \in SUBSET Ids : GetSelect(p, c, S)
  BY <1>2, <1>9 DEF GetSelect
<1>10. CASE Respond(p) \/ \E told \in BOOLEAN : GetAudit(p, told)
  BY <1>2, <1>10 DEF Respond, GetAudit
<1>11. CASE \/ \E told \in BOOLEAN : PutCommit(p, told) \/ ShredCommit(p, told)
            \/ DeadlockAbort(p) \/ Abort(p)
  BY <1>3, <1>11 DEF PutCommit, ShredCommit, CommitTx, DeadlockAbort, Abort, Leave
<1> QED
  BY <1>4, <1>5, <1>6, <1>7, <1>8, <1>9, <1>10, <1>11 DEF Serve

\* Only PutMany inserts, and what it inserts has a key.
LEMMA OnlyPutsInsert ==
    ASSUME Inv, NEW p \in Procs, NEW i \in New(p)
    PROVE  /\ pc[p] = "put" /\ i \in Ids /\ rows[i] = None
           /\ tx[p].rows[i] \in Row /\ ~tx[p].rows[i].deleted
           /\ tx[p].rows[i].wrapped \in Nat /\ tx[p].rows[i].wrapped # Null
<1>1. ProcInv(p) /\ tx[p] \in Tx /\ i \in Ids /\ tx[p].rows[i] # None
  BY DEF Inv, TypeOK, New
<1>2. pc[p] = "put"
  BY <1>1 DEF ProcInv, NoneOpen, ShredSoFar, RewriteSoFar, NoTx, New
<1>3. tx[p].rows[i] \in Row
  BY <1>1 DEF Tx
<1> QED
  BY <1>1, <1>2, <1>3 DEF ProcInv, PutSoFar, Row

\* A rotation begins only when every replica has been restarted.
LEMMA ReplacingStep ==
    ASSUME DInv, NEW p \in Procs, Step(p)
    PROVE  /\ Replacing' => Replacing \/ (p \in Rotators /\ pc[p] = "idle" /\ MayRun)
           /\ Rotating' => Rotating \/ (p \in Rotators /\ pc[p] = "idle" /\ MayRun)
           /\ Reindexing' => Reindexing \/ (p \in Reindexers /\ pc[p] = "idle" /\ MayRun)
<1>1. OthersStay(p) /\ Rotators \subseteq Procs /\ Reindexers \subseteq Procs
  BY StepFrame DEF Procs
<1>2. Servers \cap Rotators = {} /\ Servers \cap Reindexers = {} /\ Rotators \cap Reindexers = {}
  BY ProcedureAssumption
<1>3. Rotating' => Rotating \/ (p \in Rotators /\ pc[p] = "idle" /\ MayRun)
  <2> SUFFICES ASSUME NEW q \in Rotators, pc'[q] # "idle", ~Rotating
               PROVE  p \in Rotators /\ pc[p] = "idle" /\ MayRun
    BY DEF Rotating
  <2>1. q = p /\ pc[p] = "idle"
    BY <1>1 DEF OthersStay, Rotating
  <2> QED
    BY <1>2, <2>1 DEF Step, Abort
<1>4. Reindexing' => Reindexing \/ (p \in Reindexers /\ pc[p] = "idle" /\ MayRun)
  <2> SUFFICES ASSUME NEW q \in Reindexers, pc'[q] # "idle", ~Reindexing
               PROVE  p \in Reindexers /\ pc[p] = "idle" /\ MayRun
    BY DEF Reindexing
  <2>1. q = p /\ pc[p] = "idle"
    BY <1>1 DEF OthersStay, Reindexing
  <2> QED
    BY <1>2, <2>1 DEF Step, Abort
<1>5. phase' \in {"drop", "done"} => Replacing
  BY DEF Step, Replacing, Rotating
<1> QED
  BY <1>3, <1>4, <1>5 DEF Replacing

-----------------------------------------------------------------------------
(* What the steps of the processes preserve *)

\* The phase and the configurations.
LEMMA StepPhase ==
    ASSUME DInv, NEW p \in Procs, Step(p)
    PROVE  EngineInv' /\ PhaseInv'
<1>1. /\ env' = env /\ schema' = schema /\ engine' = engine
      /\ EngineInv /\ PhaseInv
  BY StepFrame DEF DInv
<1>2. EngineInv'
  BY <1>1 DEF EngineInv
<1>3. ASSUME MayRun PROVE Rolled /\ phase = "roll" /\ \A q \in Servers : schema[q] = NewSchema
  BY <1>3 DEF MayRun, AllOn, Rolled
<1>4. Replacing' => Rolled
  BY <1>1, <1>3, ReplacingStep DEF PhaseInv
<1>5. Reindexing' \/ rebuilt' # {} => \A q \in Servers : schema[q] = NewSchema
  <2>1. rebuilt' # {} => rebuilt # {} \/ Reindexing
    BY DEF Step, Reindexing
  <2> QED
    BY <1>1, <1>3, <2>1, ReplacingStep DEF PhaseInv
<1>6. phase' = "old" => phase = "old" /\ ~Rotating'
  <2>1. phase' = "old" => phase = "old"
    BY DEF Step
  <2> QED
    BY <1>1, <1>3, <2>1, ReplacingStep DEF PhaseInv
<1>7. phase' \in Phases /\ rebuilt' \subseteq Collections
  BY <1>1 DEF Step, PhaseInv, Phases
<1>8. Rolled' = Rolled
  BY <1>1 DEF Rolled
<1> QED
  BY <1>1, <1>2, <1>4, <1>5, <1>6, <1>7, <1>8 DEF PhaseInv

\* What requests have staged.
LEMMA StepStaged ==
    ASSUME DInv, NEW p \in Procs, Step(p)
    PROVE  StagedInv'
<1>1. /\ env' = env /\ engine' = engine /\ OthersStay(p) /\ Inv /\ TypeOK
      /\ EngineInv /\ StagedInv /\ Servers \subseteq Procs
  BY StepFrame DEF DInv, Inv, Procs
<1>2. engine \in Engine /\ engine.version \in Nat /\ engine.min \in Nat
  BY <1>1 DEF TypeOK, Engine
<1>3. ASSUME NEW q \in Servers, ~RotatesEngine PROVE ~InFlight(q)
  <2> SUFFICES ASSUME NEW i \in New(q), tx[q].rows[i].wrapped < engine.version PROVE FALSE
    BY DEF InFlight, New
  <2>1. tx[q].rows[i].wrapped \in Nat /\ tx[q].rows[i].wrapped # 0
    BY <1>1, OnlyPutsInsert DEF Null
  <2>2. engine.version = 1
    BY <1>1, <1>3 DEF EngineInv
  <2> QED
    BY <2>1, <2>2
<1>4. ASSUME Careful, Replacing', NEW q \in Servers PROVE ~InFlight(q)
  <2>1. CASE Replacing
    BY <1>1, <1>4, <2>1 DEF StagedInv
  <2>2. CASE MayRun
    BY <1>3, <1>4, <2>2 DEF MayRun, Careful
  <2> QED
    BY <1>4, <2>1, <2>2, ReplacingStep
<1>5. ASSUME NEW q \in Servers, NEW i \in New(q)'
      PROVE  \/ i \in New(q) /\ tx'[q].rows[i] = tx[q].rows[i]
             \/ /\ tx'[q].rows[i].key_id = env[q].current
                /\ tx'[q].rows[i].wrapped = WrapUnder(env[q].current).wrapped
  <2>1. CASE q # p
    <3>1. tx'[q] = tx[q]
      BY <1>1, <2>1 DEF OthersStay
    <3> QED
      BY <3>1 DEF New
  <2>2. CASE q = p
    <3>1. Serve(p) \/ Abort(p)
      BY <2>2, ProcedureAssumption DEF Step
    <3> QED
      BY <1>1, <2>2, <3>1, StagedMoves
  <2> QED
    BY <2>1, <2>2
<1>6. ASSUME NEW q \in Servers, NEW i \in New(q)'
      PROVE  /\ tx'[q].rows[i].key_id = env[q].current
             /\ Careful /\ tx'[q].rows[i].key_id \in Transit
                  => tx'[q].rows[i].wrapped >= engine.min
  <2>1. CASE i \in New(q) /\ tx'[q].rows[i] = tx[q].rows[i]
    BY <1>1, <2>1 DEF StagedInv
  <2>2. CASE /\ tx'[q].rows[i].key_id = env[q].current
             /\ tx'[q].rows[i].wrapped = WrapUnder(env[q].current).wrapped
    BY <1>1, <1>2, <2>2 DEF WrapUnder, EngineInv
  <2> QED
    BY <1>5, <2>1, <2>2
<1>7. ASSUME Careful, Replacing', NEW q \in Servers PROVE ~InFlight(q)'
  <2> SUFFICES ASSUME NEW i \in New(q)', tx'[q].rows[i].key_id \in Transit,
                      tx'[q].rows[i].wrapped < engine.version
               PROVE  FALSE
    BY <1>1 DEF InFlight, New
  <2>1. CASE i \in New(q) /\ tx'[q].rows[i] = tx[q].rows[i]
    BY <1>4, <1>7, <2>1 DEF InFlight, New
  <2>2. CASE /\ tx'[q].rows[i].key_id = env[q].current
             /\ tx'[q].rows[i].wrapped = WrapUnder(env[q].current).wrapped
    BY <1>2, <2>2 DEF WrapUnder
  <2> QED
    BY <1>5, <2>1, <2>2
<1> QED
  BY <1>1, <1>6, <1>7 DEF StagedInv

\* A row that appears or changes while a rotation is under way, or after it has
\* ended well, is one that the change has reached.
LEMMA StepCurrent ==
    ASSUME DInv, NEW p \in Procs, Step(p), NEW i \in Ids, Live(i)', Replacing
    PROVE  (Live(i) /\ rows'[i] = rows[i]) \/ Current(rows[i])'
<1>1. /\ env' = env /\ engine' = engine /\ Inv /\ TypeOK /\ PhaseInv /\ StagedInv
      /\ Servers \subseteq Procs /\ Rotators \subseteq Procs
  BY StepFrame DEF DInv, Inv, Procs
<1>2. CASE rows'[i] = rows[i]
  BY <1>2 DEF Live
<1>3. CASE rows'[i] # None /\ rows'[i].deleted
  BY <1>3 DEF Live
<1>4. CASE p \in Servers /\ i \in New(p) /\ rows[i] = None /\ rows'[i] = tx[p].rows[i]
  <2>1. tx[p].rows[i].key_id = env[p].current
    BY <1>1, <1>4 DEF StagedInv
  <2>2. env[p].current = BothEnv.current
    BY <1>1, <1>4, ProcedureAssumption DEF PhaseInv, Rolled
  <2>3. Careful /\ tx[p].rows[i].key_id \in Transit => tx[p].rows[i].wrapped >= engine.version
    <3>1. Careful => ~InFlight(p)
      BY <1>1, <1>4 DEF StagedInv
    <3>2. tx[p].rows[i].wrapped \in Nat /\ engine.version \in Nat
      BY <1>1, <1>4, OnlyPutsInsert DEF TypeOK, Engine
    <3> QED
      BY <1>4, <3>1, <3>2 DEF InFlight, New
  <2> QED
    BY <1>1, <1>4, <2>1, <2>2, <2>3 DEF Current
<1>5. CASE /\ p \in Rotators /\ pc[p] = "write" /\ i = job[p].cur
           /\ Live(i) /\ rows'[i] = Rewritten(rows[i], job[p].re)
  <2>1. Current(job[p].re)
    BY <1>5 DEF DInv, RotateSoFar
  <2>2. rows[i] \in Row
    BY <1>1, <1>5 DEF TypeOK, Live
  <2>3. rows'[i].key_id = job[p].re.key_id /\ rows'[i].wrapped = job[p].re.wrapped
    BY <1>5, <2>2 DEF Rewritten, Row
  <2> QED
    BY <1>1, <2>1, <2>3 DEF Current
<1> QED
  BY <1>2, <1>3, <1>4, <1>5, RowMoves

\* So is the blind-index key.
LEMMA StepCurrentKey ==
    ASSUME DInv, NEW p \in Procs, Step(p)
    PROVE  \/ keyrow' = keyrow
           \/ /\ Current(keyrow)' /\ keyrow' \in Sealed /\ keyrow'.wrapped # Null
              /\ p \in Rotators /\ pc[p] = "keywrite"
<1>1. CASE p \in Rotators /\ RotateKeyWrite(p)
  <2>1. pc[p] = "keywrite" /\ keyrow' \in {keyrow, job[p].re}
    BY <1>1 DEF RotateKeyWrite
  <2>2. Current(job[p].re) /\ job[p].re # None /\ job[p].re.wrapped # Null
    BY <1>1, <2>1 DEF DInv, RotateSoFar, Inv, ProcInv, JobReady
  <2>3. job[p].re \in Sealed
    BY <2>2 DEF DInv, Inv, TypeOK, Job
  <2>4. engine' = engine
    BY StepFrame
  <2> QED
    BY <1>1, <2>1, <2>2, <2>3, <2>4 DEF Current
<1> QED
  BY <1>1, StepFrame

\* What the change has reached is kept, once the replicas have been restarted.
LEMMA CurrentIsKept ==
    ASSUME EngineInv, TypeOK, NEW s, s.wrapped \in Nat, s.wrapped # Null, Current(s),
           phase # "old"
    PROVE  Kept(s)
<1>1. engine.version \in Nat /\ engine.min \in Nat /\ engine.min <= engine.version
  BY DEF EngineInv, TypeOK, Engine
<1>2. s.key_id \in BothEnv.all /\ s.key_id \in NewEnv.all
  BY ProcedureAssumption DEF Current
<1>3. Careful /\ s.key_id \in Transit => s.wrapped >= engine.min
  BY <1>1 DEF Current
<1> QED
  BY <1>2, <1>3 DEF Kept

\* What a request has staged will be kept.
LEMMA StagedIsKept ==
    ASSUME DInv, NEW p \in Servers, NEW i \in New(p)
    PROVE  Kept(tx[p].rows[i])
<1> DEFINE r == tx[p].rows[i]
<1>1. Inv /\ PhaseInv /\ StagedInv /\ p \in Procs
  BY DEF DInv, Procs
<1>2. /\ r.key_id = env[p].current /\ r.wrapped # Null
      /\ Careful /\ r.key_id \in Transit => r.wrapped >= engine.min
  BY <1>1, OnlyPutsInsert DEF StagedInv
<1>3. env[p].current \in BothEnv.all
  BY <1>1, ProcedureAssumption DEF PhaseInv
<1>4. phase = "old" => env[p].current \in OldEnv.all
  BY <1>1, ProcedureAssumption DEF PhaseInv
<1>5. ASSUME NEW q \in Servers, env[q] = NewEnv PROVE env[p].current \in NewEnv.all
  <2>1. CASE Rolled
    BY <2>1, ProcedureAssumption DEF Rolled
  <2>2. CASE OldEnv.current \in NewEnv.all
    BY <1>1, <2>2, ProcedureAssumption DEF PhaseInv
  <2> QED
    BY <1>1, <1>5, <2>1, <2>2 DEF PhaseInv
<1> QED
  BY <1>2, <1>3, <1>4, <1>5 DEF Kept

\* Every sealed key that is in use.
LEMMA StepKeys ==
    ASSUME DInv, NEW p \in Procs, Step(p)
    PROVE  KeysInv'
<1>1. /\ env' = env /\ engine' = engine /\ Inv /\ Inv' /\ TypeOK /\ TypeOK'
      /\ EngineInv' /\ PhaseInv /\ KeysInv /\ Rotators \subseteq Procs
  BY StepFrame, StepPhase DEF DInv, Inv, Procs
<1>2. phase' = "old" => phase = "old"
  BY DEF Step
<1>3. ASSUME NEW s, Kept(s) PROVE /\ s.wrapped # Null /\ s.key_id \in BothEnv.all
                                  /\ phase' = "old" => s.key_id \in OldEnv.all
                                  /\ \A q \in Servers : env'[q] = NewEnv => s.key_id \in NewEnv.all
                                  /\ Careful /\ s.key_id \in Transit => s.wrapped >= engine'.min
  BY <1>1, <1>2, <1>3 DEF Kept
<1>4. p \in Rotators /\ pc[p] # "idle" => Rotating /\ Replacing /\ phase # "old"
  BY <1>1 DEF Rotating, Replacing, PhaseInv
<1>5. Kept(keyrow)'
  <2>1. CASE keyrow' = keyrow
    BY <1>1, <1>3, <2>1 DEF KeysInv, Kept
  <2>2. CASE /\ Current(keyrow)' /\ keyrow' \in Sealed /\ keyrow'.wrapped # Null
             /\ p \in Rotators /\ pc[p] = "keywrite"
    <3>1. Current(keyrow') /\ keyrow'.wrapped \in Nat /\ phase # "old"
      BY <1>1, <1>4, <2>2 DEF Current, Sealed
    <3>2. Kept(keyrow')
      BY <1>1, <2>2, <3>1, CurrentIsKept DEF DInv
    <3> QED
      BY <1>3, <3>2 DEF Kept
  <2> QED
    BY <2>1, <2>2, StepCurrentKey
<1>6. ASSUME NEW i \in Ids, Live(i)' PROVE Kept(rows[i])'
  <2>1. ASSUME Kept(rows'[i]) PROVE Kept(rows[i])'
    BY <1>3, <2>1 DEF Kept
  <2>2. CASE rows'[i] = rows[i]
    BY <1>1, <1>6, <2>1, <2>2 DEF KeysInv, Live
  <2>3. CASE p \in Servers /\ i \in New(p) /\ rows'[i] = tx[p].rows[i]
    BY <2>1, <2>3, StagedIsKept
  <2>4. CASE /\ p \in Rotators /\ pc[p] = "write" /\ i = job[p].cur
             /\ Live(i) /\ rows'[i] = Rewritten(rows[i], job[p].re)
    <3>1. (Live(i) /\ rows'[i] = rows[i]) \/ Current(rows[i])'
      BY <1>4, <1>6, <2>4, StepCurrent
    <3>2. rows'[i] \in Row /\ rows'[i].wrapped \in Nat /\ rows'[i].wrapped # Null
      BY <1>1, <1>6 DEF TypeOK, Live, Row, Inv, LiveIffKey, Stored
    <3>3. CASE Current(rows[i])'
      <4>1. Current(rows'[i]) /\ phase # "old"
        BY <1>1, <1>4, <2>4, <3>3 DEF Current
      <4> QED
        BY <1>1, <2>1, <3>2, <4>1, CurrentIsKept DEF DInv
    <3> QED
      BY <2>2, <3>1, <3>3
  <2> QED
    BY <1>6, <2>2, <2>3, <2>4, RowMoves DEF Live
<1>7. ASSUME phase' \in {"drop", "done"}
      PROVE  Current(keyrow)' /\ \A i \in Ids : Live(i)' => Current(rows[i])'
  <2>1. Replacing
    BY <1>7 DEF Step, Replacing, Rotating
  <2>2. Current(keyrow) /\ \A i \in Ids : Live(i) => Current(rows[i])
    <3>1. CASE phase \in {"drop", "done"}
      BY <1>1, <3>1 DEF KeysInv
    <3>2. CASE p \in Rotators /\ pc[p] = "rotated" /\ job[p].skipped = {}
      BY <3>2 DEF DInv, RotateSoFar
    <3> QED
      BY <1>7, <3>1, <3>2 DEF Step
  <2>3. Current(keyrow)'
    BY <1>1, <2>2, StepCurrentKey DEF Current
  <2>4. ASSUME NEW i \in Ids, Live(i)' PROVE Current(rows[i])'
    <3>1. CASE Live(i) /\ rows'[i] = rows[i]
      BY <1>1, <2>2, <3>1 DEF Current
    <3> QED
      BY <2>1, <2>4, <3>1, StepCurrent
  <2> QED
    BY <2>3, <2>4
<1> QED
  BY <1>5, <1>6, <1>7 DEF KeysInv

-----------------------------------------------------------------------------
(* Rotate: how far a run has come *)

\* A step of somebody else only helps.
LEMMA OthersHelpRotate ==
    ASSUME DInv, NEW p \in Procs, Step(p), NEW q \in Rotators, q # p
    PROVE  RotateSoFar(q)'
<1>1. /\ engine' = engine /\ OthersStay(p) /\ q \in Procs /\ RotateSoFar(q)
  BY StepFrame DEF DInv, Procs
<1>2. pc'[q] = pc[q] /\ job'[q] = job[q]
  BY <1>1 DEF OthersStay
<1>3. PageIds(q)' = PageIds(q) /\ PageIds(q) \subseteq Ids
  BY <1>2 DEF PageIds
<1>4. CASE pc[q] = "idle"
  BY <1>1, <1>2, <1>3, <1>4 DEF RotateSoFar
<1>5. CASE pc[q] # "idle"
  <2>1. Replacing
    BY <1>5 DEF Replacing, Rotating
  <2>2. ASSUME NEW i \in Ids, Live(i)'
        PROVE  Current(rows[i])' \/ (Live(i) /\ rows'[i] = rows[i] /\ ~Current(rows[i]))
    <3>1. CASE Live(i) /\ rows'[i] = rows[i]
      BY <1>1, <3>1 DEF Current
    <3> QED
      BY <2>1, <2>2, <3>1, StepCurrent
  <2>3. /\ Current(keyrow) => Current(keyrow)'
        /\ Current(keyrow)' \/ keyrow' = keyrow
        /\ Current(job[q].re) => Current(job[q].re)'
    BY <1>1, <1>2, StepCurrentKey DEF Current
  <2>4. \A i \in PageIds(q) : Live(i)' => Current(rows[i])' \/ SealedOf(i)' = job[q].page[i]
    BY <1>1, <1>3, <2>2 DEF RotateSoFar, SealedOf
  <2>5. \A i \in Ids : Ahead(q, i)' <=> Ahead(q, i)
    BY <1>2, <1>3 DEF Ahead, After
  <2>6. \A i \in Ids : Live(i)' /\ ~Current(rows[i])' =>
             i \in job[q].skipped \/ (pc[q] # "rotated" /\ Ahead(q, i)')
    BY <1>1, <1>5, <2>2, <2>5 DEF RotateSoFar
  <2> QED
    BY <1>1, <1>2, <1>3, <1>5, <2>3, <2>4, <2>6 DEF RotateSoFar
<1> QED
  BY <1>4, <1>5

\* A run that has ended, or died, has nothing left to do.
LEMMA RotateEnded ==
    ASSUME TypeOK, NEW p \in Procs, Return(p)
    PROVE  RotateSoFar(p)' /\ pc'[p] = "idle" /\ job'[p] = NoJob /\ PageIds(p)' = {}
<1>1. pc'[p] = "idle" /\ job'[p] = NoJob
  BY DEF TypeOK, Return, Goto, Keep
<1>2. PageIds(p)' = {}
  BY <1>1 DEF PageIds, NoJob, NoPage
<1> QED
  BY <1>1, <1>2 DEF RotateSoFar

\* Rewrap leads to the new key and, in an engine, to its last version.
LEMMA RewrapsToCurrent ==
    ASSUME DInv, NEW p \in Rotators, NEW s
    PROVE  Current(Rewrapped(p, s))
<1>1. env[p] = BothEnv /\ engine.version \in Nat
  BY ProcedureAssumption DEF DInv, PhaseInv, Procs, Inv, TypeOK, Engine
<1>2. Current(WrapUnder(BothEnv.current))
  BY <1>1 DEF Current, WrapUnder
<1> QED
  BY <1>1, <1>2 DEF Rewrapped, Current

\* The run begins with the blind-index key, and every row ahead of it.
LEMMA RotateStartSoFar ==
    ASSUME DInv, NEW p \in Rotators, RotateStart(p)
    PROVE  RotateSoFar(p)'
<1>1. /\ p \in Procs /\ TypeOK /\ job[p] = NoJob /\ NoJob \in Job
      /\ pc \in [Procs -> Control] /\ job \in [Procs -> Job]
  BY Types DEF DInv, Inv, TypeOK, ProcInv, JobReady, RotateStart, Procs
<1>2. /\ pc'[p] = "key" /\ job'[p] = [NoJob EXCEPT !.read = keyrow]
      /\ rows' = rows /\ keyrow' = keyrow
  BY <1>1 DEF RotateStart, Goto, Keep, tables
<1>3. /\ job'[p].read = keyrow /\ job'[p].page = NoPage /\ job'[p].last = 0
      /\ job'[p].skipped = {}
  BY <1>2 DEF NoJob
<1>4. PageIds(p)' = {}
  BY <1>3 DEF PageIds, NoPage
<1>5. \A i \in Ids : i > 0
  BY ConstantsAssumption
<1>6. \A i \in Ids : Ahead(p, i)'
  BY <1>3, <1>4, <1>5 DEF Ahead, After
<1> QED
  BY <1>2, <1>3, <1>4, <1>6 DEF RotateSoFar

\* The blind-index key is re-wrapped, or need not be.
LEMMA RotateKeyRewrapSoFar ==
    ASSUME DInv, NEW p \in Rotators, RotateKeyRewrap(p)
    PROVE  RotateSoFar(p)'
<1> DEFINE s == job[p].read
<1>1. /\ p \in Procs /\ TypeOK /\ job[p] \in Job /\ RotateSoFar(p) /\ pc[p] = "key"
      /\ pc \in [Procs -> Control] /\ job \in [Procs -> Job]
      /\ rows' = rows /\ keyrow' = keyrow /\ engine' = engine
  BY DEF DInv, Inv, TypeOK, RotateKeyRewrap, Procs, tables, config
<1>2. CASE Return(p)
  BY <1>1, <1>2, RotateEnded
<1>3. ASSUME NEW l \in {"keywrite", "select"}, pc'[p] = l,
             job'[p].page = job[p].page, job'[p].last = job[p].last,
             job'[p].skipped = job[p].skipped,
             l = "keywrite" => job'[p].read = job[p].read /\ Current(job'[p].re),
             l = "select" => Current(keyrow)
      PROVE  RotateSoFar(p)'
  <2>1. PageIds(p)' = PageIds(p) /\ PageIds(p) = {}
    BY <1>1, <1>3 DEF PageIds, RotateSoFar
  <2>2. \A i \in Ids : Ahead(p, i)' <=> Ahead(p, i)
    BY <1>3, <2>1 DEF Ahead, After
  <2>3. \A i \in Ids : Live(i)' /\ ~Current(rows[i])' =>
             i \in job'[p].skipped \/ Ahead(p, i)'
    BY <1>1, <1>3, <2>2 DEF RotateSoFar, Live, Current
  <2>4. Current(keyrow) \/ keyrow = job[p].read
    BY <1>1 DEF RotateSoFar
  <2> QED
    BY <1>1, <1>3, <2>1, <2>3, <2>4 DEF RotateSoFar, Current
<1>4. CASE Rewrapped(p, s) # s /\ Goto(p, "keywrite")
           /\ Keep(p, [job[p] EXCEPT !.re = Rewrapped(p, s)])
  <2>1. pc'[p] = "keywrite" /\ job'[p] = [job[p] EXCEPT !.re = Rewrapped(p, s)]
    BY <1>1, <1>4 DEF Goto, Keep
  <2>2. Current(Rewrapped(p, s))
    BY RewrapsToCurrent
  <2> HIDE DEF s
  <2>3. /\ job'[p].page = job[p].page /\ job'[p].last = job[p].last
        /\ job'[p].skipped = job[p].skipped /\ job'[p].read = job[p].read
        /\ job'[p].re = Rewrapped(p, s)
    BY <1>1, <2>1 DEF Job
  <2> QED
    BY <1>3, <2>1, <2>2, <2>3
<1>5. CASE Rewrapped(p, s) = s /\ Goto(p, "select") /\ Keep(p, [job[p] EXCEPT !.read = None])
  <2>1. pc'[p] = "select" /\ job'[p] = [job[p] EXCEPT !.read = None]
    BY <1>1, <1>5 DEF Goto, Keep
  <2>2. Current(s)
    BY <1>5, RewrapsToCurrent
  <2>3. Current(keyrow)
    BY <1>1, <2>2 DEF RotateSoFar
  <2>4. /\ job'[p].page = job[p].page /\ job'[p].last = job[p].last
        /\ job'[p].skipped = job[p].skipped
    BY <1>1, <2>1 DEF Job
  <2> QED
    BY <1>3, <2>1, <2>3, <2>4
<1> QED
  BY <1>2, <1>4, <1>5 DEF RotateKeyRewrap

\* Whoever re-wrapped the blind-index key first, it is current now.
LEMMA RotateKeyWriteSoFar ==
    ASSUME DInv, NEW p \in Rotators, RotateKeyWrite(p)
    PROVE  RotateSoFar(p)'
<1>1. /\ p \in Procs /\ TypeOK /\ job[p] \in Job /\ RotateSoFar(p) /\ pc[p] = "keywrite"
      /\ pc \in [Procs -> Control] /\ job \in [Procs -> Job]
      /\ rows' = rows /\ engine' = engine
      /\ keyrow' = IF KeyMatches(p) THEN job[p].re ELSE keyrow
  BY DEF DInv, Inv, TypeOK, RotateKeyWrite, Procs, config
<1>2. pc'[p] = "select" /\ job'[p] = [job[p] EXCEPT !.read = None, !.re = None]
  BY <1>1 DEF RotateKeyWrite, Goto, Keep
<1>3. /\ job'[p].page = job[p].page /\ job'[p].last = job[p].last
      /\ job'[p].skipped = job[p].skipped
  BY <1>1, <1>2 DEF Job
<1>4. PageIds(p)' = PageIds(p) /\ PageIds(p) = {}
  BY <1>1, <1>3 DEF PageIds, RotateSoFar
<1>5. \A i \in Ids : Ahead(p, i)' <=> Ahead(p, i)
  BY <1>3, <1>4 DEF Ahead, After
<1>6. \A i \in Ids : Live(i)' /\ ~Current(rows[i])' =>
           i \in job'[p].skipped \/ Ahead(p, i)'
  BY <1>1, <1>3, <1>5 DEF RotateSoFar, Live, Current
<1>7. Current(job[p].re) /\ (Current(keyrow) \/ keyrow = job[p].read)
  BY <1>1 DEF RotateSoFar
<1>8. Current(keyrow)'
  <2>1. CASE KeyMatches(p)
    BY <1>1, <1>7, <2>1 DEF Current
  <2>2. CASE ~KeyMatches(p)
    BY <1>1, <1>7, <2>2 DEF Current, KeyMatches
  <2> QED
    BY <2>1, <2>2
<1> QED
  BY <1>2, <1>4, <1>6, <1>8 DEF RotateSoFar

\* The next page: what is still to be done is on it or beyond it.
LEMMA RotatePageSoFar ==
    ASSUME DInv, NEW p \in Rotators, RotatePage(p)
    PROVE  RotateSoFar(p)'
<1> DEFINE T == {i \in Ids : RotateSelects(p, i)}
           S == FirstPage(T)
<1>1. /\ p \in Procs /\ TypeOK /\ job[p] \in Job /\ RotateSoFar(p) /\ pc[p] = "select"
      /\ pc \in [Procs -> Control] /\ job \in [Procs -> Job] /\ env[p] = BothEnv
      /\ rows' = rows /\ keyrow' = keyrow /\ engine' = engine
  BY ProcedureAssumption DEF DInv, Inv, TypeOK, RotatePage, Procs, PhaseInv, tables, config
<1>2. /\ T \in SUBSET Ids /\ S \in SUBSET T
      /\ \A i \in T \ S : \A j \in S : i > j
      /\ S = {} => T = {}
  BY PageInOrder
<1>3. \A i \in S : Live(i) /\ rows[i] # None
  BY <1>2 DEF RotateSelects, Live
<1>4. pc'[p] = (IF S = {} THEN "rotated" ELSE "rewrap")
      /\ job'[p] = [job[p] EXCEPT !.page = ReadPage(S)]
  BY <1>1 DEF RotatePage, Goto, Keep
<1>5. \A i \in Ids : RotateSelects(p, i) <=> i \in T
  OBVIOUS
<1> HIDE DEF S, T
<1>6. /\ job'[p].page = ReadPage(S) /\ job'[p].last = job[p].last
      /\ job'[p].skipped = job[p].skipped
  BY <1>1, <1>4 DEF Job
<1>7. PageIds(p)' = S
  <2>1. \A i \in Ids : ReadPage(S)[i] # None <=> i \in S
    BY <1>1, <1>2, <1>3, ReadPageType
  <2> QED
    BY <1>2, <1>6, <2>1 DEF PageIds
<1>8. \A i \in S : SealedOf(i)' = job'[p].page[i]
  BY <1>1, <1>2, <1>6 DEF ReadPage, SealedOf
<1>9. ASSUME NEW i \in Ids, Live(i), ~Current(rows[i]), i \notin job[p].skipped
      PROVE  i \in T /\ S # {} /\ Ahead(p, i)'
  <2>1. Ahead(p, i) /\ PageIds(p) = {}
    BY <1>1, <1>9 DEF RotateSoFar
  <2>2. After(p, i)
    BY <2>1 DEF Ahead
  <2>3. rows[i].key_id # env[p].current \/ InPlace(p)
    BY <1>1, <1>9 DEF Current, InPlace
  <2>4. i \in T
    BY <1>5, <1>9, <2>2, <2>3 DEF RotateSelects
  <2>5. After(p, i)'
    BY <1>6, <2>2 DEF After
  <2> QED
    BY <1>2, <1>7, <2>4, <2>5 DEF Ahead
<1>10. Current(keyrow)'
  BY <1>1 DEF RotateSoFar, Current
<1>11. \A i \in Ids : Live(i)' /\ ~Current(rows[i])' =>
           i \in job'[p].skipped \/ (pc'[p] # "rotated" /\ Ahead(p, i)')
  BY <1>1, <1>4, <1>6, <1>9 DEF Live, Current
<1> QED
  BY <1>4, <1>7, <1>8, <1>10, <1>11 DEF RotateSoFar

\* A run that takes a row from its page still has the others ahead of it.
LEMMA AheadStays ==
    ASSUME NEW p, NEW i \in PageIds(p), job'[p].last \in {job[p].last, i},
           PageIds(p) \ {i} = PageIds(p)', NEW j \in Ids \ {i}, Ahead(p, j)
    PROVE  Ahead(p, j)'
BY DEF Ahead, After

\* One row less: it is current, or skipped.
LEMMA RowDone ==
    ASSUME DInv, NEW p \in Rotators, pc[p] \in {"rewrap", "write"}, engine' = engine,
           NEW i \in PageIds(p), keyrow' = keyrow, Resume(p, i, "rewrap", "select"),
           job'[p].page = [job[p].page EXCEPT ![i] = None],
           job'[p].last \in {job[p].last, i},
           job[p].skipped \subseteq job'[p].skipped,
           Live(i)' => i \in job'[p].skipped \/ Current(rows[i])',
           \A j \in Ids \ {i} : rows'[j] = rows[j]
    PROVE  RotateSoFar(p)'
<1>1. /\ p \in Procs /\ TypeOK /\ job[p] \in Job /\ RotateSoFar(p)
      /\ pc \in [Procs -> Control] /\ job[p].page \in [Ids -> Sealed \cup {None}]
  BY DEF DInv, Inv, TypeOK, Procs, Job
<1>2. PageIds(p)' = PageIds(p) \ {i} /\ i \in Ids /\ PageIds(p) \subseteq Ids
  BY <1>1 DEF PageIds
<1>3. pc'[p] = IF PageIds(p) \ {i} = {} THEN "select" ELSE "rewrap"
  BY <1>1 DEF Resume, Goto
<1>4. \A j \in PageIds(p)' : Live(j)' => Current(rows[j])' \/ SealedOf(j)' = job'[p].page[j]
  BY <1>1, <1>2 DEF RotateSoFar, Live, SealedOf, Current
<1>5. ASSUME NEW j \in Ids, Live(j)', ~Current(rows[j])', j \notin job'[p].skipped
      PROVE  Ahead(p, j)'
  <2>1. j # i /\ rows'[j] = rows[j] /\ Live(j) /\ ~Current(rows[j]) /\ j \notin job[p].skipped
    BY <1>5 DEF Live, Current
  <2>2. Ahead(p, j)
    BY <1>1, <2>1 DEF RotateSoFar
  <2> QED
    BY <1>2, <2>1, <2>2, AheadStays
<1>6. Current(keyrow)'
  BY <1>1 DEF RotateSoFar, Current
<1> QED
  BY <1>2, <1>3, <1>4, <1>5, <1>6 DEF RotateSoFar

\* A row is re-wrapped and goes on to be written, need not be, or is skipped.
LEMMA RotateRewrapSoFar ==
    ASSUME DInv, NEW p \in Rotators, NEW i \in Ids, RotateRewrap(p, i)
    PROVE  RotateSoFar(p)'
<1> DEFINE s == job[p].page[i]
<1>1. /\ p \in Procs /\ TypeOK /\ job[p] \in Job /\ RotateSoFar(p) /\ pc[p] = "rewrap"
      /\ pc \in [Procs -> Control] /\ job \in [Procs -> Job] /\ i \in PageIds(p)
      /\ rows' = rows /\ keyrow' = keyrow /\ engine' = engine
  BY DEF DInv, Inv, TypeOK, RotateRewrap, Procs, NextOfPage, tables, config
<1>2. Live(i) => Current(rows[i]) \/ SealedOf(i) = s
  BY <1>1 DEF RotateSoFar
<1>3. CASE /\ Goto(p, "write")
           /\ Keep(p, [job[p] EXCEPT !.last = i, !.cur = i, !.read = s,
                                     !.re = Rewrapped(p, s)])
  <2>1. Current(Rewrapped(p, s))
    BY RewrapsToCurrent
  <2>2. /\ pc'[p] = "write" /\ job'[p] = [job[p] EXCEPT !.last = i, !.cur = i, !.read = s,
                                                        !.re = Rewrapped(p, s)]
    BY <1>1, <1>3 DEF Goto, Keep
  <2>3. /\ job'[p].last = i /\ job'[p].cur = i /\ job'[p].read = s
        /\ job'[p].page = job[p].page /\ job'[p].skipped = job[p].skipped
        /\ Current(job'[p].re)
    <3> HIDE DEF s
    <3> QED
      BY <1>1, <2>1, <2>2 DEF Job
  <2>4. PageIds(p)' = PageIds(p)
    BY <2>3 DEF PageIds
  <2>5. \A j \in Ids : Ahead(p, j) => Ahead(p, j)'
    BY <1>1, <2>3, <2>4 DEF Ahead, After
  <2>6. \A j \in Ids : Live(j)' /\ ~Current(rows[j])' =>
             j \in job'[p].skipped \/ Ahead(p, j)'
    BY <1>1, <2>3, <2>5 DEF RotateSoFar, Live, Current
  <2>7. \A j \in PageIds(p)' : Live(j)' => Current(rows[j])' \/ SealedOf(j)' = job'[p].page[j]
    BY <1>1, <2>3, <2>4 DEF RotateSoFar, Live, Current, SealedOf
  <2>8. Current(keyrow)' /\ Current(job[p].re)'
    BY <1>1, <2>3 DEF RotateSoFar, Current
  <2> QED
    BY <1>1, <2>2, <2>3, <2>4, <2>6, <2>7, <2>8 DEF RotateSoFar
<1>4. CASE /\ Rewrapped(p, s) = s /\ Resume(p, i, "rewrap", "select")
           /\ Keep(p, [job[p] EXCEPT !.last = i, !.page[i] = None])
  <2>1. job'[p] = [job[p] EXCEPT !.last = i, !.page[i] = None]
    BY <1>1, <1>4 DEF Keep
  <2>2. /\ job'[p].last = i /\ job'[p].page = [job[p].page EXCEPT ![i] = None]
        /\ job'[p].skipped = job[p].skipped
    BY <1>1, <2>1 DEF Job
  <2>3. Current(s)
    BY <1>4, RewrapsToCurrent
  <2>4. Live(i)' => Current(rows[i])'
    BY <1>1, <1>2, <2>3 DEF Live, Current, SealedOf
  <2> QED
    BY <1>1, <1>4, <2>2, <2>4, RowDone
<1>5. CASE /\ Resume(p, i, "rewrap", "select")
           /\ Keep(p, [job[p] EXCEPT !.last = i, !.page[i] = None,
                                     !.skipped = @ \cup {i}])
  <2>1. job'[p] = [job[p] EXCEPT !.last = i, !.page[i] = None, !.skipped = @ \cup {i}]
    BY <1>1, <1>5 DEF Keep
  <2>2. /\ job'[p].last = i /\ job'[p].page = [job[p].page EXCEPT ![i] = None]
        /\ job'[p].skipped = job[p].skipped \cup {i}
    BY <1>1, <2>1 DEF Job
  <2> QED
    BY <1>1, <1>5, <2>2, RowDone
<1> QED
  BY <1>3, <1>4, <1>5 DEF RotateRewrap

\* Whoever re-wrapped the row first, it is current now, or shredded.
LEMMA RotateWriteSoFar ==
    ASSUME DInv, NEW p \in Rotators, RotateWrite(p)
    PROVE  RotateSoFar(p)'
<1>1. /\ p \in Procs /\ TypeOK /\ job[p] \in Job /\ RotateSoFar(p) /\ pc[p] = "write"
      /\ pc \in [Procs -> Control] /\ job \in [Procs -> Job]
      /\ rows \in [Ids -> Row \cup {None}]
      /\ keyrow' = keyrow /\ engine' = engine
  BY DEF DInv, Inv, TypeOK, RotateWrite, Procs, config
<1>2. PICK i \in Ids : i = job[p].cur
  BY <1>1 DEF RotateSoFar, PageIds
<1>3. /\ i \in PageIds(p) /\ job[p].read = job[p].page[i] /\ Current(job[p].re)
      /\ Live(i) => Current(rows[i]) \/ SealedOf(i) = job[p].read
  BY <1>2, <1>1 DEF RotateSoFar, PageIds
<1>4. /\ Resume(p, i, "rewrap", "select")
      /\ job'[p] = [job[p] EXCEPT !.cur = None, !.page[i] = None, !.read = None, !.re = None]
      /\ rows' = IF RotateMatches(p, i)
                 THEN [rows EXCEPT ![i] = Rewritten(@, job[p].re)] ELSE rows
  BY <1>2, <1>1 DEF RotateWrite, Keep
<1>5. /\ job'[p].last = job[p].last /\ job'[p].page = [job[p].page EXCEPT ![i] = None]
      /\ job'[p].skipped = job[p].skipped
  BY <1>1, <1>4 DEF Job
<1>6. \A j \in Ids \ {i} : rows'[j] = rows[j]
  BY <1>1, <1>4
<1>7. ASSUME Live(i)' PROVE Current(rows[i])'
  <2>1. CASE RotateMatches(p, i)
    <3>1. rows'[i] = Rewritten(rows[i], job[p].re) /\ rows[i] \in Row
      BY <1>1, <1>3, <1>4, <2>1 DEF RotateMatches, Live
    <3>2. rows'[i].key_id = job[p].re.key_id /\ rows'[i].wrapped = job[p].re.wrapped
      BY <3>1 DEF Rewritten, Row
    <3> QED
      BY <1>1, <1>3, <3>2 DEF Current
  <2>2. CASE ~RotateMatches(p, i)
    <3>1. rows' = rows /\ Live(i)
      BY <1>4, <1>7, <2>2 DEF Live
    <3>2. Current(rows[i])
      BY <1>3, <2>2, <3>1 DEF RotateMatches, SealedOf
    <3> QED
      BY <1>1, <3>1, <3>2 DEF Current
  <2> QED
    BY <2>1, <2>2
<1> QED
  BY <1>1, <1>3, <1>4, <1>5, <1>6, <1>7, RowDone

\* Every step leaves every rotation with all it has not done ahead of it.
LEMMA StepRotate ==
    ASSUME DInv, NEW p \in Procs, Step(p), NEW q \in Rotators
    PROVE  RotateSoFar(q)'
<1>1. CASE q # p
  BY <1>1, OthersHelpRotate
<1>2. CASE q = p /\ (Abort(p) \/ Exit(p))
  BY <1>2, RotateEnded DEF DInv, Inv, Abort, Exit, Leave
<1>3. CASE q = p /\ Rotate(p)
  BY <1>2, <1>3, RotateStartSoFar, RotateKeyRewrapSoFar, RotateKeyWriteSoFar,
     RotatePageSoFar, RotateRewrapSoFar, RotateWriteSoFar DEF Rotate
<1> QED
  BY <1>1, <1>2, <1>3, ProcedureAssumption DEF Step

-----------------------------------------------------------------------------
(* Reindex: how far a run has come *)

\* Object i was live before the step, which has left its index alone.
SameIndex(i) ==
    /\ Live(i) /\ rows'[i].collection = rows[i].collection /\ rows'[i].has = rows[i].has
    /\ \A e : e.id = i => (e \in index' <=> e \in index)

\* Its index is as new or as old as it was.
LEMMA SameIndexStays ==
    ASSUME NEW i \in Ids, SameIndex(i)
    PROVE  Anew(i)' <=> Anew(i)
<1>1. EntriesOf(rows[i].collection, i)' = EntriesOf(rows[i].collection, i)
  BY DEF SameIndex, EntriesOf
<1> QED
  BY <1>1 DEF SameIndex, Anew

\* Once all schemas are the new one, an object is indexed anew or left alone.
LEMMA StepIndex ==
    ASSUME DInv, NEW p \in Procs, Step(p), \A q \in Servers : schema[q] = NewSchema,
           NEW i \in Ids, Live(i)'
    PROVE  /\ Anew(i)' \/ SameIndex(i)
           /\ \A told \in BOOLEAN : RewriteCommit(p, told) /\ i = job[p].cur => Anew(i)'
<1>1. /\ Inv /\ TypeOK /\ Next /\ schema' = schema /\ IndexSoFar(p) /\ schema[p] = NewSchema
  BY StepFrame DEF DInv, Inv, PhaseInv
<1>2. ASSUME index' = index, Live(i) PROVE SameIndex(i)
  BY <1>1, <1>2, RowsStay DEF SameIndex, Live
<1>3. ASSUME NEW told \in BOOLEAN, PutCommit(p, told) PROVE Anew(i)' \/ SameIndex(i)
  <2>1. CommitReady(p) /\ CommitTx(p, told) /\ pc[p] = "put"
    BY <1>1, <1>3, PutCommitReady DEF PutCommit
  <2>2. /\ tx[p].shred = {} /\ tx[p].dels = {} /\ index' = (index \ tx[p].dels) \cup tx[p].adds
        /\ \A e \in tx[p].adds : /\ e.id \in New(p)
                                 /\ tx[p].rows[e.id].collection = e.collection
        /\ \A k \in New(p) : {e \in tx[p].adds : e.id = k}
                               = Indexed(p, tx[p].rows[k].collection, k, tx[p].rows[k].has)
    BY <1>1, <2>1 DEF Inv, ProcInv, PutSoFar, IndexSoFar, CommitTx
  <2>3. CASE i \in New(p)
    <3>1. rows[i] = None /\ rows'[i] = tx[p].rows[i]
      BY <1>1, <2>1, <2>3, CommittedRow
    <3>2. \A e \in index : e.id # i
      BY <1>1, <3>1 DEF Inv, IndexOnlyLive, Live
    <3>3. EntriesOf(rows[i].collection, i)' = {e \in tx[p].adds : e.id = i}
      BY <2>2, <3>1, <3>2 DEF EntriesOf
    <3>4. {e \in tx[p].adds : e.id = i}
            = Indexed(p, tx[p].rows[i].collection, i, tx[p].rows[i].has)
      BY <2>2, <2>3
    <3> QED
      BY <1>1, <3>1, <3>3, <3>4 DEF Anew, Indexed
  <2>4. CASE i \notin New(p)
    <3>1. rows'[i] = rows[i]
      BY <1>1, <2>1, <2>2, <2>4, CommittedRow
    <3> QED
      BY <2>2, <2>4, <3>1 DEF SameIndex, Live
  <2> QED
    BY <2>3, <2>4
<1>4. ASSUME NEW told \in BOOLEAN, ShredCommit(p, told) PROVE SameIndex(i)
  <2>1. CommitReady(p) /\ CommitTx(p, told) /\ pc[p] = "unindex"
    BY <1>1, <1>4, ShredCommitReady DEF ShredCommit
  <2>2. /\ New(p) = {} /\ tx[p].adds = {} /\ index' = (index \ tx[p].dels) \cup tx[p].adds
        /\ \A e \in tx[p].dels : e.id \in tx[p].shred
    BY <1>1, <2>1 DEF Inv, ProcInv, ShredSoFar, CommitTx
  <2>3. i \notin tx[p].shred /\ rows'[i] = rows[i]
    BY <1>1, <2>1, <2>2, CommittedRow DEF Live
  <2> QED
    BY <2>2, <2>3 DEF SameIndex, Live
<1>5. ASSUME NEW told \in BOOLEAN, RewriteCommit(p, told)
      PROVE  IF i = job[p].cur THEN Anew(i)' ELSE SameIndex(i)
  <2>1. CommitReady(p) /\ CommitTx(p, told) /\ pc[p] = "rewritten"
    BY <1>1, <1>5, RewriteCommitReady DEF RewriteCommit
  <2>2. /\ New(p) = {} /\ tx[p].shred = {} /\ index' = (index \ tx[p].dels) \cup tx[p].adds
        /\ \A e \in tx[p].dels : e.id = job[p].cur
        /\ \A e \in index : e.id = job[p].cur => e \in tx[p].dels
        /\ \A e \in tx[p].adds : /\ e.id = job[p].cur
                                 /\ e.collection = rows[e.id].collection
        /\ tx[p].adds = Indexed(p, rows[job[p].cur].collection, job[p].cur,
                                rows[job[p].cur].has)
    BY <1>1, <2>1 DEF Inv, ProcInv, RewriteSoFar, IndexSoFar, CommitTx
  <2>3. rows'[i] = rows[i] /\ Live(i)
    BY <1>1, <2>1, <2>2, CommittedRow DEF Live
  <2>4. CASE i = job[p].cur
    <3>1. EntriesOf(rows[i].collection, i)' = tx[p].adds
      BY <2>2, <2>3, <2>4 DEF EntriesOf
    <3> QED
      BY <1>1, <2>2, <2>3, <2>4, <3>1 DEF Anew, Indexed
  <2>5. CASE i # job[p].cur
    BY <2>2, <2>3, <2>5 DEF SameIndex
  <2> QED
    BY <2>4, <2>5
<1>6. CASE Silent(p) \/ Staging(p)
  <2>1. index' = index /\ rows' = rows
    BY <1>6 DEF Silent, Unseen, Staging, PutItem, GetSelect, Rewrite, tables
  <2> QED
    BY <1>2, <1>5, <2>1 DEF Live
<1>7. CASE RotateWrite(p)
  <2>1. index' = index /\ Live(i)
    <3>1. rows \in [Ids -> Row \cup {None}] /\ job[p].cur \in Ids
      BY <1>1, <1>7 DEF Inv, TypeOK, ProcInv, JobReady, RotateWrite, Job
    <3>2. /\ index' = index
          /\ \/ rows' = rows
             \/ /\ Live(job[p].cur)
                /\ rows' = [rows EXCEPT ![job[p].cur] = Rewritten(@, job[p].re)]
      BY <1>7 DEF RotateWrite, RotateMatches
    <3> QED
      BY <3>1, <3>2 DEF Live
  <2> QED
    BY <1>2, <1>5, <2>1
<1>8. CASE Respond(p) \/ \E told \in BOOLEAN : GetAudit(p, told)
  <2>1. index' = index /\ rows' = rows
    BY <1>8 DEF Respond, GetAudit, tables
  <2> QED
    BY <1>2, <1>5, <2>1 DEF Live
<1>9. Silent(p) \/ Staging(p) \/ Seen(p) \/ RotateWrite(p)
  <2>1. ASSUME Abort(p) PROVE Silent(p)
    BY <1>1, <2>1, SilentStep DEF Abort, Leave, Return
  <2> QED
    BY <1>1, <2>1, ServeKinds, ReindexKinds, RotateKinds DEF Step
<1>10. Anew(i)' \/ SameIndex(i)
  BY <1>3, <1>4, <1>5, <1>6, <1>7, <1>8, <1>9 DEF Seen
<1> QED
  BY <1>5, <1>10

\* While a Reindex runs, what is not indexed anew was not before the step.
LEMMA NotAnew ==
    ASSUME DInv, NEW p \in Procs, Step(p), Reindexing, NEW i \in Ids, Live(i)', ~Anew(i)'
    PROVE  Live(i) /\ ~Anew(i) /\ rows'[i].collection = rows[i].collection
<1>1. \A q \in Servers : schema[q] = NewSchema
  BY DEF DInv, PhaseInv
<1>2. SameIndex(i)
  BY <1>1, StepIndex
<1> QED
  BY <1>2, SameIndexStays DEF SameIndex

\* A step of somebody else only helps.
LEMMA OthersHelpReindex ==
    ASSUME DInv, NEW p \in Procs, Step(p), NEW q \in Reindexers, q # p
    PROVE  ReindexSoFar(q)'
<1>1. OthersStay(p) /\ q \in Procs /\ ReindexSoFar(q)
  BY StepFrame DEF DInv, Procs
<1>2. pc'[q] = pc[q] /\ job'[q] = job[q]
  BY <1>1 DEF OthersStay
<1>3. PageIds(q)' = PageIds(q)
  BY <1>2 DEF PageIds
<1>4. \A i \in Ids : Ahead(q, i)' <=> Ahead(q, i)
  BY <1>2, <1>3 DEF Ahead, After
<1>5. pc[q] # "idle" => Reindexing
  BY DEF Reindexing
<1> QED
  BY <1>1, <1>2, <1>3, <1>4, <1>5, NotAnew DEF ReindexSoFar

\* A run that has ended, or died, has nothing left to do.
LEMMA ReindexEnded ==
    ASSUME TypeOK, NEW p \in Procs, Return(p)
    PROVE  ReindexSoFar(p)'
<1>1. pc'[p] = "idle" /\ job'[p] = NoJob
  BY DEF TypeOK, Return, Goto, Keep
<1> QED
  BY <1>1 DEF ReindexSoFar

\* The run begins with every row ahead of it.
LEMMA ReindexStartSoFar ==
    ASSUME DInv, NEW p \in Reindexers, NEW c \in Collections \cup {None}, ReindexStart(p, c)
    PROVE  ReindexSoFar(p)'
<1>1. /\ p \in Procs /\ TypeOK /\ job[p] = NoJob
      /\ pc \in [Procs -> Control] /\ job \in [Procs -> Job]
  BY DEF DInv, Inv, TypeOK, ProcInv, JobReady, ReindexStart, Procs
<1>2. pc'[p] = "scan" /\ job'[p] = [NoJob EXCEPT !.collection = c]
  BY <1>1 DEF ReindexStart, Goto, Keep
<1>3. job'[p].page = NoPage /\ job'[p].last = 0
  BY <1>2 DEF NoJob
<1>4. PageIds(p)' = {}
  BY <1>3 DEF PageIds, NoPage
<1>5. \A i \in Ids : i > 0
  BY ConstantsAssumption
<1>6. \A i \in Ids : Ahead(p, i)'
  BY <1>3, <1>4, <1>5 DEF Ahead, After
<1> QED
  BY <1>2, <1>4, <1>6 DEF ReindexSoFar

\* The next page: what is still to be done is on it or beyond it.
LEMMA ReindexPageSoFar ==
    ASSUME DInv, NEW p \in Reindexers, ReindexPage(p)
    PROVE  ReindexSoFar(p)'
<1> DEFINE T == {i \in Ids : ReindexSelects(p, i)}
           S == FirstPage(T)
<1>1. /\ p \in Procs /\ TypeOK /\ job[p] \in Job /\ ReindexSoFar(p) /\ pc[p] = "scan"
      /\ pc \in [Procs -> Control] /\ job \in [Procs -> Job]
      /\ rows' = rows /\ index' = index
  BY DEF DInv, Inv, TypeOK, ReindexPage, Procs, tables
<1>2. /\ T \in SUBSET Ids /\ S \in SUBSET T
      /\ \A i \in T \ S : \A j \in S : i > j
      /\ S = {} => T = {}
  BY PageInOrder
<1>3. \A i \in S : rows[i] # None
  BY <1>2 DEF ReindexSelects, Live
<1>4. pc'[p] = (IF S = {} THEN "reindexed" ELSE "open")
      /\ job'[p] = [job[p] EXCEPT !.page = ReadPage(S)]
  BY <1>1 DEF ReindexPage, Goto, Keep
<1>5. \A i \in Ids : ReindexSelects(p, i) <=> i \in T
  OBVIOUS
<1> HIDE DEF S, T
<1>6. /\ job'[p].page = ReadPage(S) /\ job'[p].last = job[p].last
      /\ job'[p].skipped = job[p].skipped /\ job'[p].collection = job[p].collection
  BY <1>1, <1>4 DEF Job
<1>7. PageIds(p)' = S
  <2>1. \A i \in Ids : ReadPage(S)[i] # None <=> i \in S
    BY <1>1, <1>2, <1>3, ReadPageType
  <2> QED
    BY <1>2, <1>6, <2>1 DEF PageIds
<1>8. ASSUME NEW i \in Ids, Live(i), ~Anew(i), i \notin job[p].skipped,
             job[p].collection \in {None, rows[i].collection}
      PROVE  S # {} /\ Ahead(p, i)'
  <2>1. Ahead(p, i) /\ PageIds(p) = {}
    BY <1>1, <1>8 DEF ReindexSoFar
  <2>2. After(p, i)
    BY <2>1 DEF Ahead
  <2>3. i \in T
    BY <1>5, <1>8, <2>2 DEF ReindexSelects
  <2>4. After(p, i)'
    BY <1>6, <2>2 DEF After
  <2> QED
    BY <1>2, <1>7, <2>3, <2>4 DEF Ahead
<1>9. \A i \in Ids : Live(i)' /\ ~Anew(i)' => Live(i) /\ ~Anew(i)
  BY <1>1 DEF Live, Anew, EntriesOf
<1> QED
  BY <1>1, <1>4, <1>6, <1>7, <1>8, <1>9 DEF ReindexSoFar

\* One row less: it is indexed anew, shredded, or skipped.
LEMMA RowIndexed ==
    ASSUME DInv, NEW p \in Reindexers, Step(p), pc[p] # "idle", pc[p] # "reindexed",
           NEW i \in PageIds(p), Resume(p, i, "open", "scan"),
           job'[p].page = [job[p].page EXCEPT ![i] = None],
           job'[p].last \in {job[p].last, i}, job[p].skipped \subseteq job'[p].skipped,
           job'[p].collection = job[p].collection,
           Live(i)' => i \in job'[p].skipped \/ Anew(i)'
    PROVE  ReindexSoFar(p)'
<1>1. /\ p \in Procs /\ TypeOK /\ job[p] \in Job /\ ReindexSoFar(p) /\ Reindexing
      /\ pc \in [Procs -> Control] /\ job[p].page \in [Ids -> Sealed \cup {None}]
  BY DEF DInv, Inv, TypeOK, Procs, Job, Reindexing
<1>2. PageIds(p) \ {i} = PageIds(p)' /\ i \in Ids
  BY <1>1 DEF PageIds
<1>3. pc'[p] = IF PageIds(p)' = {} THEN "scan" ELSE "open"
  BY <1>1, <1>2 DEF Resume, Goto
<1>4. ASSUME NEW j \in Ids, Live(j)', ~Anew(j)', j \notin job'[p].skipped,
             job'[p].collection \in {None, rows'[j].collection}
      PROVE  Ahead(p, j)'
  <2>1. Live(j) /\ ~Anew(j) /\ rows'[j].collection = rows[j].collection
    BY <1>1, <1>4, NotAnew
  <2>2. Ahead(p, j) /\ j # i
    BY <1>1, <1>4, <2>1 DEF ReindexSoFar
  <2> QED
    BY <1>2, <2>2, AheadStays
<1> QED
  BY <1>3, <1>4 DEF ReindexSoFar

\* A row is in hand: its page is still ahead.
LEMMA RowInHand ==
    ASSUME DInv, NEW p \in Reindexers, Step(p), pc[p] # "idle", pc[p] # "reindexed",
           pc'[p] \in {"relock", "rewrite", "rewritten"},
           job'[p].page = job[p].page, job'[p].skipped = job[p].skipped,
           job'[p].collection = job[p].collection,
           job'[p].last \in {job[p].last} \cup PageIds(p), job'[p].cur \in PageIds(p)
    PROVE  ReindexSoFar(p)'
<1>1. p \in Procs /\ ReindexSoFar(p) /\ Reindexing
  BY DEF DInv, Procs, Reindexing
<1>2. PageIds(p)' = PageIds(p)
  BY DEF PageIds
<1>3. \A i \in Ids : Ahead(p, i) => Ahead(p, i)'
  BY <1>2 DEF Ahead, After
<1> QED
  BY <1>1, <1>2, <1>3, NotAnew DEF ReindexSoFar

\* A row that opens is taken in hand; one that does not is skipped.
LEMMA ReindexOpenSoFar ==
    ASSUME DInv, NEW p \in Reindexers, Step(p), NEW i \in Ids, ReindexOpen(p, i)
    PROVE  ReindexSoFar(p)'
<1>1. /\ p \in Procs /\ job[p] \in Job /\ pc[p] = "open" /\ i \in PageIds(p)
      /\ pc \in [Procs -> Control] /\ job \in [Procs -> Job]
  BY DEF DInv, Inv, TypeOK, ReindexOpen, Procs, NextOfPage
<1>2. CASE Goto(p, "relock") /\ Keep(p, [job[p] EXCEPT !.last = i, !.cur = i])
  <2>1. pc'[p] = "relock" /\ job'[p] = [job[p] EXCEPT !.last = i, !.cur = i]
    BY <1>1, <1>2 DEF Goto, Keep
  <2>2. /\ job'[p].page = job[p].page /\ job'[p].skipped = job[p].skipped
        /\ job'[p].collection = job[p].collection /\ job'[p].last = i /\ job'[p].cur = i
    BY <1>1, <2>1 DEF Job
  <2> QED
    BY <1>1, <2>1, <2>2, RowInHand
<1>3. CASE /\ Resume(p, i, "open", "scan")
           /\ Keep(p, [job[p] EXCEPT !.last = i, !.page[i] = None, !.skipped = @ \cup {i}])
  <2>1. job'[p] = [job[p] EXCEPT !.last = i, !.page[i] = None, !.skipped = @ \cup {i}]
    BY <1>1, <1>3 DEF Keep
  <2>2. /\ job'[p].page = [job[p].page EXCEPT ![i] = None]
        /\ job'[p].skipped = job[p].skipped \cup {i}
        /\ job'[p].collection = job[p].collection /\ job'[p].last = i
    BY <1>1, <2>1 DEF Job
  <2> QED
    BY <1>1, <1>3, <2>2, RowIndexed
<1> QED
  BY <1>2, <1>3 DEF ReindexOpen

\* rewriteIndex, up to its commit: a row that was shredded meanwhile is done.
LEMMA RewriteSoFarStep ==
    ASSUME DInv, NEW p \in Reindexers, Step(p), RewriteLock(p) \/ Rewrite(p)
    PROVE  ReindexSoFar(p)'
<1>1. /\ p \in Procs /\ job[p] \in Job /\ pc[p] \in {"relock", "rewrite"}
      /\ pc \in [Procs -> Control] /\ job \in [Procs -> Job] /\ ReindexSoFar(p)
      /\ rows' = rows
  BY DEF DInv, Inv, TypeOK, RewriteLock, Rewrite, Procs, tables
<1>2. PICK i \in Ids : i = job[p].cur /\ i \in PageIds(p)
  BY <1>1 DEF ReindexSoFar, PageIds
<1>3. CASE job' = job /\ \E l \in {"rewrite", "rewritten"} : Goto(p, l)
  <2>1. pc'[p] \in {"rewrite", "rewritten"}
    BY <1>1, <1>3 DEF Goto
  <2> QED
    BY <1>1, <1>2, <1>3, <2>1, RowInHand
<1>4. CASE /\ ~Live(i) /\ Resume(p, i, "open", "scan")
           /\ Keep(p, [job[p] EXCEPT !.cur = None, !.page[i] = None, !.done = @ \cup {i}])
  <2>1. job'[p] = [job[p] EXCEPT !.cur = None, !.page[i] = None, !.done = @ \cup {i}]
    BY <1>1, <1>4 DEF Keep
  <2>2. /\ job'[p].page = [job[p].page EXCEPT ![i] = None]
        /\ job'[p].skipped = job[p].skipped
        /\ job'[p].collection = job[p].collection /\ job'[p].last = job[p].last
    BY <1>1, <2>1 DEF Job
  <2>3. ~Live(i)'
    BY <1>1, <1>4 DEF Live
  <2> QED
    BY <1>1, <1>2, <1>4, <2>2, <2>3, RowIndexed
<1> QED
  BY <1>2, <1>3, <1>4 DEF RewriteLock, Rewrite

\* rewriteIndex commits: the row is indexed anew.
LEMMA RewriteCommitSoFar ==
    ASSUME DInv, NEW p \in Reindexers, Step(p), NEW told \in BOOLEAN, RewriteCommit(p, told)
    PROVE  ReindexSoFar(p)'
<1>1. /\ p \in Procs /\ TypeOK /\ job[p] \in Job /\ pc[p] = "rewritten"
      /\ pc \in [Procs -> Control] /\ job \in [Procs -> Job] /\ ReindexSoFar(p)
  BY DEF DInv, Inv, TypeOK, RewriteCommit, Procs
<1>2. PICK i \in Ids : i = job[p].cur /\ i \in PageIds(p)
  BY <1>1 DEF ReindexSoFar, PageIds
<1>3. CASE Return(p)
  BY <1>1, <1>3, ReindexEnded
<1>4. CASE /\ Resume(p, i, "open", "scan")
           /\ Keep(p, [job[p] EXCEPT !.cur = None, !.page[i] = None, !.done = @ \cup {i}])
  <2>1. job'[p] = [job[p] EXCEPT !.cur = None, !.page[i] = None, !.done = @ \cup {i}]
    BY <1>1, <1>4 DEF Keep
  <2>2. /\ job'[p].page = [job[p].page EXCEPT ![i] = None]
        /\ job'[p].skipped = job[p].skipped
        /\ job'[p].collection = job[p].collection /\ job'[p].last = job[p].last
    BY <1>1, <2>1 DEF Job
  <2>3. \A q \in Servers : schema[q] = NewSchema
    BY <1>1 DEF DInv, PhaseInv, Reindexing
  <2>4. Live(i)' => Anew(i)'
    BY <1>1, <1>2, <2>3, StepIndex
  <2> QED
    BY <1>1, <1>2, <1>4, <2>2, <2>4, RowIndexed
<1> QED
  BY <1>2, <1>3, <1>4 DEF RewriteCommit

\* Every step leaves every reindex with all it has not done ahead of it.
LEMMA StepReindex ==
    ASSUME DInv, NEW p \in Procs, Step(p), NEW q \in Reindexers
    PROVE  ReindexSoFar(q)'
<1>1. CASE q # p
  BY <1>1, OthersHelpReindex
<1>2. CASE q = p /\ (Abort(p) \/ Exit(p))
  BY <1>2, ReindexEnded DEF DInv, Inv, Abort, Exit, Leave
<1>3. CASE q = p /\ Reindex(p)
  BY <1>2, <1>3, ReindexStartSoFar, ReindexPageSoFar, ReindexOpenSoFar, RewriteSoFarStep,
     RewriteCommitSoFar DEF Reindex
<1> QED
  BY <1>1, <1>2, <1>3, ProcedureAssumption DEF Step

\* What has been rebuilt stays so.
LEMMA StepRebuilt ==
    ASSUME DInv, NEW p \in Procs, Step(p)
    PROVE  RebuiltInv'
<1> SUFFICES ASSUME NEW i \in Ids, Live(i)', rows'[i].collection \in rebuilt' PROVE Anew(i)'
  BY DEF RebuiltInv
<1>1. Reindexing \/ rebuilt # {}
  BY DEF Step, Reindexing
<1>2. \A q \in Servers : schema[q] = NewSchema
  BY <1>1 DEF DInv, PhaseInv
<1>3. CASE SameIndex(i)
  <2>1. Live(i) /\ rows'[i].collection = rows[i].collection
    BY <1>3 DEF SameIndex
  <2>2. Anew(i)
    <3>1. CASE rows[i].collection \in rebuilt
      BY <2>1, <3>1 DEF DInv, RebuiltInv
    <3>2. CASE rows[i].collection \notin rebuilt
      BY <2>1, <3>2 DEF Step, DInv, ReindexSoFar
    <3> QED
      BY <3>1, <3>2
  <2> QED
    BY <1>3, <2>2, SameIndexStays
<1> QED
  BY <1>2, <1>3, StepIndex

\* The steps of the processes preserve the invariant.
LEMMA StepDInv ==
    ASSUME DInv, NEW p \in Procs, Step(p)
    PROVE  DInv'
<1>1. ASSUME NEW q \in Servers PROVE ServeSoFar(q)'
  <2>1. CASE q # p
    <3>1. pc'[q] = pc[q]
      BY <2>1, StepFrame DEF OthersStay, Procs
    <3> QED
      BY <3>1 DEF DInv, ServeSoFar
  <2>2. CASE q = p
    <3>1. CASE Serve(p)
      BY <2>2, <3>1, ServeGoes DEF DInv, Inv
    <3>2. CASE Abort(p)
      BY <2>2, <3>2 DEF DInv, Inv, TypeOK, Abort, Leave, Return, Goto, ServeSoFar
    <3> QED
      BY <2>2, <3>1, <3>2, ProcedureAssumption DEF Step
  <2> QED
    BY <2>1, <2>2
<1> QED
  BY <1>1, StepFrame, StepPhase, StepStaged, StepKeys, StepRotate, StepReindex, StepRebuilt
  DEF DInv

-----------------------------------------------------------------------------
(* What the operator's steps preserve *)

\* A step that leaves everything but the engine and the phase alone: only what
\* is said about versions and the phase is left to show.
LEMMA EngineMoves ==
    ASSUME DInv, engine' \in Engine,
           UNCHANGED <<tables, stdout, lock, revealed, pc, tx, job, env, schema, rebuilt>>,
           ~Careful \/ ~Rotating \/ engine'.version = engine.version,
           EngineInv', PhaseInv', StagedInv', KeysInv'
    PROVE  DInv'
<1>1. /\ rows' = rows /\ index' = index /\ keyrow' = keyrow /\ audit' = audit
      /\ stdout' = stdout /\ lock' = lock /\ revealed' = revealed
      /\ pc' = pc /\ tx' = tx /\ job' = job
      /\ env' = env /\ schema' = schema /\ rebuilt' = rebuilt
  BY DEF tables
<1>2. Inv'
  <2>1. TypeOK'
    BY <1>1 DEF DInv, Inv, TypeOK
  <2>2. \A p \in Procs : ProcInv(p)'
    BY <1>1 DEF DInv, Inv, ProcInv, NoneOpen, PutSoFar, ShredSoFar, RewriteSoFar, JobReady,
                EraseSoFar, New, PageIds, Live
  <2>3. NewDisjoint' /\ LiveIffKey' /\ IndexOnlyLive' /\ AuditExact'
    BY <1>1 DEF DInv, Inv, NewDisjoint, LiveIffKey, IndexOnlyLive, AuditExact, New, Stored, Live
  <2> QED
    BY <2>1, <2>2, <2>3 DEF Inv
<1>3. ASSUME NEW p \in Procs PROVE IndexSoFar(p)'
  BY <1>1 DEF DInv, IndexSoFar, Indexed, New
<1>4. ASSUME NEW p \in Servers PROVE ServeSoFar(p)'
  BY <1>1 DEF DInv, ServeSoFar
<1>5. ASSUME NEW p \in Rotators PROVE RotateSoFar(p)'
  <2>1. RotateSoFar(p) /\ PageIds(p)' = PageIds(p)
    BY <1>1 DEF DInv, PageIds
  <2>2. CASE pc[p] = "idle"
    BY <1>1, <2>1, <2>2 DEF RotateSoFar
  <2>3. CASE ~Careful \/ engine'.version = engine.version
    <3>1. /\ Current(keyrow)' <=> Current(keyrow)
          /\ Current(job[p].re)' <=> Current(job[p].re)
          /\ \A i \in Ids : /\ Current(rows[i])' <=> Current(rows[i])
                            /\ Live(i)' <=> Live(i)
                            /\ SealedOf(i)' = SealedOf(i)
                            /\ Ahead(p, i)' <=> Ahead(p, i)
      BY <1>1, <2>1, <2>3 DEF Current, Live, SealedOf, Ahead, After
    <3>2. PageIds(p) \subseteq Ids
      BY DEF PageIds
    <3> QED
      BY <1>1, <2>1, <3>1, <3>2 DEF RotateSoFar
  <2> QED
    BY <2>2, <2>3 DEF Rotating
<1>6. \A i \in Ids : (Live(i)' <=> Live(i)) /\ (Anew(i)' <=> Anew(i))
  BY <1>1 DEF Live, Anew, EntriesOf
<1>7. ASSUME NEW p \in Reindexers PROVE ReindexSoFar(p)'
  <2>1. ReindexSoFar(p) /\ PageIds(p)' = PageIds(p)
    BY <1>1 DEF DInv, PageIds
  <2>2. \A i \in Ids : Ahead(p, i)' <=> Ahead(p, i)
    BY <1>1, <2>1 DEF Ahead, After
  <2> QED
    BY <1>1, <1>6, <2>1, <2>2 DEF ReindexSoFar
<1>8. RebuiltInv'
  BY <1>1, <1>6 DEF DInv, RebuiltInv
<1> QED
  BY <1>2, <1>3, <1>4, <1>5, <1>7, <1>8 DEF DInv

\* A change begins.
LEMMA BeginChangeDInv ==
    ASSUME DInv, BeginChange
    PROVE  DInv'
<1>1. /\ TypeOK /\ EngineInv /\ PhaseInv /\ StagedInv /\ KeysInv
      /\ engine.version \in Nat \ {0} /\ engine.min \in Nat \ {0} /\ engine \in Engine
  BY DEF DInv, Inv, TypeOK, Engine
<1>2. /\ phase' = "roll" /\ phase \in {"old", "done"}
      /\ engine' = IF RotatesEngine THEN [engine EXCEPT !.version = @ + 1] ELSE engine
      /\ UNCHANGED <<tables, stdout, lock, revealed, pc, tx, job, env, schema, rebuilt>>
      /\ rows' = rows /\ keyrow' = keyrow /\ pc' = pc /\ tx' = tx
      /\ env' = env /\ schema' = schema /\ rebuilt' = rebuilt
  BY DEF BeginChange, NextRound, tables
<1>3. engine' \in Engine /\ engine'.min = engine.min /\ engine'.version >= engine.version
  BY <1>1, <1>2 DEF Engine
<1>4. ~Careful \/ ~Rotating
  BY <1>1 DEF BeginChange, NextRound, PhaseInv, Careful, Rotating
<1>5. EngineInv'
  BY <1>1, <1>2, <1>3 DEF EngineInv, Engine
<1>6. Rotating' = Rotating /\ Reindexing' = Reindexing /\ Rolled' = Rolled
      /\ (Replacing' <=> Rotating)
  BY <1>2 DEF Rotating, Reindexing, Rolled, Replacing
<1>7. PhaseInv'
  BY <1>1, <1>2, <1>6 DEF PhaseInv, Phases, Replacing
<1>8. StagedInv'
  BY <1>1, <1>2, <1>3, <1>4, <1>6 DEF StagedInv, New
<1>9. KeysInv'
  BY <1>1, <1>2, <1>3 DEF KeysInv, Kept, Live
<1> QED
  BY <1>2, <1>3, <1>4, <1>5, <1>7, <1>8, <1>9, EngineMoves

\* The old key is gone.
LEMMA RetireDInv ==
    ASSUME DInv, Retire
    PROVE  DInv'
<1>1. /\ Inv /\ TypeOK /\ EngineInv /\ PhaseInv /\ StagedInv /\ KeysInv
      /\ engine.version \in Nat \ {0} /\ engine.min \in Nat \ {0} /\ engine \in Engine
  BY DEF DInv, Inv, TypeOK, Engine
<1>2. /\ phase' = "done" /\ phase = "drop"
      /\ engine' = IF RotatesEngine THEN [engine EXCEPT !.min = engine.version] ELSE engine
      /\ UNCHANGED <<tables, stdout, lock, revealed, pc, tx, job, env, schema, rebuilt>>
      /\ rows' = rows /\ keyrow' = keyrow /\ pc' = pc /\ tx' = tx
      /\ env' = env /\ schema' = schema /\ rebuilt' = rebuilt
  BY DEF Retire, tables
<1>3. /\ engine' \in Engine /\ engine'.version = engine.version
      /\ engine'.min \in {engine.min, engine.version}
  BY <1>1, <1>2 DEF Engine
<1>4. EngineInv'
  BY <1>1, <1>2, <1>3 DEF EngineInv
<1>5. /\ Rotating' = Rotating /\ Reindexing' = Reindexing /\ Rolled' = Rolled
      /\ Replacing /\ Rolled
  BY <1>1, <1>2 DEF Rotating, Reindexing, Rolled, Replacing, PhaseInv
<1>6. PhaseInv'
  BY <1>1, <1>2, <1>5 DEF PhaseInv, Phases
<1>7. ASSUME NEW p \in Servers, NEW i \in New(p)
      PROVE  Careful /\ tx[p].rows[i].key_id \in Transit
               => tx[p].rows[i].wrapped >= engine'.min
  <2>1. tx[p].rows[i].wrapped \in Nat
    BY <1>1, OnlyPutsInsert DEF Procs
  <2>2. Careful => ~InFlight(p)
    BY <1>1, <1>5 DEF StagedInv
  <2> QED
    BY <1>1, <1>3, <2>1, <2>2 DEF InFlight, New, StagedInv
<1>8. StagedInv'
  <2>1. \A p \in Servers : InFlight(p)' <=> InFlight(p)
    BY <1>2, <1>3 DEF InFlight
  <2>2. \A p \in Servers : New(p)' = New(p)
    BY <1>2 DEF New
  <2> QED
    BY <1>1, <1>2, <1>5, <1>7, <2>1, <2>2 DEF StagedInv
<1>9. KeysInv'
  BY <1>1, <1>2, <1>3 DEF KeysInv, Kept, Current, Live
<1> QED
  BY <1>2, <1>3, <1>4, <1>6, <1>8, <1>9, EngineMoves

\* A replica is restarted.
LEMMA RestartDInv ==
    ASSUME DInv, NEW p \in Servers, RollForward(p) \/ DropOldKey(p)
    PROVE  DInv'
<1>1. PICK e \in {BothEnv, NewEnv} :
          /\ Restart(p, e, NewSchema)
          /\ <<phase, e>> \in {<<"roll", BothEnv>>, <<"drop", NewEnv>>}
  BY DEF RollForward, DropOldKey
<1>2. /\ Inv /\ TypeOK /\ EngineInv /\ PhaseInv /\ StagedInv /\ KeysInv /\ p \in Procs
      /\ NoTx \in Tx /\ NoJob \in Job /\ e \in Env
      /\ NewSchema \in [Collections -> SUBSET Fields]
  BY Types, DeploymentAssumption DEF DInv, Inv, Procs
<1>3. /\ rows' = rows /\ index' = index /\ keyrow' = keyrow /\ audit' = audit
      /\ stdout' = stdout /\ revealed' = revealed /\ engine' = engine
      /\ phase' = phase /\ rebuilt' = rebuilt /\ lock' = Unlocked(p)
      /\ env' = [env EXCEPT ![p] = e] /\ schema' = [schema EXCEPT ![p] = NewSchema]
      /\ pc' = [pc EXCEPT ![p] = "idle"] /\ job' = [job EXCEPT ![p] = NoJob]
      /\ tx' = [tx EXCEPT ![p] = NoTx]
  BY <1>1 DEF Restart, Leave, Return, Goto, Keep, Stage, tables
<1>4. /\ pc \in [Procs -> Control] /\ job \in [Procs -> Job] /\ tx \in [Procs -> Tx]
      /\ env \in [Procs -> Env] /\ schema \in [Procs -> [Collections -> SUBSET Fields]]
      /\ lock \in [Ids -> Procs \cup {None}]
  BY <1>2 DEF TypeOK
<1>5. /\ pc'[p] = "idle" /\ job'[p] = NoJob /\ tx'[p] = NoTx /\ env'[p] = e
      /\ schema'[p] = NewSchema
      /\ \A q \in Procs \ {p} : /\ pc'[q] = pc[q] /\ tx'[q] = tx[q] /\ job'[q] = job[q]
                                /\ env'[q] = env[q] /\ schema'[q] = schema[q]
  BY <1>2, <1>3, <1>4
<1>6. TypeOK'
  <2>1. /\ pc' \in [Procs -> Control] /\ job' \in [Procs -> Job] /\ tx' \in [Procs -> Tx]
    BY <1>2, <1>3, <1>4 DEF Control
  <2>2. env' \in [Procs -> Env] /\ schema' \in [Procs -> [Collections -> SUBSET Fields]]
    BY <1>2, <1>3, <1>4
  <2>3. lock' \in [Ids -> Procs \cup {None}]
    BY <1>3, <1>4 DEF Unlocked
  <2> QED
    BY <1>2, <1>3, <2>1, <2>2, <2>3 DEF TypeOK
<1>7. New(p)' = {}
  BY <1>5 DEF New, NoTx
<1>8. Inv'
  <2>1. OnlyProc(p)
    BY <1>3, <1>5 DEF OnlyProc, Unlocked
  <2>2. ProcInv(p)'
    BY <1>5, <1>7 DEF ProcInv, NoneOpen, PutSoFar, ShredSoFar, RewriteSoFar, JobReady, EraseSoFar
  <2> QED
    BY <1>2, <1>6, <1>7, <2>1, <2>2, OnlyProcInv
<1>9. ASSUME NEW q \in Procs PROVE IndexSoFar(q)'
  <2>1. CASE q = p
    BY <1>5, <2>1 DEF IndexSoFar
  <2>2. CASE q # p
    BY <1>3, <1>5, <2>2 DEF DInv, IndexSoFar, Indexed, New
  <2> QED
    BY <2>1, <2>2
<1>10. /\ \A q \in Rotators \cup Reindexers : q \in Procs \ {p}
       /\ \A q \in Procs \ Servers : q \in Procs \ {p}
  BY ProcedureAssumption DEF Procs
<1>11. /\ Rotating' <=> Rotating
       /\ Reindexing' <=> Reindexing
       /\ Replacing' <=> Replacing
       /\ Rolled => Rolled'
       /\ \A q \in Servers : q \in Procs
  BY <1>1, <1>3, <1>5, <1>10 DEF Rotating, Reindexing, Replacing, Rolled, Procs
<1>12. EngineInv'
  BY <1>2, <1>3 DEF EngineInv
<1>13. PhaseInv'
  <2>1. phase \in {"roll", "drop"}
    BY <1>1
  <2>2. ASSUME NEW q \in Servers, env'[q] = NewEnv PROVE Rolled' \/ OldEnv.current \in NewEnv.all
    <3>1. CASE q # p
      BY <1>2, <1>5, <1>11, <2>2, <3>1 DEF PhaseInv
    <3>2. CASE q = p /\ phase = "drop"
      BY <1>2, <1>11, <3>2 DEF PhaseInv, Replacing
    <3>3. CASE q = p /\ e = BothEnv
      BY <1>5, <2>2, <3>3, ProcedureAssumption
    <3> QED
      BY <1>1, <3>1, <3>2, <3>3
  <2>3. \A q \in Servers : env'[q] \in {OldEnv, BothEnv, NewEnv}
    BY <1>2, <1>5, <1>11 DEF PhaseInv
  <2>4. \A q \in Procs \ Servers : env'[q] = BothEnv /\ schema'[q] = NewSchema
    BY <1>2, <1>5, <1>10 DEF PhaseInv
  <2>5. Reindexing' \/ rebuilt' # {} => \A q \in Servers : schema'[q] = NewSchema
    BY <1>2, <1>3, <1>5, <1>11 DEF PhaseInv
  <2> QED
    BY <1>2, <1>3, <1>11, <2>1, <2>2, <2>3, <2>4, <2>5 DEF PhaseInv
<1>14. StagedInv'
  <2>1. ASSUME NEW q \in Servers, q # p
        PROVE  /\ New(q)' = New(q) /\ tx'[q] = tx[q] /\ env'[q] = env[q]
               /\ InFlight(q)' <=> InFlight(q)
    BY <1>3, <1>5, <1>11, <2>1 DEF New, InFlight
  <2>2. ~InFlight(p)'
    BY <1>5 DEF InFlight, NoTx
  <2> QED
    BY <1>2, <1>3, <1>7, <1>11, <2>1, <2>2 DEF StagedInv
<1>15. KeysInv'
  <2>1. ASSUME NEW s, Kept(s), phase = "drop" => Current(s)
        PROVE  /\ s.wrapped # Null /\ s.key_id \in BothEnv.all
               /\ phase' = "old" => s.key_id \in OldEnv.all
               /\ \A q \in Servers : env'[q] = NewEnv => s.key_id \in NewEnv.all
               /\ Careful /\ s.key_id \in Transit => s.wrapped >= engine'.min
    <3>1. ASSUME NEW q \in Servers, env'[q] = NewEnv PROVE s.key_id \in NewEnv.all
      <4>1. CASE q # p
        BY <1>5, <1>11, <2>1, <3>1, <4>1 DEF Kept
      <4>2. CASE q = p /\ phase = "drop"
        BY <2>1, <4>2, ProcedureAssumption DEF Current
      <4>3. CASE q = p /\ e = BothEnv
        BY <1>5, <2>1, <3>1, <4>3 DEF Kept
      <4> QED
        BY <1>1, <4>1, <4>2, <4>3
    <3> QED
      BY <1>1, <1>3, <2>1, <3>1 DEF Kept
  <2>2. Kept(keyrow)'
    BY <1>2, <1>3, <2>1 DEF KeysInv, Kept
  <2>3. ASSUME NEW i \in Ids, Live(i)' PROVE Kept(rows[i])'
    <3>1. Kept(rows[i]) /\ (phase = "drop" => Current(rows[i]))
      BY <1>2, <1>3, <2>3 DEF KeysInv, Live
    <3> QED
      BY <1>3, <2>1, <3>1 DEF Kept
  <2> QED
    BY <1>2, <1>3, <2>2, <2>3 DEF KeysInv, Current, Live
<1>16. ASSUME NEW q \in Servers PROVE ServeSoFar(q)'
  BY <1>5, <1>11 DEF DInv, ServeSoFar
<1>17. ASSUME NEW q \in Rotators \cup Reindexers
       PROVE  /\ pc'[q] = pc[q] /\ job'[q] = job[q] /\ PageIds(q)' = PageIds(q)
              /\ \A i \in Ids : Ahead(q, i)' <=> Ahead(q, i)
              /\ PageIds(q) \subseteq Ids
  BY <1>5, <1>10 DEF PageIds, Ahead, After
<1>18. \A i \in Ids : /\ Live(i)' <=> Live(i)
                      /\ Current(rows[i])' <=> Current(rows[i])
                      /\ SealedOf(i)' = SealedOf(i)
                      /\ Anew(i)' <=> Anew(i)
  BY <1>3 DEF Live, Current, SealedOf, Anew, EntriesOf
<1>19. ASSUME NEW q \in Rotators PROVE RotateSoFar(q)'
  <2>1. /\ Current(keyrow)' <=> Current(keyrow)
        /\ Current(job[q].re)' <=> Current(job[q].re)
    BY <1>3, <1>17 DEF Current
  <2> QED
    BY <1>3, <1>17, <1>18, <2>1 DEF DInv, RotateSoFar
<1>20. ASSUME NEW q \in Reindexers PROVE ReindexSoFar(q)'
  BY <1>3, <1>17, <1>18 DEF DInv, ReindexSoFar
<1>21. RebuiltInv'
  BY <1>3, <1>18 DEF DInv, RebuiltInv
<1> QED
  BY <1>8, <1>9, <1>12, <1>13, <1>14, <1>15, <1>16, <1>19, <1>20, <1>21 DEF DInv

-----------------------------------------------------------------------------
(* DInv is inductive *)

LEMMA InitDInv == DInit => DInv
<1> SUFFICES ASSUME DInit PROVE DInv
  OBVIOUS
<1>1. /\ Init /\ phase = "old" /\ rebuilt = {} /\ Inv
      /\ \A p \in Procs : IndexSoFar(p)
      /\ engine = [version |-> 1, min |-> 1]
      /\ \A i \in Ids : ~Live(i)
  BY InitFullInv DEF DInit, Init, FullInv, Live
<1>2. \A p \in Procs : pc[p] = "idle" /\ job[p] = NoJob /\ New(p) = {} /\ ~InFlight(p)
  BY <1>1 DEF Init, New, NoTx, InFlight
<1>3. \A p \in Procs : PageIds(p) = {}
  BY <1>2 DEF PageIds, NoJob, NoPage
<1>4. /\ \A p \in Servers : p \in Procs /\ env[p] = OldEnv
      /\ \A p \in Procs \ Servers : env[p] = BothEnv /\ schema[p] = NewSchema
  BY <1>1, DeploymentAssumption DEF Init, Procs
<1>5. ~Rotating /\ ~Reindexing /\ ~Replacing
  BY <1>1, <1>2 DEF Rotating, Reindexing, Replacing, Procs
<1>6. EngineInv
  BY <1>1 DEF EngineInv
<1>7. PhaseInv
  BY <1>1, <1>4, <1>5, ProcedureAssumption DEF PhaseInv, Phases
<1>8. StagedInv
  BY <1>2, <1>4 DEF StagedInv
<1>9. KeysInv
  <2>1. keyrow.wrapped = 1 /\ keyrow.key_id \in OldEnv.all
    BY <1>1, DeploymentAssumption, ProcedureAssumption DEF Init
  <2>2. \A p \in Servers : env[p] = NewEnv => keyrow.key_id \in NewEnv.all
    BY <1>4, <2>1
  <2>3. Kept(keyrow)
    BY <1>1, <2>1, <2>2, ProcedureAssumption DEF Kept, Null
  <2> QED
    BY <1>1, <2>3 DEF KeysInv
<1>10. \A p \in Servers : ServeSoFar(p)
  BY <1>2, <1>4 DEF ServeSoFar
<1>11. \A p \in Rotators : RotateSoFar(p)
  BY <1>2, <1>3 DEF RotateSoFar, Procs
<1>12. \A p \in Reindexers : ReindexSoFar(p)
  BY <1>2, <1>3 DEF ReindexSoFar, Procs
<1>13. RebuiltInv
  BY <1>1 DEF RebuiltInv
<1> QED
  BY <1>1, <1>6, <1>7, <1>8, <1>9, <1>10, <1>11, <1>12, <1>13 DEF DInv

LEMMA StutterDInv ==
    ASSUME DInv, UNCHANGED dvars
    PROVE  DInv'
<1>1. /\ rows' = rows /\ keyrow' = keyrow /\ pc' = pc /\ tx' = tx
      /\ env' = env /\ schema' = schema /\ engine' = engine
      /\ phase' = phase /\ rebuilt' = rebuilt
      /\ UNCHANGED <<tables, stdout, lock, revealed, pc, tx, job, env, schema, rebuilt>>
  BY DEF dvars, vars, tables, config
<1>2. engine' \in Engine /\ EngineInv' /\ PhaseInv'
  BY <1>1 DEF DInv, Inv, TypeOK, EngineInv, PhaseInv, Rotating, Reindexing, Replacing, Rolled
<1>3. StagedInv'
  BY <1>1 DEF DInv, StagedInv, New, InFlight, Replacing, Rotating
<1>4. KeysInv'
  BY <1>1 DEF DInv, KeysInv, Kept, Current, Live
<1> QED
  BY <1>1, <1>2, <1>3, <1>4, EngineMoves

LEMMA NextDInv == DInv /\ [DNext]_dvars => DInv'
<1> SUFFICES ASSUME DInv, [DNext]_dvars PROVE DInv'
  OBVIOUS
<1>1. CASE UNCHANGED dvars
  BY <1>1, StutterDInv
<1>2. CASE Operate
  BY <1>2, BeginChangeDInv, RestartDInv, RetireDInv DEF Operate
<1>3. ASSUME NEW p \in Procs, Step(p) PROVE DInv'
  BY <1>3, StepDInv
<1> QED
  BY <1>1, <1>2, <1>3, DeploymentSteps

-----------------------------------------------------------------------------
(* What the operator can rely on *)

\* The inductive invariant holds in every reachable state of a deployment.
THEOREM DInvHolds == DSpec => []DInv
BY InitDInv, NextDInv, PTL DEF DSpec

\* A run of "sealbox rotate" that exited with status 0 left no live row and no
\* blind-index key under another key, whatever the replicas stored meanwhile
\* and however many rotations ran at once.
THEOREM CleanRotationIsComplete == DSpec => []CleanMeansCurrent
<1>1. DInv => CleanMeansCurrent
  BY DEF DInv, KeysInv, Current, CleanMeansCurrent
<1> QED
  BY <1>1, DInvHolds, PTL

\* What a restarted replica holds opens everything that is live.
LEMMA KeptOpens ==
    ASSUME Careful, DInv, NEW p \in Servers, phase = "old" \/ env[p] \in {BothEnv, NewEnv},
           NEW s, Kept(s)
    PROVE  Opens(p, s)
<1>1. phase = "old" => env[p] = OldEnv
  BY DEF DInv, PhaseInv
<1>2. s.key_id \in env[p].all
  BY <1>1 DEF Kept
<1> QED
  BY <1>2 DEF Kept, Opens

LEMMA NothingIsLost == Careful /\ DInv => NothingLost
<1> SUFFICES ASSUME Careful, DInv, NEW p \in Servers,
                    phase = "old" \/ env[p] \in {BothEnv, NewEnv}
             PROVE  /\ Opens(p, keyrow)
                    /\ \A i \in Ids : Live(i) => Opens(p, SealedOf(i))
  BY DEF NothingLost
<1>1. Opens(p, keyrow)
  BY KeptOpens DEF DInv, KeysInv
<1>2. ASSUME NEW i \in Ids, Live(i) PROVE Opens(p, SealedOf(i))
  <2>1. Kept(SealedOf(i))
    BY <1>2 DEF DInv, KeysInv, Kept, SealedOf
  <2> QED
    BY <2>1, KeptOpens
<1> QED
  BY <1>1, <1>2

\* An operator who follows the procedure loses no object: every restarted
\* replica opens every live row and the blind-index key, also when the old key
\* is gone.  With versions in the engine this takes the care the documentation
\* does not ask for: requests drained, and one round settled before the next.
THEOREM ProcedureLosesNothing ==
    ASSUME Careful
    PROVE  DSpec => []NothingLost
<1>1. DInv => NothingLost
  BY NothingIsLost
<1> QED
  BY <1>1, DInvHolds, PTL

\* A reindex that exited with status 0 left every live object of its
\* collections indexed as the new schema asks, and nothing stored, deleted or
\* rebuilt later undoes that.
THEOREM CleanReindexIsComplete == DSpec => []RebuiltMeansIndexed
<1>1. DInv => RebuiltMeansIndexed
  <2> SUFFICES ASSUME DInv, NEW i \in Ids, Live(i), rows[i].collection \in rebuilt
               PROVE  {e.field : e \in EntriesOf(rows[i].collection, i)}
                        = NewSchema[rows[i].collection] \cap rows[i].has
    BY DEF RebuiltMeansIndexed
  <2> DEFINE c == rows[i].collection
             F == NewSchema[c] \cap rows[i].has
  <2>1. EntriesOf(c, i) = {[collection |-> c, field |-> f, id |-> i] : f \in F}
    BY DEF DInv, RebuiltInv, Anew
  <2>2. ASSUME NEW f \in F PROVE f \in {e.field : e \in EntriesOf(c, i)}
    <3>1. [collection |-> c, field |-> f, id |-> i] \in EntriesOf(c, i)
      BY <2>1
    <3> QED
      BY <3>1
  <2>3. ASSUME NEW e \in EntriesOf(c, i) PROVE e.field \in F
    BY <2>1
  <2> QED
    BY <2>2, <2>3
<1> QED
  BY <1>1, DInvHolds, PTL

\* A replica that has not been restarted keeps what it needs: nothing is
\* re-wrapped before every replica knows the new key.
LEMMA OldReplicaKeeps ==
    ASSUME DInv, [DNext]_dvars, NEW p \in Servers, env'[p] \notin {BothEnv, NewEnv}
    PROVE  /\ env'[p] = env[p] /\ engine'.min = engine.min /\ keyrow' = keyrow
           /\ \A i \in Ids : Live(i) /\ Live(i)' => rows'[i] = rows[i]
<1>1. TypeOK /\ PhaseInv /\ p \in Procs /\ engine \in Engine /\ env \in [Procs -> Env]
  BY DEF DInv, Inv, TypeOK, Procs
<1>2. CASE UNCHANGED dvars
  BY <1>2 DEF dvars, vars, tables, config
<1>3. CASE BeginChange
  BY <1>1, <1>3 DEF BeginChange, tables, Engine
<1>4. ASSUME Retire PROVE FALSE
  BY <1>4 DEF Retire, AllOn
<1>5. ASSUME NEW q \in Servers, RollForward(q) \/ DropOldKey(q)
      PROVE  /\ env'[p] = env[p] /\ engine'.min = engine.min /\ keyrow' = keyrow
             /\ rows' = rows
  BY <1>1, <1>5 DEF RollForward, DropOldKey, Restart, tables
<1>6. ASSUME NEW q \in Procs, Step(q)
      PROVE  /\ env'[p] = env[p] /\ engine'.min = engine.min /\ keyrow' = keyrow
             /\ \A i \in Ids : Live(i) /\ Live(i)' => rows'[i] = rows[i]
  <2>1. /\ env' = env /\ engine' = engine
        /\ keyrow' = keyrow \/ (q \in Rotators /\ RotateKeyWrite(q))
    BY <1>6, StepFrame
  <2>2. \A r \in Rotators : pc[r] = "idle"
    BY <1>1, <2>1 DEF PhaseInv, Replacing, Rotating, Rolled
  <2>3. keyrow' = keyrow
    BY <2>1, <2>2 DEF RotateKeyWrite
  <2>4. ASSUME NEW i \in Ids, Live(i), Live(i)' PROVE rows'[i] = rows[i]
    BY <1>6, <2>2, <2>4, RowMoves DEF Live
  <2> QED
    BY <2>1, <2>3, <2>4
<1> QED
  BY <1>2, <1>3, <1>4, <1>5, <1>6, DeploymentSteps DEF Operate

\* No step of the procedure, of a command or of a request takes from a replica
\* anything it could open: nothing is re-wrapped under a key that a replica
\* does not have yet, and none starts without a key that is still needed.
THEOREM NoReplicaGoesDark ==
    ASSUME Careful
    PROVE  DSpec => NeverGoesDark
<1> DEFINE Lit == \A p \in Servers :
             /\ Opens(p, keyrow) => Opens(p, keyrow)'
             /\ \A i \in Ids :
                  Live(i) /\ Opens(p, SealedOf(i)) => (Live(i) => Opens(p, SealedOf(i)))'
<1>1. DInv /\ DInv' /\ [DNext]_dvars => Lit
  <2> SUFFICES ASSUME DInv, DInv', [DNext]_dvars, NEW p \in Servers
               PROVE  /\ Opens(p, keyrow) => Opens(p, keyrow)'
                      /\ \A i \in Ids : Live(i) /\ Opens(p, SealedOf(i))
                           => (Live(i) => Opens(p, SealedOf(i)))'
    OBVIOUS
  <2>1. CASE env'[p] \in {BothEnv, NewEnv}
    <3>1. (DInv => NothingLost)'
      BY NothingIsLost, PTL
    <3> QED
      BY <2>1, <3>1 DEF NothingLost
  <2>2. CASE env'[p] \notin {BothEnv, NewEnv}
    BY <2>2, OldReplicaKeeps DEF Opens, SealedOf
  <2> QED
    BY <2>1, <2>2
<1>2. DInv /\ DInv' /\ [DNext]_dvars => [Lit]_dvars
  BY <1>1
<1> HIDE DEF Lit
<1>3. DSpec => [][Lit]_dvars
  BY <1>2, DInvHolds, PTL DEF DSpec
<1> QED
  BY <1>3 DEF NeverGoesDark, Lit
=============================================================================
