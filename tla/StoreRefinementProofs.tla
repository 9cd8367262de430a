----------------------- MODULE StoreRefinementProofs -----------------------
(***************************************************************************)
(* Store implements Vault, its answers are logged and its index is whole:  *)
(* proofs for every number of objects, keys and processes.                 *)
(***************************************************************************)
EXTENDS StoreProofs, StoreRefinement, FiniteSetTheorems

-----------------------------------------------------------------------------
(* The steps of a process, by what they do to objects, index, log, answers *)

\* Every process but p is where it was.
OthersStay(p) ==
    \A q \in Procs \ {p} : pc'[q] = pc[q] /\ tx'[q] = tx[q] /\ job'[q] = job[q]

\* Callers cannot tell that the step happened.
Unseen == rows' = rows /\ index' = index /\ audit' = audit /\ revealed' = revealed

\* A step that callers cannot see and that stages nothing that FullInv is about.
Silent(p) == Unseen /\ pc'[p] \notin {"got", "answer", "put", "rewritten"}

\* The other steps that callers cannot see.
Staging(p) ==
    \/ \E c \in Collections, i \in Ids, item \in Items : PutItem(p, c, i, item)
    \/ \E c \in Collections, S \in SUBSET Ids : GetSelect(p, c, S)
    \/ Rewrite(p)

\* The steps that callers can see.
Seen(p) ==
    \/ \E told \in BOOLEAN : \/ PutCommit(p, told) \/ ShredCommit(p, told)
                             \/ RewriteCommit(p, told) \/ GetAudit(p, told)
    \/ Respond(p)

\* A step that goes to l and leaves the tables and the answers is silent.
LEMMA SilentStep ==
    ASSUME TypeOK, NEW p \in Procs, NEW l, Goto(p, l),
           l \notin {"got", "answer", "put", "rewritten"}, UNCHANGED <<tables, revealed>>
    PROVE  Silent(p)
BY DEF TypeOK, Goto, tables, Silent, Unseen

\* The steps of a request.
LEMMA ServeKinds ==
    ASSUME Inv, NEW p \in Servers, Serve(p)
    PROVE  Silent(p) \/ Staging(p) \/ Seen(p)
<1>1. p \in Procs /\ TypeOK
  BY DEF Inv, Procs
<1>2. ASSUME NEW c \in Collections, NEW i \in Ids, DeleteUpdate(p, c, i) PROVE Silent(p)
  BY <1>1, <1>2, SilentStep DEF DeleteUpdate
<1>3. ASSUME NEW s \in Subjects, EraseBegin(p, s) PROVE Silent(p)
  BY <1>1, <1>3, SilentStep DEF EraseBegin
<1>4. ASSUME NEW i \in Ids, EraseScan(p, i) \/ Unindex(p, i) PROVE Silent(p)
  BY <1>1, <1>4 DEF EraseScan, Unindex, Silent, Unseen, tables
<1>5. ASSUME EraseLock(p) PROVE Silent(p)
  BY <1>1, <1>5 DEF EraseLock, Silent, Unseen, tables
<1>6. ASSUME EraseReturn(p) PROVE Silent(p)
  BY <1>1, <1>6, SilentStep DEF EraseReturn
<1>7. ASSUME DeadlockAbort(p) PROVE Silent(p)
  BY <1>1, <1>7, SilentStep DEF DeadlockAbort, Leave, Return
<1> QED
  BY <1>2, <1>3, <1>4, <1>5, <1>6, <1>7 DEF Serve, Staging, Seen

\* The steps of Reindex.
LEMMA ReindexKinds ==
    ASSUME Inv, NEW p \in Reindexers, Reindex(p)
    PROVE  Silent(p) \/ Staging(p) \/ Seen(p)
<1>1. p \in Procs /\ TypeOK
  BY DEF Inv, Procs
<1>2. ASSUME NEW c \in Collections \cup {None}, ReindexStart(p, c) PROVE Silent(p)
  BY <1>1, <1>2, SilentStep DEF ReindexStart
<1>3. ASSUME ReindexPage(p) PROVE Silent(p)
  BY <1>1, <1>3, SilentStep DEF ReindexPage
<1>4. ASSUME NEW i \in Ids, ReindexOpen(p, i) PROVE Silent(p)
  BY <1>1, <1>4, SilentStep DEF ReindexOpen, Resume
<1>5. ASSUME RewriteLock(p) PROVE Silent(p)
  BY <1>1, <1>5, SilentStep DEF RewriteLock, Resume
<1>6. ASSUME Exit(p) PROVE Silent(p)
  BY <1>1, <1>6, SilentStep DEF Exit, Return
<1> QED
  BY <1>2, <1>3, <1>4, <1>5, <1>6 DEF Reindex, Staging, Seen

\* The steps of Rotate.
LEMMA RotateKinds ==
    ASSUME Inv, NEW p \in Rotators, Rotate(p)
    PROVE  Silent(p) \/ RotateWrite(p)
<1>1. p \in Procs /\ TypeOK
  BY DEF Inv, Procs
<1>2. ASSUME RotateStart(p) PROVE Silent(p)
  BY <1>1, <1>2, SilentStep DEF RotateStart
<1>3. ASSUME RotateKeyRewrap(p) PROVE Silent(p)
  BY <1>1, <1>3, SilentStep DEF RotateKeyRewrap, Return
<1>4. ASSUME RotateKeyWrite(p) PROVE Silent(p)
  BY <1>1, <1>4 DEF RotateKeyWrite, TypeOK, Goto, Silent, Unseen
<1>5. ASSUME RotatePage(p) PROVE Silent(p)
  BY <1>1, <1>5, SilentStep DEF RotatePage
<1>6. ASSUME NEW i \in Ids, RotateRewrap(p, i) PROVE Silent(p)
  BY <1>1, <1>6, SilentStep DEF RotateRewrap, Resume
<1>7. ASSUME Exit(p) PROVE Silent(p)
  BY <1>1, <1>7, SilentStep DEF Exit, Return
<1> QED
  BY <1>2, <1>3, <1>4, <1>5, <1>6, <1>7 DEF Rotate

\* A step that moves only p leaves the others where they were.
LEMMA OnlyOneMoves ==
    ASSUME TypeOK, NEW p \in Procs,
           UNCHANGED pc \/ \E l : Goto(p, l),
           UNCHANGED job \/ \E j : Keep(p, j),
           UNCHANGED tx \/ \E t : Stage(p, t)
    PROVE  OthersStay(p)
BY DEF TypeOK, Goto, Keep, Stage, OthersStay

\* One process moves at a time, nobody is reconfigured, and only Rotate's UPDATE of
\* keys changes the blind-index key.
LEMMA OneMoves ==
    ASSUME TypeOK, NEW p \in Procs, Serve(p) \/ Reindex(p) \/ Rotate(p) \/ Abort(p)
    PROVE  OthersStay(p) /\ UNCHANGED config /\ (keyrow' = keyrow \/ RotateKeyWrite(p))
<1>1. CASE Serve(p)
  <2>1. CASE \E c \in Collections, i \in Ids, item \in Items : PutItem(p, c, i, item)
    BY <2>1, OnlyOneMoves DEF PutItem, config, tables
  <2>2. CASE \E told \in BOOLEAN : PutCommit(p, told) \/ ShredCommit(p, told)
    BY <2>2, OnlyOneMoves DEF PutCommit, ShredCommit, CommitTx, Return, config, tables
  <2>3. CASE \E c \in Collections, i \in Ids : DeleteUpdate(p, c, i)
    BY <2>3, OnlyOneMoves DEF DeleteUpdate, config, tables
  <2>4. CASE \E s \in Subjects : EraseBegin(p, s)
    BY <2>4, OnlyOneMoves DEF EraseBegin, config, tables
  <2>5. CASE \E i \in Ids : EraseScan(p, i) \/ Unindex(p, i)
    BY <2>5, OnlyOneMoves DEF EraseScan, Unindex, config, tables
  <2>6. CASE EraseLock(p)
    BY <2>6, OnlyOneMoves DEF EraseLock, config, tables
  <2>7. CASE EraseReturn(p)
    BY <2>7, OnlyOneMoves DEF EraseReturn, config, tables
  <2>8. CASE \E c \in Collections, S \in SUBSET Ids : GetSelect(p, c, S)
    BY <2>8, OnlyOneMoves DEF GetSelect, config, tables
  <2>9. CASE \E told \in BOOLEAN : GetAudit(p, told)
    BY <2>9, OnlyOneMoves DEF GetAudit, Return, config, tables
  <2>10. CASE Respond(p)
    BY <2>10, OnlyOneMoves DEF Respond, Return, config, tables
  <2>11. CASE DeadlockAbort(p)
    BY <2>11, OnlyOneMoves DEF DeadlockAbort, Leave, Return, config, tables
  <2> QED
    BY <1>1, <2>1, <2>2, <2>3, <2>4, <2>5, <2>6, <2>7, <2>8, <2>9, <2>10, <2>11 DEF Serve
<1>2. CASE Reindex(p)
  <2>1. CASE \E c \in Collections \cup {None} : ReindexStart(p, c)
    BY <2>1, OnlyOneMoves DEF ReindexStart, config, tables
  <2>2. CASE ReindexPage(p)
    BY <2>2, OnlyOneMoves DEF ReindexPage, config, tables
  <2>3. CASE \E i \in Ids : ReindexOpen(p, i)
    BY <2>3, OnlyOneMoves DEF ReindexOpen, Resume, config, tables
  <2>4. CASE RewriteLock(p)
    BY <2>4, OnlyOneMoves DEF RewriteLock, Resume, config, tables
  <2>5. CASE Rewrite(p)
    BY <2>5, OnlyOneMoves DEF Rewrite, config, tables
  <2>6. CASE \E told \in BOOLEAN : RewriteCommit(p, told)
    BY <2>6, OnlyOneMoves DEF RewriteCommit, CommitTx, Resume, Return, config, tables
  <2>7. CASE Exit(p)
    BY <2>7, OnlyOneMoves DEF Exit, Return, config, tables
  <2> QED
    BY <1>2, <2>1, <2>2, <2>3, <2>4, <2>5, <2>6, <2>7 DEF Reindex
<1>3. CASE Rotate(p)
  <2>1. CASE RotateStart(p)
    BY <2>1, OnlyOneMoves DEF RotateStart, config, tables
  <2>2. CASE RotateKeyRewrap(p)
    BY <2>2, OnlyOneMoves DEF RotateKeyRewrap, Return, config, tables
  <2>3. CASE RotateKeyWrite(p)
    BY <2>3, OnlyOneMoves DEF RotateKeyWrite, config, tables
  <2>4. CASE RotatePage(p)
    BY <2>4, OnlyOneMoves DEF RotatePage, config, tables
  <2>5. CASE \E i \in Ids : RotateRewrap(p, i)
    BY <2>5, OnlyOneMoves DEF RotateRewrap, Resume, Return, config, tables
  <2>6. CASE RotateWrite(p)
    BY <2>6, OnlyOneMoves DEF RotateWrite, Resume, config, tables
  <2>7. CASE Exit(p)
    BY <2>7, OnlyOneMoves DEF Exit, Return, config, tables
  <2> QED
    BY <1>3, <2>1, <2>2, <2>3, <2>4, <2>5, <2>6, <2>7 DEF Rotate
<1>4. CASE Abort(p)
  BY <1>4, OnlyOneMoves DEF Abort, Leave, Return, config, tables
<1> QED
  BY <1>1, <1>2, <1>3, <1>4

\* Every step is a step of one process, and is of one of the kinds above or
\* writes a re-wrapped key.
LEMMA Kinds ==
    ASSUME Inv, Next
    PROVE  /\ schema' = schema
           /\ \E p \in Procs : /\ OthersStay(p)
                               /\ Silent(p) \/ Staging(p) \/ Seen(p) \/ RotateWrite(p)
<1>1. TypeOK /\ Servers \subseteq Procs /\ Reindexers \subseteq Procs /\ Rotators \subseteq Procs
  BY DEF Inv, Procs
<1>2. ASSUME NEW p \in Procs, Abort(p) PROVE Silent(p)
  BY <1>1, <1>2, SilentStep DEF Abort, Leave, Return
<1>3. PICK p \in Procs : \/ p \in Servers /\ Serve(p)
                         \/ p \in Reindexers /\ Reindex(p)
                         \/ p \in Rotators /\ Rotate(p)
                         \/ Abort(p)
  BY <1>1 DEF Next
<1>4. Silent(p) \/ Staging(p) \/ Seen(p) \/ RotateWrite(p)
  BY <1>2, <1>3, ServeKinds, ReindexKinds, RotateKinds
<1>5. OthersStay(p) /\ schema' = schema
  BY <1>1, <1>3, OneMoves DEF config
<1> QED
  BY <1>4, <1>5

\* Whatever a step does to a stored object, its collection and its fields stay.
LEMMA RowsStay ==
    ASSUME Inv, Next, NEW i \in Ids, rows[i] # None
    PROVE  /\ rows'[i] # None
           /\ rows'[i].collection = rows[i].collection /\ rows'[i].has = rows[i].has
<1>1. TypeOK /\ rows \in [Ids -> Row \cup {None}] /\ rows[i] \in Row
  BY DEF Inv, TypeOK
<1>2. CASE rows' = rows
  BY <1>2
<1>3. ASSUME NEW p \in Procs, NEW told \in BOOLEAN, CommitReady(p), CommitTx(p, told)
      PROVE  /\ rows'[i] # None
             /\ rows'[i].collection = rows[i].collection /\ rows'[i].has = rows[i].has
  <2>1. i \notin New(p) /\ tx[p].rows[i] = None
    BY <1>3 DEF CommitReady, New
  <2>2. rows'[i] = IF i \in tx[p].shred THEN Shredded(rows[i]) ELSE rows[i]
    BY <1>3, <2>1 DEF CommitTx
  <2>3. /\ Shredded(rows[i]) \in Row /\ Shredded(rows[i]).has = rows[i].has
        /\ Shredded(rows[i]).collection = rows[i].collection
    BY <1>1 DEF Shredded, Row, Null
  <2> QED
    BY <2>2, <2>3, NoneAssumption
<1>4. ASSUME NEW p \in Rotators, RotateWrite(p)
      PROVE  /\ rows'[i] # None
             /\ rows'[i].collection = rows[i].collection /\ rows'[i].has = rows[i].has
  <2>1. job[p] \in Job /\ job[p].cur \in Ids /\ job[p].re \in Sealed
    BY <1>4 DEF RotateWrite, Inv, Procs, TypeOK, ProcInv, JobReady, Job
  <2>2. \/ rows' = rows
        \/ rows' = [rows EXCEPT ![job[p].cur] = Rewritten(@, job[p].re)]
    BY <1>4 DEF RotateWrite
  <2>3. /\ Rewritten(rows[i], job[p].re) \in Row
        /\ Rewritten(rows[i], job[p].re).has = rows[i].has
        /\ Rewritten(rows[i], job[p].re).collection = rows[i].collection
    BY <1>1, <2>1 DEF Rewritten, Row, Sealed
  <2> QED
    BY <1>1, <2>1, <2>2, <2>3, NoneAssumption
<1> QED
  BY <1>2, <1>3, <1>4, StepKinds DEF GetAudit

-----------------------------------------------------------------------------
(* Every answer has a reveal line *)

\* A step after which p does not wait to answer, which takes no reveal line
\* away and gives no answer.
LEMMA NoAnswerCounted ==
    ASSUME TypeOK, TypeOK', RevealsCounted, NEW p \in Procs, OthersStay(p),
           pc'[p] # "answer", revealed' = revealed,
           \A i \in Ids : audit'[<<"reveal", i>>] >= audit[<<"reveal", i>>]
    PROVE  RevealsCounted'
<1> SUFFICES ASSUME NEW i \in Ids
             PROVE  /\ IsFiniteSet(Waiting(i)')
                    /\ revealed'[i] + Cardinality(Waiting(i)') <= audit'[<<"reveal", i>>]
  BY DEF RevealsCounted
<1>1. IsFiniteSet(Waiting(i)) /\ revealed[i] + Cardinality(Waiting(i)) <= audit[<<"reveal", i>>]
  BY DEF RevealsCounted
<1>2. Waiting(i)' \subseteq Waiting(i)
  BY DEF Waiting, OthersStay, PageIds
<1>3. /\ IsFiniteSet(Waiting(i)') /\ Cardinality(Waiting(i)') <= Cardinality(Waiting(i))
      /\ Cardinality(Waiting(i)') \in Nat /\ Cardinality(Waiting(i)) \in Nat
  BY <1>1, <1>2, FS_Subset, FS_CardinalityType
<1>4. /\ revealed[i] \in Nat /\ audit[<<"reveal", i>>] \in Nat /\ audit'[<<"reveal", i>>] \in Nat
      /\ audit'[<<"reveal", i>>] >= audit[<<"reveal", i>>] /\ revealed'[i] = revealed[i]
  BY Lines DEF TypeOK
<1> QED
  BY <1>1, <1>3, <1>4

\* A reveal is logged, and p waits to answer it; or it fails.
LEMMA GetAuditCounted ==
    ASSUME Inv, Inv', RevealsCounted, NEW p \in Procs, NEW told \in BOOLEAN,
           GetAudit(p, told), OthersStay(p)
    PROVE  RevealsCounted'
<1> DEFINE log == {<<"reveal", i>> : i \in PageIds(p)}
<1>1. TypeOK /\ TypeOK' /\ log \in SUBSET Line /\ revealed' = revealed
  BY Lines DEF Inv, PageIds, GetAudit
<1>2. \A i \in Ids : /\ audit[<<"reveal", i>>] \in Nat
                     /\ Appended(log)[<<"reveal", i>>] =
                          IF i \in PageIds(p) THEN audit[<<"reveal", i>>] + 1
                          ELSE audit[<<"reveal", i>>]
  <2>1. \A i \in Ids : <<"reveal", i>> \in log <=> i \in PageIds(p)
    OBVIOUS
  <2> HIDE DEF log
  <2>2. \A l \in Line : /\ audit[l] \in Nat
                        /\ Appended(log)[l] = IF l \in log THEN audit[l] + 1 ELSE audit[l]
    BY <1>1, AppendedType DEF TypeOK
  <2> QED
    BY <2>1, <2>2, Lines
<1>3. CASE pc'[p] # "answer"
  <2>1. audit' = audit \/ audit' = Appended(log)
    BY DEF GetAudit
  <2> HIDE DEF log
  <2>2. ASSUME NEW i \in Ids PROVE audit'[<<"reveal", i>>] >= audit[<<"reveal", i>>]
    <3>1. CASE audit' = audit
      BY <1>2, <3>1
    <3>2. CASE audit' = Appended(log)
      BY <1>2, <3>2
    <3> QED
      BY <2>1, <3>1, <3>2
  <2> QED
    BY <1>1, <1>3, <2>2, NoAnswerCounted
<1>4. CASE pc'[p] = "answer"
  <2>1. pc \in [Procs -> Control]
    BY <1>1 DEF TypeOK
  <2>2. ~Return(p)
    BY <1>4, <2>1 DEF Return, Goto
  <2>3. audit' = Appended(log) /\ pc[p] = "got" /\ job' = job
    BY <2>2 DEF GetAudit
  <2> HIDE DEF log
  <2> SUFFICES ASSUME NEW i \in Ids
               PROVE  /\ IsFiniteSet(Waiting(i)')
                      /\ revealed'[i] + Cardinality(Waiting(i)') <= audit'[<<"reveal", i>>]
    BY DEF RevealsCounted
  <2>4. /\ IsFiniteSet(Waiting(i))
        /\ revealed[i] + Cardinality(Waiting(i)) <= audit[<<"reveal", i>>]
        /\ revealed[i] \in Nat
    BY <1>1 DEF RevealsCounted, TypeOK
  <2>5. CASE i \in PageIds(p)
    <3>1. Waiting(i)' = Waiting(i) \cup {p} /\ p \notin Waiting(i)
      BY <1>4, <2>3, <2>5 DEF Waiting, OthersStay, PageIds
    <3>2. /\ IsFiniteSet(Waiting(i)') /\ Cardinality(Waiting(i)') = Cardinality(Waiting(i)) + 1
          /\ Cardinality(Waiting(i)) \in Nat
      BY <2>4, <3>1, FS_AddElement, FS_CardinalityType
    <3> QED
      BY <1>1, <1>2, <2>3, <2>4, <2>5, <3>2
  <2>6. CASE i \notin PageIds(p)
    <3>1. Waiting(i)' = Waiting(i)
      BY <1>4, <2>3, <2>6 DEF Waiting, OthersStay, PageIds
    <3> QED
      BY <1>1, <1>2, <2>3, <2>4, <2>6, <3>1
  <2> QED
    BY <2>5, <2>6
<1> QED
  BY <1>3, <1>4

\* The answer is given: p waits no more.
LEMMA RespondCounted ==
    ASSUME Inv, RevealsCounted, NEW p \in Procs, Respond(p), OthersStay(p)
    PROVE  RevealsCounted'
<1>1. TypeOK /\ pc \in [Procs -> Control] /\ revealed \in [Ids -> Nat]
  BY DEF Inv, TypeOK
<1>2. pc[p] = "answer" /\ pc'[p] = "idle" /\ audit' = audit
  BY <1>1 DEF Respond, Return, Goto, tables
<1> SUFFICES ASSUME NEW i \in Ids
             PROVE  /\ IsFiniteSet(Waiting(i)')
                    /\ revealed'[i] + Cardinality(Waiting(i)') <= audit'[<<"reveal", i>>]
  BY DEF RevealsCounted
<1>3. /\ IsFiniteSet(Waiting(i))
      /\ revealed[i] + Cardinality(Waiting(i)) <= audit[<<"reveal", i>>]
      /\ revealed[i] \in Nat /\ audit[<<"reveal", i>>] \in Nat
  BY <1>1, Lines DEF RevealsCounted, TypeOK
<1>4. Waiting(i)' = Waiting(i) \ {p}
  BY <1>2 DEF Waiting, OthersStay, PageIds
<1>5. revealed'[i] = IF i \in PageIds(p) THEN revealed[i] + 1 ELSE revealed[i]
  BY <1>1 DEF Respond
<1>6. p \in Waiting(i) <=> i \in PageIds(p)
  BY <1>2 DEF Waiting
<1>7. /\ IsFiniteSet(Waiting(i)') /\ Cardinality(Waiting(i)) \in Nat
      /\ Cardinality(Waiting(i)') =
           IF p \in Waiting(i) THEN Cardinality(Waiting(i)) - 1 ELSE Cardinality(Waiting(i))
  BY <1>3, <1>4, FS_RemoveElement, FS_CardinalityType
<1> QED
  BY <1>2, <1>3, <1>5, <1>6, <1>7

\* Every step keeps count of the answers.
LEMMA CountedStep ==
    ASSUME Inv, Inv', RevealsCounted, NEW p \in Procs, OthersStay(p),
           Silent(p) \/ Staging(p) \/ Seen(p) \/ RotateWrite(p)
    PROVE  RevealsCounted'
<1>1. TypeOK /\ TypeOK' /\ pc \in [Procs -> Control] /\ audit \in [Line -> Nat]
  BY DEF Inv, TypeOK
<1>2. ASSUME pc'[p] # "answer", revealed' = revealed, audit' = audit PROVE RevealsCounted'
  <2>1. \A i \in Ids : audit[<<"reveal", i>>] \in Nat
    BY <1>1, Lines
  <2>2. ASSUME NEW i \in Ids PROVE audit'[<<"reveal", i>>] >= audit[<<"reveal", i>>]
    BY <1>2, <2>1
  <2> QED
    BY <1>1, <1>2, <2>2, NoAnswerCounted
<1>3. CASE Silent(p)
  BY <1>2, <1>3 DEF Silent, Unseen
<1>4. CASE Staging(p)
  BY <1>1, <1>2, <1>4 DEF Staging, PutItem, GetSelect, Rewrite, Goto, tables
<1>5. CASE RotateWrite(p)
  BY <1>1, <1>2, <1>5 DEF RotateWrite, Resume, Goto
<1>6. ASSUME NEW told \in BOOLEAN,
             PutCommit(p, told) \/ ShredCommit(p, told) \/ RewriteCommit(p, told)
      PROVE  RevealsCounted'
  <2>1. audit' = Appended(tx[p].log) /\ revealed' = revealed /\ tx[p].log \in SUBSET Line
    BY <1>1, <1>6 DEF PutCommit, ShredCommit, RewriteCommit, CommitTx, TypeOK, Tx
  <2>2. pc'[p] # "answer"
    BY <1>1, <1>6 DEF PutCommit, ShredCommit, RewriteCommit, Return, Resume, Goto
  <2>3. \A l \in Line : audit[l] \in Nat /\ audit'[l] >= audit[l]
    BY <1>1, <2>1, AppendedType
  <2> QED
    BY <1>1, <2>1, <2>2, <2>3, Lines, NoAnswerCounted
<1> QED
  BY <1>3, <1>4, <1>5, <1>6, GetAuditCounted, RespondCounted DEF Seen

-----------------------------------------------------------------------------
(* The index rows of an object are complete *)

\* Only the three steps of Staging lead to a read page, a staged object or a
\* staged rewrite.
LEMMA StagedBy ==
    ASSUME TypeOK, NEW p \in Procs, Silent(p) \/ Seen(p) \/ RotateWrite(p)
    PROVE  pc'[p] \notin {"got", "put", "rewritten"}
<1>1. pc \in [Procs -> Control]
  BY DEF TypeOK
<1>2. ASSUME NEW l, Goto(p, l) PROVE pc'[p] = l
  BY <1>1, <1>2 DEF Goto
<1>3. CASE Silent(p)
  BY <1>3 DEF Silent
<1>4. CASE Seen(p)
  BY <1>2, <1>4 DEF Seen, PutCommit, ShredCommit, RewriteCommit, GetAudit, Respond,
                    Return, Resume
<1>5. CASE RotateWrite(p)
  BY <1>2, <1>5 DEF RotateWrite, Resume
<1> QED
  BY <1>3, <1>4, <1>5

\* The objects that GetMany read stay stored.
LEMMA ReadStep ==
    ASSUME Inv, Next, \A q \in Procs : ReadSoFar(q), NEW p \in Procs, OthersStay(p),
           Silent(p) \/ Staging(p) \/ Seen(p) \/ RotateWrite(p)
    PROVE  \A q \in Procs : ReadSoFar(q)'
<1>1. TypeOK /\ Stored \subseteq Stored'
  BY RowsStay DEF Inv, Stored
<1>2. ASSUME NEW q \in Procs \ {p} PROVE ReadSoFar(q)'
  BY <1>1 DEF ReadSoFar, OthersStay, PageIds
<1>3. ReadSoFar(p)'
  <2>1. pc \in [Procs -> Control] /\ job \in [Procs -> Job]
    BY <1>1 DEF TypeOK
  <2>2. ASSUME NEW c \in Collections, NEW S \in SUBSET Ids, GetSelect(p, c, S)
        PROVE  ReadSoFar(p)'
    <3> DEFINE F == {i \in S : Live(i) /\ rows[i].collection = c}
    <3>1. F \in SUBSET Ids /\ \A i \in F : rows[i] # None
      BY DEF Live
    <3>2. job'[p].page = ReadPage(F)
      BY <2>1, <2>2 DEF GetSelect, Keep, Job
    <3> HIDE DEF F
    <3>3. PageIds(p)' \subseteq F
      BY <1>1, <3>1, <3>2, ReadPageType DEF PageIds
    <3> QED
      BY <1>1, <3>1, <3>3 DEF ReadSoFar, Stored
  <2>3. ASSUME Rewrite(p) \/ \E c \in Collections, i \in Ids, item \in Items :
                                PutItem(p, c, i, item)
        PROVE  ReadSoFar(p)'
    BY <2>1, <2>3 DEF Rewrite, PutItem, Goto, ReadSoFar
  <2>4. CASE Silent(p) \/ Seen(p) \/ RotateWrite(p)
    BY <1>1, <2>4, StagedBy DEF ReadSoFar
  <2> QED
    BY <2>2, <2>3, <2>4 DEF Staging
<1> QED
  BY <1>2, <1>3

\* PutMany stages all the index rows of one more object.
LEMMA PutItemIndex ==
    ASSUME Inv, NEW p \in Procs, IndexSoFar(p), NEW c \in Collections, NEW i \in Ids,
           NEW item \in Items, PutItem(p, c, i, item)
    PROVE  IndexSoFar(p)'
<1> DEFINE r == NewRow(c, item, WrapUnder(env[p].current))
           E == Indexed(p, c, i, item.has)
<1>1. /\ TypeOK /\ tx[p] \in Tx /\ pc \in [Procs -> Control] /\ tx \in [Procs -> Tx]
      /\ WrapUnder(env[p].current) \in Sealed
  BY Types DEF Inv, TypeOK
<1>2. item.subject \in Subjects \cup {None} /\ item.has \in SUBSET Fields
  BY ConstantsAssumption
<1>3. r # None /\ r.collection = c /\ r.has = item.has
  <2>1. r \in Row
    BY <1>1, <1>2 DEF Row, Sealed, NewRow
  <2> QED
    BY <2>1, NoneAssumption DEF NewRow
<1>4. \A e \in E : e.id = i
  BY <1>1, <1>2, IndexedType
<1>5. /\ pc'[p] = "put" /\ schema' = schema
      /\ tx'[p].rows = [tx[p].rows EXCEPT ![i] = r]
      /\ tx'[p].adds = tx[p].adds \cup E
  BY <1>1 DEF PutItem, Goto, Stage, Tx, config
<1> HIDE DEF r, E
<1>6. /\ i \notin New(p) /\ \A e \in tx[p].adds : e.id \in New(p)
      /\ \A j \in New(p) : {e \in tx[p].adds : e.id = j}
                             = Indexed(p, tx[p].rows[j].collection, j, tx[p].rows[j].has)
  <2>1. i \notin New(p)
    BY DEF PutItem, Fresh, New
  <2>2. CASE pc[p] = "put"
    BY <2>1, <2>2 DEF Inv, ProcInv, PutSoFar, IndexSoFar
  <2>3. CASE pc[p] = "idle"
    BY <2>1, <2>3 DEF Inv, ProcInv, NoneOpen, NoTx, New
  <2> QED
    BY <2>2, <2>3 DEF PutItem
<1>7. New(p)' = New(p) \cup {i} /\ New(p) \subseteq Ids
  BY <1>1, <1>3, <1>5 DEF New, Tx
<1>8. ASSUME NEW j \in New(p)'
      PROVE  {e \in tx'[p].adds : e.id = j}
               = Indexed(p, tx'[p].rows[j].collection, j, tx'[p].rows[j].has)
  <2>1. CASE j = i
    <3>1. tx'[p].rows[j] = r
      BY <1>1, <1>5, <2>1 DEF Tx
    <3>2. {e \in tx'[p].adds : e.id = j} = E
      BY <1>4, <1>5, <1>6, <2>1
    <3> QED
      BY <1>3, <2>1, <3>1, <3>2 DEF E
  <2>2. CASE j # i
    <3>1. j \in New(p) /\ tx'[p].rows[j] = tx[p].rows[j]
      BY <1>1, <1>5, <1>7, <2>2 DEF Tx
    <3>2. {e \in tx'[p].adds : e.id = j} = {e \in tx[p].adds : e.id = j}
      BY <1>4, <1>5, <2>2
    <3> QED
      BY <1>6, <3>1, <3>2
  <2> QED
    BY <2>1, <2>2
<1>9. \A j : Indexed(p, tx'[p].rows[j].collection, j, tx'[p].rows[j].has)
             = Indexed(p, tx[p].rows[j].collection, j, tx[p].rows[j].has)'
  BY <1>5 DEF Indexed
<1> QED
  BY <1>5, <1>8, <1>9 DEF IndexSoFar

\* rewriteIndex stages all the index rows of the object it holds.
LEMMA RewriteIndex ==
    ASSUME Inv, NEW p \in Procs, Rewrite(p)
    PROVE  IndexSoFar(p)'
<1>1. tx \in [Procs -> Tx] /\ pc \in [Procs -> Control]
  BY DEF Inv, TypeOK
<1>2. /\ pc'[p] = "rewritten" /\ schema' = schema /\ job' = job /\ rows' = rows
      /\ tx'[p].adds = Indexed(p, rows[job[p].cur].collection, job[p].cur,
                               rows[job[p].cur].has)
  BY <1>1 DEF Rewrite, Goto, Stage, Tx, config, tables
<1> QED
  BY <1>2 DEF IndexSoFar, Indexed

\* What a process has staged for the index stays complete.
LEMMA IndexStep ==
    ASSUME Inv, Next, \A q \in Procs : IndexSoFar(q), NEW p \in Procs, OthersStay(p),
           schema' = schema, Silent(p) \/ Staging(p) \/ Seen(p) \/ RotateWrite(p)
    PROVE  \A q \in Procs : IndexSoFar(q)'
<1>1. TypeOK /\ job \in [Procs -> Job]
  BY DEF Inv, TypeOK
<1>2. ASSUME NEW q \in Procs \ {p} PROVE IndexSoFar(q)'
  <2>1. pc'[q] = pc[q] /\ tx'[q] = tx[q] /\ job'[q] = job[q] /\ New(q)' = New(q)
    BY DEF OthersStay, New
  <2>2. CASE pc[q] = "put"
    BY <2>1, <2>2 DEF IndexSoFar, Indexed
  <2>3. CASE pc[q] = "rewritten"
    <3>1. job[q].cur \in Ids /\ rows[job[q].cur] # None
      BY <1>1, <2>3 DEF Inv, ProcInv, RewriteSoFar, Live, Job
    <3>2. /\ rows'[job[q].cur].collection = rows[job[q].cur].collection
          /\ rows'[job[q].cur].has = rows[job[q].cur].has
      BY <3>1, RowsStay
    <3> QED
      BY <2>1, <2>3, <3>2 DEF IndexSoFar, Indexed
  <2> QED
    BY <2>1, <2>2, <2>3 DEF IndexSoFar
<1>3. IndexSoFar(p)'
  <2>1. ASSUME NEW c \in Collections, NEW S \in SUBSET Ids, GetSelect(p, c, S)
        PROVE  IndexSoFar(p)'
    BY <1>1, <2>1 DEF GetSelect, Goto, TypeOK, IndexSoFar
  <2>2. CASE Silent(p) \/ Seen(p) \/ RotateWrite(p)
    BY <1>1, <2>2, StagedBy DEF IndexSoFar
  <2> QED
    BY <2>1, <2>2, PutItemIndex, RewriteIndex DEF Staging
<1> QED
  BY <1>2, <1>3

\* An object that is live after a step is indexed as before if the step touches
\* neither its index rows nor what they depend on.
LEMMA SameEntries ==
    ASSUME Inv, IndexWhole, schema' = schema, NEW i \in Ids, Live(i),
           rows'[i].collection = rows[i].collection, rows'[i].has = rows[i].has,
           \A e : e.id = i => (e \in index' <=> e \in index)
    PROVE  \E q \in Procs : EntriesOf(rows[i].collection, i)'
                              = Indexed(q, rows[i].collection, i, rows[i].has)'
<1>1. PICK q \in Procs : EntriesOf(rows[i].collection, i)
                           = Indexed(q, rows[i].collection, i, rows[i].has)
  BY DEF IndexWhole, Live, Stored
<1>2. EntriesOf(rows[i].collection, i)' = EntriesOf(rows[i].collection, i)
  BY DEF EntriesOf
<1>3. Indexed(q, rows[i].collection, i, rows[i].has)'
        = Indexed(q, rows[i].collection, i, rows[i].has)
  BY DEF Indexed
<1> QED
  BY <1>1, <1>2, <1>3

\* PutMany commits: its objects have all their index rows, the others theirs.
LEMMA PutCommitWhole ==
    ASSUME Inv, IndexWhole, schema' = schema, NEW p \in Procs, IndexSoFar(p),
           NEW told \in BOOLEAN, PutCommit(p, told)
    PROVE  IndexWhole'
<1>1. CommitReady(p) /\ CommitTx(p, told) /\ pc[p] = "put"
  BY PutCommitReady DEF PutCommit
<1>2. /\ tx[p].shred = {} /\ tx[p].dels = {} /\ index' = (index \ tx[p].dels) \cup tx[p].adds
      /\ \A e \in tx[p].adds : /\ e.id \in New(p)
                               /\ tx[p].rows[e.id].collection = e.collection
      /\ \A k \in New(p) : {e \in tx[p].adds : e.id = k}
                             = Indexed(p, tx[p].rows[k].collection, k, tx[p].rows[k].has)
  BY <1>1 DEF Inv, ProcInv, PutSoFar, IndexSoFar, CommitTx
<1> SUFFICES ASSUME NEW i \in Ids, Live(i)'
             PROVE  \E q \in Procs : EntriesOf(rows[i].collection, i)'
                                       = Indexed(q, rows[i].collection, i, rows[i].has)'
  BY DEF IndexWhole, Stored
<1>3. CASE i \in New(p)
  <2>1. rows[i] = None /\ rows'[i] = tx[p].rows[i]
    BY <1>1, <1>3, CommittedRow
  <2>2. \A e \in index : e.id # i
    BY <2>1 DEF Inv, IndexOnlyLive, Live
  <2>3. EntriesOf(rows[i].collection, i)' = {e \in tx[p].adds : e.id = i}
    BY <1>2, <2>1, <2>2 DEF EntriesOf
  <2>4. Indexed(p, rows[i].collection, i, rows[i].has)'
          = Indexed(p, tx[p].rows[i].collection, i, tx[p].rows[i].has)
    BY <2>1 DEF Indexed
  <2> QED
    BY <1>2, <1>3, <2>3, <2>4
<1>4. CASE i \notin New(p)
  <2>1. rows'[i] = rows[i]
    BY <1>1, <1>2, <1>4, CommittedRow
  <2>2. Live(i) /\ \A e : e.id = i => (e \in index' <=> e \in index)
    BY <1>2, <1>4, <2>1 DEF Live
  <2> QED
    BY <2>1, <2>2, SameEntries
<1> QED
  BY <1>3, <1>4

\* Delete and DeleteSubject commit: they unindex what they shred.
LEMMA ShredCommitWhole ==
    ASSUME Inv, IndexWhole, schema' = schema, NEW p \in Procs,
           NEW told \in BOOLEAN, ShredCommit(p, told)
    PROVE  IndexWhole'
<1>1. CommitReady(p) /\ CommitTx(p, told) /\ pc[p] = "unindex"
  BY ShredCommitReady DEF ShredCommit
<1>2. /\ New(p) = {} /\ tx[p].adds = {} /\ index' = (index \ tx[p].dels) \cup tx[p].adds
      /\ \A e \in tx[p].dels : e.id \in tx[p].shred
  BY <1>1 DEF Inv, ProcInv, ShredSoFar, CommitTx
<1> SUFFICES ASSUME NEW i \in Ids, Live(i)'
             PROVE  \E q \in Procs : EntriesOf(rows[i].collection, i)'
                                       = Indexed(q, rows[i].collection, i, rows[i].has)'
  BY DEF IndexWhole, Stored
<1>3. i \notin tx[p].shred /\ rows'[i] = rows[i]
  BY <1>1, <1>2, CommittedRow DEF Live
<1>4. Live(i) /\ \A e : e.id = i => (e \in index' <=> e \in index)
  BY <1>2, <1>3 DEF Live
<1> QED
  BY <1>3, <1>4, SameEntries

\* rewriteIndex commits: the old index rows go and the new ones come at once.
LEMMA RewriteCommitWhole ==
    ASSUME Inv, IndexWhole, schema' = schema, NEW p \in Procs, IndexSoFar(p),
           NEW told \in BOOLEAN, RewriteCommit(p, told)
    PROVE  IndexWhole'
<1>1. CommitReady(p) /\ CommitTx(p, told) /\ pc[p] = "rewritten"
  BY RewriteCommitReady DEF RewriteCommit
<1>2. /\ New(p) = {} /\ tx[p].shred = {} /\ index' = (index \ tx[p].dels) \cup tx[p].adds
      /\ \A e \in tx[p].dels : e.id = job[p].cur
      /\ \A e \in index : e.id = job[p].cur => e \in tx[p].dels
      /\ \A e \in tx[p].adds : /\ e.id = job[p].cur
                               /\ e.collection = rows[e.id].collection
      /\ tx[p].adds = Indexed(p, rows[job[p].cur].collection, job[p].cur,
                              rows[job[p].cur].has)
  BY <1>1 DEF Inv, ProcInv, RewriteSoFar, IndexSoFar, CommitTx
<1> SUFFICES ASSUME NEW i \in Ids, Live(i)'
             PROVE  \E q \in Procs : EntriesOf(rows[i].collection, i)'
                                       = Indexed(q, rows[i].collection, i, rows[i].has)'
  BY DEF IndexWhole, Stored
<1>3. rows'[i] = rows[i] /\ Live(i)
  BY <1>1, <1>2, CommittedRow DEF Live
<1>4. CASE i = job[p].cur
  <2>1. EntriesOf(rows[i].collection, i)' = tx[p].adds
    BY <1>2, <1>3, <1>4 DEF EntriesOf
  <2>2. Indexed(p, rows[i].collection, i, rows[i].has)' = tx[p].adds
    BY <1>2, <1>3, <1>4 DEF Indexed
  <2> QED
    BY <2>1, <2>2
<1>5. CASE i # job[p].cur
  <2>1. \A e : e.id = i => (e \in index' <=> e \in index)
    BY <1>2, <1>5
  <2> QED
    BY <1>3, <2>1, SameEntries
<1> QED
  BY <1>4, <1>5

\* Every step leaves the index of every live object whole.
LEMMA WholeStep ==
    ASSUME Inv, Next, IndexWhole, schema' = schema, NEW p \in Procs, IndexSoFar(p),
           Silent(p) \/ Staging(p) \/ Seen(p) \/ RotateWrite(p)
    PROVE  IndexWhole'
<1>1. ASSUME index' = index, \A i \in Ids : Live(i)' => Live(i) PROVE IndexWhole'
  <2> SUFFICES ASSUME NEW i \in Ids, Live(i)'
               PROVE  \E q \in Procs : EntriesOf(rows[i].collection, i)'
                                         = Indexed(q, rows[i].collection, i, rows[i].has)'
    BY DEF IndexWhole, Stored
  <2>1. Live(i) /\ rows'[i].collection = rows[i].collection /\ rows'[i].has = rows[i].has
    BY <1>1, RowsStay DEF Live
  <2> QED
    BY <1>1, <2>1, SameEntries
<1>2. CASE Silent(p) \/ Staging(p)
  BY <1>1, <1>2 DEF Silent, Unseen, Staging, PutItem, GetSelect, Rewrite, tables, Live
<1>3. CASE Respond(p) \/ \E told \in BOOLEAN : GetAudit(p, told)
  BY <1>1, <1>3 DEF Respond, GetAudit, tables, Live
<1>4. CASE RotateWrite(p)
  <2>1. rows \in [Ids -> Row \cup {None}] /\ job[p].cur \in Ids
    BY <1>4 DEF Inv, TypeOK, ProcInv, JobReady, RotateWrite, Job
  <2>2. /\ index' = index
        /\ \/ rows' = rows
           \/ /\ Live(job[p].cur)
              /\ rows' = [rows EXCEPT ![job[p].cur] = Rewritten(@, job[p].re)]
    BY <1>4 DEF RotateWrite, RotateMatches
  <2>3. \A i \in Ids : Live(i)' => Live(i)
    BY <2>1, <2>2 DEF Live
  <2> QED
    BY <1>1, <2>2, <2>3
<1> QED
  BY <1>2, <1>3, <1>4, PutCommitWhole, ShredCommitWhole, RewriteCommitWhole DEF Seen

-----------------------------------------------------------------------------
(* FullInv is inductive *)

\* Before the first request nobody waits and nothing is indexed.
LEMMA InitFullInv == Init => FullInv
<1> SUFFICES ASSUME Init PROVE FullInv
  OBVIOUS
<1>1. Inv
  BY InitInv
<1>2. RevealsCounted
  <2> SUFFICES ASSUME NEW i \in Ids
               PROVE  /\ IsFiniteSet(Waiting(i))
                      /\ revealed[i] + Cardinality(Waiting(i)) <= audit[<<"reveal", i>>]
    BY DEF RevealsCounted
  <2>1. Waiting(i) = {}
    BY DEF Init, Waiting
  <2>2. revealed[i] = 0 /\ audit[<<"reveal", i>>] = 0
    BY Lines DEF Init
  <2> QED
    BY <2>1, <2>2, FS_EmptySet
<1>3. \A p \in Procs : ReadSoFar(p) /\ IndexSoFar(p)
  BY DEF Init, ReadSoFar, IndexSoFar
<1>4. IndexWhole
  BY DEF Init, IndexWhole, Stored
<1> QED
  BY <1>1, <1>2, <1>3, <1>4 DEF FullInv

\* Every step keeps FullInv.
LEMMA NextFullInv == FullInv /\ [Next]_vars => FullInv'
<1> SUFFICES ASSUME FullInv, [Next]_vars PROVE FullInv'
  OBVIOUS
<1>1. Inv /\ Inv'
  BY NextInv DEF FullInv
<1>2. CASE Next
  <2>1. schema' = schema
    BY <1>1, <1>2, Kinds
  <2>2. PICK p \in Procs : /\ OthersStay(p)
                           /\ Silent(p) \/ Staging(p) \/ Seen(p) \/ RotateWrite(p)
    BY <1>1, <1>2, Kinds
  <2>3. RevealsCounted'
    BY <1>1, <2>2, CountedStep DEF FullInv
  <2>4. \A q \in Procs : ReadSoFar(q)'
    BY <1>1, <1>2, <2>2, ReadStep DEF FullInv
  <2>5. \A q \in Procs : IndexSoFar(q)'
    BY <1>1, <1>2, <2>1, <2>2, IndexStep DEF FullInv
  <2>6. IndexWhole'
    BY <1>1, <1>2, <2>1, <2>2, WholeStep DEF FullInv
  <2> QED
    BY <1>1, <2>3, <2>4, <2>5, <2>6 DEF FullInv
<1>3. CASE UNCHANGED vars
  <2>1. /\ rows' = rows /\ index' = index /\ audit' = audit /\ revealed' = revealed
        /\ pc' = pc /\ tx' = tx /\ job' = job /\ schema' = schema
    BY <1>3 DEF vars, tables, config
  <2>2. \A i \in Ids : Waiting(i)' = Waiting(i)
    BY <2>1 DEF Waiting, PageIds
  <2>3. RevealsCounted'
    BY <2>1, <2>2 DEF FullInv, RevealsCounted
  <2>4. \A q \in Procs : ReadSoFar(q)'
    BY <2>1 DEF FullInv, ReadSoFar, PageIds, Stored
  <2>5. \A q \in Procs : IndexSoFar(q)'
    BY <2>1 DEF FullInv, IndexSoFar, New, Indexed
  <2>6. IndexWhole'
    BY <2>1 DEF FullInv, IndexWhole, Stored, Live, EntriesOf, Indexed
  <2> QED
    BY <1>1, <2>3, <2>4, <2>5, <2>6 DEF FullInv
<1> QED
  BY <1>2, <1>3

\* The stronger inductive invariant holds in every reachable state.
THEOREM FullInvHolds == Spec => []FullInv
BY InitFullInv, NextFullInv, PTL DEF Spec

\* No plaintext leaves the server more often than audit_log says it did: a
\* request answers only after its own line is committed, and two requests that
\* reveal the same object never share a line.
THEOREM RevealsAreAudited == Spec => []RevealAudited
<1>1. FullInv => RevealAudited
  <2> SUFFICES ASSUME FullInv, NEW i \in Ids PROVE revealed[i] <= audit[<<"reveal", i>>]
    BY DEF RevealAudited
  <2>1. /\ IsFiniteSet(Waiting(i))
        /\ revealed[i] + Cardinality(Waiting(i)) <= audit[<<"reveal", i>>]
        /\ revealed[i] \in Nat /\ audit[<<"reveal", i>>] \in Nat
    BY Lines DEF FullInv, RevealsCounted, Inv, TypeOK
  <2>2. Cardinality(Waiting(i)) \in Nat
    BY <2>1, FS_CardinalityType
  <2> QED
    BY <2>1, <2>2
<1> QED
  BY <1>1, FullInvHolds, PTL

\* The index rows of a live object are always the complete set that one
\* process's schema asks for: a reader never meets half of an insert, of a
\* rewrite or of a deletion, whatever schemas the processes run with.
THEOREM IndexIsWhole == Spec => []IndexWhole
<1>1. FullInv => IndexWhole
  BY DEF FullInv
<1> QED
  BY <1>1, FullInvHolds, PTL

-----------------------------------------------------------------------------
(* Store implements Vault *)

\* The lines that AuditMany and audit append are Vault's.
LEMMA LoggedLines ==
    ASSUME NEW a \in Action, NEW S \in SUBSET Ids,
           audit' = Appended({<<a, i>> : i \in S})
    PROVE  V!Logged(a, S)
<1> DEFINE log == {<<a, i>> : i \in S}
<1>1. V!Lines = Line
  BY DEF V!Lines, Line, Action
<1>2. ASSUME NEW l \in Line PROVE l \in log <=> (l[1] = a /\ l[2] \in S)
  BY DEF Line
<1> HIDE DEF log
<1>3. Appended(log) = [l \in V!Lines |-> audit[l] + IF l[1] = a /\ l[2] \in S THEN 1 ELSE 0]
  BY <1>1, <1>2 DEF Appended
<1> QED
  BY <1>3 DEF V!Logged, log

\* A step that changes nothing that callers see is a stuttering step of Vault.
LEMMA UnseenMaps ==
    ASSUME Unseen
    PROVE  UNCHANGED V!vars
<1>1. [i \in Ids |-> StateOf(i)]' = [i \in Ids |-> StateOf(i)]
  BY DEF Unseen, StateOf
<1> QED
  BY <1>1 DEF Unseen, V!vars

\* The commit of PutMany creates its batch.
LEMMA PutCommitMaps ==
    ASSUME Inv, NEW p \in Procs, NEW told \in BOOLEAN, PutCommit(p, told)
    PROVE  V!Next
<1>1. CommitReady(p) /\ CommitTx(p, told) /\ pc[p] = "put"
  BY PutCommitReady DEF PutCommit
<1>2. /\ tx[p].shred = {} /\ tx[p].dels = {} /\ tx[p].adds \subseteq Entry
      /\ tx[p].log = {<<"create", i>> : i \in New(p)}
      /\ \A e \in tx[p].adds : e.id \in New(p)
      /\ New(p) \in SUBSET Ids
  BY <1>1 DEF Inv, ProcInv, PutSoFar, TypeOK, Tx, New
<1>3. \A i \in New(p) : [j \in Ids |-> StateOf(j)][i] = "absent"
  BY <1>1, <1>2 DEF CommitReady, StateOf
<1>4. [j \in Ids |-> StateOf(j)]'
        = [i \in Ids |-> IF i \in New(p) THEN "live" ELSE [j \in Ids |-> StateOf(j)][i]]
  <2>1. ASSUME NEW i \in Ids
        PROVE  StateOf(i)' = IF i \in New(p) THEN "live" ELSE StateOf(i)
    BY <1>1, <1>2, CommittedRow DEF StateOf
  <2> QED
    BY <2>1
<1>5. index' = index \cup tx[p].adds /\ UNCHANGED revealed
  BY <1>1, <1>2 DEF CommitTx
<1>6. V!Logged("create", New(p))
  BY <1>1, <1>2, LoggedLines DEF CommitTx, Action
<1>7. tx[p].adds \in SUBSET V!PlacesOf(New(p))
  BY <1>2 DEF V!PlacesOf
<1>8. V!Create(New(p), tx[p].adds)
  BY <1>3, <1>4, <1>5, <1>6 DEF V!Create
<1> QED
  BY <1>2, <1>7, <1>8 DEF V!Next

\* The commit of Delete or DeleteSubject erases what was shredded.
LEMMA ShredCommitMaps ==
    ASSUME Inv, NEW p \in Procs, NEW told \in BOOLEAN, ShredCommit(p, told)
    PROVE  V!Next
<1> DEFINE S == tx[p].shred
<1>1. CommitReady(p) /\ CommitTx(p, told) /\ pc[p] = "unindex" /\ tx[p].todo = {}
  BY ShredCommitReady DEF ShredCommit
<1>2. /\ New(p) = {} /\ tx[p].adds = {} /\ S \in SUBSET Ids /\ index \subseteq Entry
      /\ tx[p].log = {<<"delete", i>> : i \in S}
      /\ \A i \in S : Live(i)
      /\ \A e \in tx[p].dels : e.id \in S
      /\ \A e \in index : e.id \in S => e \in tx[p].dels
  BY <1>1 DEF Inv, ProcInv, ShredSoFar, TypeOK, Tx
<1>3. \A i \in S : [j \in Ids |-> StateOf(j)][i] = "live"
  BY <1>2 DEF Live, StateOf
<1>4. [j \in Ids |-> StateOf(j)]'
        = [i \in Ids |-> IF i \in S THEN "erased" ELSE [j \in Ids |-> StateOf(j)][i]]
  <2>1. ASSUME NEW i \in Ids
        PROVE  StateOf(i)' = IF i \in S THEN "erased" ELSE StateOf(i)
    BY <1>1, <1>2, CommittedRow DEF StateOf
  <2> QED
    BY <2>1
<1>5. index' = index \ V!PlacesOf(S) /\ UNCHANGED revealed
  BY <1>1, <1>2 DEF CommitTx, V!PlacesOf
<1>6. V!Logged("delete", S)
  BY <1>1, <1>2, LoggedLines DEF CommitTx, Action
<1>7. V!Erase(S)
  BY <1>3, <1>4, <1>5, <1>6 DEF V!Erase
<1> QED
  BY <1>2, <1>7 DEF V!Next

\* The commit of rewriteIndex refreshes one live object.
LEMMA RewriteCommitMaps ==
    ASSUME Inv, NEW p \in Procs, NEW told \in BOOLEAN, RewriteCommit(p, told)
    PROVE  V!Next
<1> DEFINE i == job[p].cur
<1>1. CommitReady(p) /\ CommitTx(p, told) /\ pc[p] = "rewritten"
  BY RewriteCommitReady DEF RewriteCommit
<1>2. /\ New(p) = {} /\ tx[p].shred = {} /\ tx[p].adds \subseteq Entry /\ index \subseteq Entry
      /\ i \in Ids /\ Live(i) /\ tx[p].log = {<<"reindex", i>>}
      /\ \A e \in tx[p].dels : e.id = i
      /\ \A e \in index : e.id = i => e \in tx[p].dels
      /\ \A e \in tx[p].adds : e.id = i
  BY <1>1 DEF Inv, ProcInv, RewriteSoFar, TypeOK, Tx, Job
<1> HIDE DEF i
<1>3. [j \in Ids |-> StateOf(j)][i] = "live"
  BY <1>2 DEF Live, StateOf
<1>4. [j \in Ids |-> StateOf(j)]' = [j \in Ids |-> StateOf(j)]
  <2>1. ASSUME NEW j \in Ids PROVE StateOf(j)' = StateOf(j)
    BY <1>1, <1>2, CommittedRow DEF StateOf
  <2> QED
    BY <2>1
<1>5. index' = (index \ V!PlacesOf({i})) \cup tx[p].adds /\ UNCHANGED revealed
  BY <1>1, <1>2 DEF CommitTx, V!PlacesOf
<1>6. V!Logged("reindex", {i})
  <2>1. {i} \in SUBSET Ids /\ tx[p].log = {<<"reindex", j>> : j \in {i}}
    BY <1>2
  <2> QED
    BY <1>1, <2>1, LoggedLines DEF CommitTx, Action
<1>7. V!Refresh(i, tx[p].adds) /\ tx[p].adds \in SUBSET V!PlacesOf({i})
  BY <1>2, <1>3, <1>4, <1>5, <1>6 DEF V!Refresh, V!PlacesOf
<1> QED
  BY <1>2, <1>7 DEF V!Next

\* AuditMany logs a reveal of stored objects, or the request failed before.
LEMMA GetAuditMaps ==
    ASSUME Inv, NEW p \in Procs, ReadSoFar(p), NEW told \in BOOLEAN, GetAudit(p, told)
    PROVE  V!Next \/ UNCHANGED V!vars
<1>1. rows' = rows /\ index' = index /\ revealed' = revealed /\ pc[p] = "got"
  BY DEF GetAudit
<1>2. CASE audit' = audit
  BY <1>1, <1>2, UnseenMaps DEF Unseen
<1>3. CASE audit' = Appended({<<"reveal", i>> : i \in PageIds(p)})
  <2>1. PageIds(p) \in SUBSET Ids
    BY DEF PageIds
  <2>2. \A i \in PageIds(p) : [j \in Ids |-> StateOf(j)][i] # "absent"
    BY <1>1, <2>1 DEF ReadSoFar, Stored, StateOf
  <2>3. V!Logged("reveal", PageIds(p))
    BY <1>3, <2>1, LoggedLines DEF Action
  <2>4. [j \in Ids |-> StateOf(j)]' = [j \in Ids |-> StateOf(j)]
    BY <1>1 DEF StateOf
  <2>5. V!LogReveal(PageIds(p))
    BY <1>1, <2>2, <2>3, <2>4 DEF V!LogReveal
  <2> QED
    BY <2>1, <2>5 DEF V!Next
<1> QED
  BY <1>2, <1>3 DEF GetAudit

\* The answer that leaves the server has a line that no other answer used.
LEMMA RespondMaps ==
    ASSUME Inv, RevealsCounted, NEW p \in Procs, Respond(p)
    PROVE  V!Next
<1>1. /\ pc[p] = "answer" /\ rows' = rows /\ index' = index /\ audit' = audit
      /\ revealed' = [i \in Ids |-> revealed[i] + IF i \in PageIds(p) THEN 1 ELSE 0]
  BY DEF Respond, tables
<1>2. ASSUME NEW i \in PageIds(p) PROVE revealed[i] < audit[<<"reveal", i>>]
  <2>1. i \in Ids /\ p \in Waiting(i)
    BY <1>1 DEF PageIds, Waiting
  <2>2. /\ IsFiniteSet(Waiting(i))
        /\ revealed[i] + Cardinality(Waiting(i)) <= audit[<<"reveal", i>>]
        /\ revealed[i] \in Nat /\ audit[<<"reveal", i>>] \in Nat
    BY <2>1, Lines DEF RevealsCounted, Inv, TypeOK
  <2>3. Cardinality(Waiting(i)) \in Nat /\ Cardinality(Waiting(i)) # 0
    BY <2>1, <2>2, FS_CardinalityType, FS_EmptySet
  <2> QED
    BY <2>2, <2>3
<1>3. [j \in Ids |-> StateOf(j)]' = [j \in Ids |-> StateOf(j)]
  BY <1>1 DEF StateOf
<1>4. V!Answer(PageIds(p))
  BY <1>1, <1>2, <1>3 DEF V!Answer
<1>5. PageIds(p) \in SUBSET Ids
  BY DEF PageIds
<1> QED
  BY <1>4, <1>5 DEF V!Next

\* Rotate's write of a key changes nothing that callers see.
LEMMA RotateWriteMaps ==
    ASSUME Inv, NEW p \in Procs, RotateWrite(p)
    PROVE  UNCHANGED V!vars
<1>1. /\ rows \in [Ids -> Row \cup {None}] /\ job[p].cur \in Ids /\ job[p].re \in Sealed
  BY DEF Inv, TypeOK, ProcInv, JobReady, RotateWrite, Job
<1>2. /\ index' = index /\ audit' = audit /\ revealed' = revealed
      /\ \/ rows' = rows
         \/ /\ Live(job[p].cur)
            /\ rows' = [rows EXCEPT ![job[p].cur] = Rewritten(@, job[p].re)]
  BY DEF RotateWrite, RotateMatches
<1>3. ASSUME NEW i \in Ids PROVE StateOf(i)' = StateOf(i)
  <2>1. CASE rows' = rows
    BY <2>1 DEF StateOf
  <2>2. CASE /\ Live(job[p].cur)
             /\ rows' = [rows EXCEPT ![job[p].cur] = Rewritten(@, job[p].re)]
    <3>1. rows[job[p].cur] \in Row
      BY <1>1, <2>2 DEF Live
    <3>2. /\ Rewritten(rows[job[p].cur], job[p].re) \in Row
          /\ Rewritten(rows[job[p].cur], job[p].re).deleted = rows[job[p].cur].deleted
      BY <1>1, <3>1 DEF Rewritten, Row, Sealed
    <3> QED
      BY <1>1, <2>2, <3>1, <3>2, NoneAssumption DEF StateOf
  <2> QED
    BY <1>2, <2>1, <2>2
<1>4. [i \in Ids |-> StateOf(i)]' = [i \in Ids |-> StateOf(i)]
  BY <1>3
<1> QED
  BY <1>2, <1>4 DEF V!vars

\* Every step of the store is a step of Vault, or callers do not see it.
LEMMA NextMaps == FullInv /\ [Next]_vars => [V!Next]_(V!vars)
<1> SUFFICES ASSUME FullInv, [Next]_vars PROVE V!Next \/ UNCHANGED V!vars
  OBVIOUS
<1>1. Inv /\ RevealsCounted
  BY DEF FullInv
<1>2. CASE Next
  <2>1. PICK p \in Procs : Silent(p) \/ Staging(p) \/ Seen(p) \/ RotateWrite(p)
    BY <1>1, <1>2, Kinds
  <2>2. ReadSoFar(p)
    BY DEF FullInv
  <2>3. CASE Silent(p) \/ Staging(p)
    BY <2>3, UnseenMaps DEF Silent, Unseen, Staging, PutItem, GetSelect, Rewrite, tables
  <2>4. CASE Seen(p)
    BY <1>1, <2>2, <2>4, PutCommitMaps, ShredCommitMaps, RewriteCommitMaps, GetAuditMaps,
       RespondMaps DEF Seen
  <2>5. CASE RotateWrite(p)
    BY <1>1, <2>5, RotateWriteMaps
  <2> QED
    BY <2>1, <2>3, <2>4, <2>5
<1>3. CASE UNCHANGED vars
  BY <1>3, UnseenMaps DEF vars, tables, Unseen
<1> QED
  BY <1>2, <1>3

\* The empty tables are the empty vault.
LEMMA InitMaps == Init => V!Init
<1> SUFFICES ASSUME Init PROVE V!Init
  OBVIOUS
<1>1. V!Lines = Line
  BY DEF V!Lines, Line, Action
<1> QED
  BY <1>1 DEF Init, V!Init, StateOf

\* Store implements Vault: whatever the statements, locks, crashes, deadlocks
\* and rotations of any number of processes do, callers see batches created,
\* erased and re-indexed in one step with their audit lines, and answers that
\* were logged before.
THEOREM StoreImplementsVault == Spec => ImplementsVault
BY InitMaps, NextMaps, FullInvHolds, PTL DEF Spec, ImplementsVault, V!Spec
=============================================================================
