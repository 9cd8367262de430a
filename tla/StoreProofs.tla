---------------------------- MODULE StoreProofs ----------------------------
(***************************************************************************)
(* Proofs about Store, for every number of objects, keys and processes.    *)
(***************************************************************************)
EXTENDS StoreInvariant, TLAPS

\* The empty tables after the first start (loadIndexKey) satisfy Inv.
LEMMA InitInv == Init => Inv
<1> SUFFICES ASSUME Init PROVE Inv
  OBVIOUS
<1> USE DEF Init
<1>1. NoTx \in Tx
  BY DEF NoTx, Tx
<1>2. NoJob \in Job
  BY DEF NoJob, NoPage, Job
<1>3. TypeOK
  BY <1>1, <1>2, ConstantsAssumption DEF TypeOK, Sealed, Control, Engine
<1>4. \A p \in Procs : ProcInv(p)
  BY DEF ProcInv, NoneOpen, PutSoFar, ShredSoFar, RewriteSoFar, JobReady, EraseSoFar
<1>5. NewDisjoint
  BY DEF NewDisjoint, New, NoTx
<1>6. LiveIffKey /\ IndexOnlyLive /\ AuditExact
  BY DEF LiveIffKey, IndexOnlyLive, AuditExact, Stored, Line, Action
<1> QED
  BY <1>3, <1>4, <1>5, <1>6 DEF Inv

\* What a step leaves alone when it only works on process p.
OnlyProc(p) ==
    /\ \A q \in Procs \ {p} : pc'[q] = pc[q] /\ tx'[q] = tx[q] /\ job'[q] = job[q]
    /\ rows' = rows /\ index' = index
    /\ \A i \in Ids : \A q \in Procs \ {p} : lock[i] = q => lock'[i] = q
    /\ \A i \in Ids : /\ audit'[<<"create", i>>] = audit[<<"create", i>>]
                      /\ audit'[<<"delete", i>>] = audit[<<"delete", i>>]

\* Such a step, between p's statements, can only break p's own part of Inv.
LEMMA OnlyProcInv ==
    ASSUME Inv, NEW p \in Procs, OnlyProc(p), TypeOK', ProcInv(p)',
           \A i \in New(p)' : \A q \in Procs \ {p} : i \notin New(q)
    PROVE  Inv'
<1> USE DEF Inv, OnlyProc
<1>1. ASSUME NEW q \in Procs \ {p} PROVE ProcInv(q)'
  <2>1. ProcInv(q) /\ pc'[q] = pc[q] /\ tx'[q] = tx[q] /\ job'[q] = job[q]
    OBVIOUS
  <2>2. New(q)' = New(q) /\ PageIds(q)' = PageIds(q) /\ \A i \in Ids : Live(i)' = Live(i)
    BY <2>1 DEF New, PageIds, Live
  <2>3. NoneOpen(q)' /\ JobReady(q)'
    BY <2>1 DEF ProcInv, NoneOpen, JobReady
  <2>4. PutSoFar(q)'
    BY <2>1, <2>2 DEF ProcInv, PutSoFar
  <2>5. ShredSoFar(q)'
    BY <2>1, <2>2 DEF ProcInv, ShredSoFar, TypeOK, Tx
  <2>6. RewriteSoFar(q)'
    BY <2>1, <2>2 DEF ProcInv, RewriteSoFar, TypeOK, Job
  <2>7. EraseSoFar(q)'
    BY <2>1, <2>2 DEF ProcInv, EraseSoFar, PageIds
  <2> QED
    BY <2>3, <2>4, <2>5, <2>6, <2>7 DEF ProcInv
<1>2. NewDisjoint'
  BY DEF NewDisjoint, New
<1>3. LiveIffKey' /\ IndexOnlyLive' /\ AuditExact'
  BY DEF LiveIffKey, IndexOnlyLive, AuditExact, Stored, Live
<1> QED
  BY <1>1, <1>2, <1>3

\* Facts about types that most steps need.
LEMMA Types ==
    ASSUME TypeOK, NEW p \in Procs
    PROVE  /\ NoTx \in Tx /\ NoJob \in Job
           /\ tx[p] \in Tx /\ job[p] \in Job /\ pc[p] \in Control
           /\ env[p].current \in Keys
           /\ WrapUnder(env[p].current) \in Sealed
           /\ WrapUnder(env[p].current).wrapped # Null
           /\ \A i \in Ids : rows[i] # None => rows[i] \in Row
<1>1. NoTx \in Tx
  BY DEF NoTx, Tx
<1>2. NoJob \in Job
  BY DEF NoJob, NoPage, Job
<1>3. env[p] \in Env /\ engine \in Engine
  BY DEF TypeOK
<1> QED
  BY <1>1, <1>2, <1>3 DEF TypeOK, WrapUnder, Env, Engine, Sealed, Null

\* The index rows that Schema.Indexed asks for are index rows.
LEMMA IndexedType ==
    ASSUME TypeOK, NEW p \in Procs, NEW c \in Collections, NEW i \in Ids,
           NEW has \in SUBSET Fields
    PROVE  /\ Indexed(p, c, i, has) \subseteq Entry
           /\ \A e \in Indexed(p, c, i, has) : e.id = i /\ e.collection = c
BY DEF Indexed, Entry

\* The page a SELECT returned holds a sealed key for the rows it selected.
LEMMA ReadPageType ==
    ASSUME TypeOK, NEW S \in SUBSET Ids, \A i \in S : rows[i] # None
    PROVE  /\ ReadPage(S) \in [Ids -> Sealed \cup {None}]
           /\ \A i \in Ids : ReadPage(S)[i] # None <=> i \in S
<1>1. \A i \in S : SealedOf(i) \in Sealed
  BY DEF TypeOK, SealedOf, Sealed, Row
<1> QED
  BY <1>1, NoneAssumption DEF ReadPage

-----------------------------------------------------------------------------
\* A step of process p goes to l with locals j and transaction t.
Moves(p, l, j, t) == Goto(p, l) /\ Keep(p, j) /\ Stage(p, t)

\* What the step does to the shared state is of the right type.
SharedOK ==
    /\ rows' \in [Ids -> Row \cup {None}] /\ index' \subseteq Entry
    /\ keyrow' \in Sealed /\ audit' \in [Line -> Nat] /\ stdout' \subseteq Line
    /\ lock' \in [Ids -> Procs \cup {None}] /\ revealed' \in [Ids -> Nat]

\* A step that moves p, and writes only values of the right type, keeps TypeOK.
LEMMA Moved ==
    ASSUME TypeOK, NEW p \in Procs, NEW l \in Control, NEW j \in Job, NEW t \in Tx,
           Moves(p, l, j, t), SharedOK, UNCHANGED config
    PROVE  /\ TypeOK'
           /\ pc'[p] = l /\ job'[p] = j /\ tx'[p] = t
           /\ \A q \in Procs \ {p} : pc'[q] = pc[q] /\ tx'[q] = tx[q] /\ job'[q] = job[q]
<1>1. /\ pc' = [pc EXCEPT ![p] = l] /\ pc \in [Procs -> Control]
      /\ job' = [job EXCEPT ![p] = j] /\ job \in [Procs -> Job]
      /\ tx' = [tx EXCEPT ![p] = t] /\ tx \in [Procs -> Tx]
  BY DEF Moves, Goto, Keep, Stage, TypeOK
<1>2. pc' \in [Procs -> Control] /\ job' \in [Procs -> Job] /\ tx' \in [Procs -> Tx]
  BY <1>1
<1>3. env' = env /\ schema' = schema /\ engine' = engine
  BY DEF config
<1>4. TypeOK'
  BY <1>2, <1>3 DEF TypeOK, SharedOK
<1> QED
  BY <1>1, <1>4

\* A step that leaves a part of p's state alone moves it to where it was.
LEMMA Stays ==
    ASSUME TypeOK, NEW p \in Procs
    PROVE  /\ UNCHANGED pc => Goto(p, pc[p])
           /\ UNCHANGED job => Keep(p, job[p])
           /\ UNCHANGED tx => Stage(p, tx[p])
           /\ UNCHANGED <<tables, stdout, lock, revealed>> => SharedOK
<1>1. UNCHANGED pc => Goto(p, pc[p])
  BY DEF TypeOK, Goto
<1>2. UNCHANGED job => Keep(p, job[p])
  BY DEF TypeOK, Keep
<1>3. UNCHANGED tx => Stage(p, tx[p])
  BY DEF TypeOK, Stage
<1>4. UNCHANGED <<tables, stdout, lock, revealed>> => SharedOK
  BY DEF TypeOK, SharedOK, tables
<1> QED
  BY <1>1, <1>2, <1>3, <1>4

\* A step without an open transaction that changes none of the objects, index
\* rows, locks, and create or delete lines.
LEMMA LocalInv ==
    ASSUME Inv, NEW p \in Procs, NEW j \in Job,
           NEW l \in Control \ {"put", "erase", "unindex", "rewrite", "rewritten"},
           tx[p] = NoTx, Goto(p, l), Keep(p, j), UNCHANGED tx,
           SharedOK, UNCHANGED config,
           rows' = rows, index' = index, lock' = lock,
           \A i \in Ids : /\ audit'[<<"create", i>>] = audit[<<"create", i>>]
                          /\ audit'[<<"delete", i>>] = audit[<<"delete", i>>],
           l = "idle" => j = NoJob,
           l = "key" => j.read # None,
           l \in {"relock", "write"} => j.cur # None,
           l \in {"keywrite", "write"} =>
             j.read # None /\ j.re # None /\ j.re.wrapped # Null
    PROVE  Inv'
<1>1. TypeOK /\ tx[p] \in Tx
  BY DEF Inv, TypeOK
<1>2. Moves(p, l, j, tx[p])
  BY <1>1, Stays DEF Moves
<1>3. /\ TypeOK'
      /\ pc'[p] = l /\ job'[p] = j /\ tx'[p] = tx[p]
      /\ \A q \in Procs \ {p} : pc'[q] = pc[q] /\ tx'[q] = tx[q] /\ job'[q] = job[q]
  BY <1>1, <1>2, Moved
<1>4. OnlyProc(p)
  BY <1>3 DEF OnlyProc
<1>5. ProcInv(p)'
  BY <1>3 DEF ProcInv, NoneOpen, PutSoFar, ShredSoFar, RewriteSoFar, JobReady, EraseSoFar
<1>6. New(p)' = {}
  BY <1>3 DEF New, NoTx
<1> QED
  BY <1>3, <1>4, <1>5, <1>6, OnlyProcInv

-----------------------------------------------------------------------------
\* PutMany inserts one more object into its transaction.
LEMMA PutItemInv ==
    ASSUME Inv, NEW p \in Servers, NEW c \in Collections, NEW i \in Ids,
           NEW item \in Items, PutItem(p, c, i, item)
    PROVE  Inv'
<1> DEFINE s == WrapUnder(env[p].current)
           r == NewRow(c, item, s)
           j0 == [job[p] EXCEPT !.collection = c]
           t == [tx[p] EXCEPT !.rows[i] = r,
                              !.adds = @ \cup Indexed(p, c, i, item.has),
                              !.log = @ \cup {<<"create", i>>}]
<1>0. p \in Procs /\ TypeOK /\ ProcInv(p)
  BY DEF Inv, Procs
<1>1. s \in Sealed /\ s.wrapped # Null /\ tx[p] \in Tx /\ job[p] \in Job
  BY <1>0, Types
<1>2. item.subject \in Subjects \cup {None} /\ item.has \in SUBSET Fields
  BY ConstantsAssumption
<1>3. r \in Row /\ r # None
  <2>1. r \in Row
    BY <1>1, <1>2 DEF Row, Sealed, NewRow
  <2> QED
    BY <2>1, NoneAssumption
<1>4. /\ Indexed(p, c, i, item.has) \subseteq Entry
      /\ \A e \in Indexed(p, c, i, item.has) : e.id = i /\ e.collection = c
  BY <1>0, <1>2, IndexedType
<1>5. t \in Tx
  <2>1. [tx[p].rows EXCEPT ![i] = r] \in [Ids -> Row \cup {None}]
    BY <1>1, <1>3 DEF Tx
  <2>2. tx[p].log \cup {<<"create", i>>} \subseteq Line
    BY <1>1 DEF Tx, Line, Action
  <2>3. tx[p].adds \cup Indexed(p, c, i, item.has) \subseteq Entry
    BY <1>1, <1>4 DEF Tx
  <2> QED
    BY <1>1, <2>1, <2>2, <2>3 DEF Tx
<1>6. Moves(p, "put", j0, t) /\ Fresh(i)
  BY DEF PutItem, Moves
<1>7. /\ TypeOK'
      /\ pc'[p] = "put" /\ job'[p] = j0 /\ tx'[p] = t
      /\ \A q \in Procs \ {p} : pc'[q] = pc[q] /\ tx'[q] = tx[q] /\ job'[q] = job[q]
  <2>1. j0 \in Job /\ "put" \in Control
    BY <1>1 DEF Job, Control
  <2>2. SharedOK /\ UNCHANGED config
    BY <1>0, Stays DEF PutItem
  <2> QED
    BY <1>0, <1>5, <1>6, <2>1, <2>2, Moved
<1>9. OnlyProc(p)
  BY <1>7 DEF OnlyProc, PutItem, tables
<1>10. New(p)' = New(p) \cup {i}
  BY <1>1, <1>3, <1>7 DEF New, Tx
<1>11. pc[p] = "idle" \/ pc[p] = "put"
  BY DEF PutItem
<1>12. PutSoFar(p)'
  <2>1. /\ tx[p].shred = {} /\ tx[p].todo = {} /\ tx[p].dels = {}
        /\ tx[p].log = {<<"create", j>> : j \in New(p)}
        /\ \A j \in New(p) : /\ rows[j] = None
                             /\ ~tx[p].rows[j].deleted
                             /\ tx[p].rows[j].wrapped # Null
        /\ \A e \in tx[p].adds : /\ e.id \in New(p)
                                 /\ tx[p].rows[e.id].collection = e.collection
    <3>1. CASE pc[p] = "put"
      BY <1>0, <3>1 DEF ProcInv, PutSoFar
    <3>2. CASE pc[p] = "idle"
      BY <1>0, <3>2 DEF ProcInv, NoneOpen, NoTx, New
    <3> QED
      BY <1>11, <3>1, <3>2
  <2>2. rows' = rows /\ rows[i] = None /\ i \notin New(p)
    BY <1>0, <1>6 DEF PutItem, tables, Fresh, New
  <2>3. /\ t.shred = {} /\ t.todo = {} /\ t.dels = {}
        /\ t.log = {<<"create", j>> : j \in New(p) \cup {i}}
        /\ t.rows = [tx[p].rows EXCEPT ![i] = r]
        /\ t.adds = tx[p].adds \cup Indexed(p, c, i, item.has)
    BY <1>1, <2>1 DEF Tx
  <2>4. \A j \in New(p) \cup {i} : /\ rows'[j] = None
                                   /\ ~t.rows[j].deleted
                                   /\ t.rows[j].wrapped # Null
    BY <1>1, <2>1, <2>2, <2>3 DEF New, Tx, NewRow
  <2>5. \A e \in t.adds : /\ e.id \in New(p) \cup {i}
                          /\ t.rows[e.id].collection = e.collection
    BY <1>1, <1>4, <2>1, <2>2, <2>3 DEF New, Tx, NewRow
  <2> QED
    BY <1>7, <1>10, <2>3, <2>4, <2>5 DEF PutSoFar
<1>13. ProcInv(p)'
  BY <1>7, <1>12 DEF ProcInv, NoneOpen, ShredSoFar, RewriteSoFar, JobReady, EraseSoFar
<1>14. \A j \in New(p)' : \A q \in Procs \ {p} : j \notin New(q)
  BY <1>0, <1>6, <1>10 DEF Inv, NewDisjoint, Fresh, New
<1> QED
  BY <1>0, <1>7, <1>9, <1>13, <1>14, OnlyProcInv

-----------------------------------------------------------------------------
(* Steps without an open transaction *)

\* Appending lines to audit_log keeps it a count of lines.
LEMMA AppendedType ==
    ASSUME TypeOK, NEW log \in SUBSET Line
    PROVE  /\ Appended(log) \in [Line -> Nat]
           /\ \A l \in Line : Appended(log)[l] = IF l \in log THEN audit[l] + 1 ELSE audit[l]
BY DEF Appended, TypeOK

\* Every action on an object is a line of audit_log.
LEMMA Lines ==
    ASSUME NEW i \in Ids
    PROVE  /\ <<"create", i>> \in Line /\ <<"reveal", i>> \in Line
           /\ <<"delete", i>> \in Line /\ <<"reindex", i>> \in Line
BY DEF Line, Action

\* GetMany reads rows.
LEMMA GetSelectInv ==
    ASSUME Inv, NEW p \in Servers, NEW c \in Collections, NEW S \in SUBSET Ids,
           GetSelect(p, c, S)
    PROVE  Inv'
<1> DEFINE found == {i \in S : Live(i) /\ rows[i].collection = c}
           j == [job[p] EXCEPT !.page = ReadPage(found)]
<1>1. p \in Procs /\ TypeOK /\ ProcInv(p) /\ job[p] \in Job
  BY DEF Inv, Procs, TypeOK
<1>2. ReadPage(found) \in [Ids -> Sealed \cup {None}]
  BY <1>1, ReadPageType DEF Live
<1>3. j \in Job
  BY <1>1, <1>2 DEF Job
<1>4. tx[p] = NoTx
  BY <1>1 DEF GetSelect, ProcInv, NoneOpen
<1>5. SharedOK
  BY <1>1, Stays DEF GetSelect
<1>6. Goto(p, "got") /\ Keep(p, j) /\ UNCHANGED tx /\ UNCHANGED config
      /\ rows' = rows /\ index' = index /\ lock' = lock /\ audit' = audit
  BY DEF GetSelect, tables
<1>7. "got" \in Control \ {"put", "erase", "unindex", "rewrite", "rewritten"}
  BY DEF Control
<1> QED
  BY <1>1, <1>3, <1>4, <1>5, <1>6, <1>7, LocalInv

\* A reveal is logged, or fails to be.
LEMMA GetAuditInv ==
    ASSUME Inv, NEW p \in Servers, NEW told \in BOOLEAN, GetAudit(p, told)
    PROVE  Inv'
<1> DEFINE log == {<<"reveal", i>> : i \in PageIds(p)}
<1>1. p \in Procs /\ TypeOK /\ ProcInv(p) /\ job[p] \in Job /\ NoJob \in Job
  BY Types DEF Inv, Procs
<1>2. tx[p] = NoTx
  BY <1>1 DEF GetAudit, ProcInv, NoneOpen
<1>3. log \in SUBSET Line
  BY Lines DEF PageIds
<1>4. /\ Appended(log) \in [Line -> Nat]
      /\ \A i \in Ids : /\ Appended(log)[<<"create", i>>] = audit[<<"create", i>>]
                        /\ Appended(log)[<<"delete", i>>] = audit[<<"delete", i>>]
  <2>1. \A i \in Ids : <<"create", i>> \notin log /\ <<"delete", i>> \notin log
    OBVIOUS
  <2>2. /\ Appended(log) \in [Line -> Nat]
        /\ \A l \in Line : l \notin log => Appended(log)[l] = audit[l]
    BY <1>1, <1>3, AppendedType
  <2> HIDE DEF log
  <2> QED
    BY <2>1, <2>2, Lines
<1>5. /\ audit' \in {audit, Appended(log)} /\ stdout' \in {stdout, stdout \cup log}
      /\ UNCHANGED <<rows, index, keyrow, lock, revealed, tx, config>>
  BY DEF GetAudit
<1>6. SharedOK
  BY <1>1, <1>3, <1>4, <1>5 DEF SharedOK, TypeOK
<1>7. \A i \in Ids : /\ audit'[<<"create", i>>] = audit[<<"create", i>>]
                     /\ audit'[<<"delete", i>>] = audit[<<"delete", i>>]
  BY <1>4, <1>5
<1>8. \/ Goto(p, "answer") /\ Keep(p, job[p])
      \/ Goto(p, "idle") /\ Keep(p, NoJob)
  BY <1>1, Stays DEF GetAudit, Return
<1>9. /\ "answer" \in Control \ {"put", "erase", "unindex", "rewrite", "rewritten"}
      /\ "idle" \in Control \ {"put", "erase", "unindex", "rewrite", "rewritten"}
  BY DEF Control
<1>10. rows' = rows /\ index' = index /\ lock' = lock /\ UNCHANGED tx /\ UNCHANGED config
  BY <1>5
<1>11. CASE Goto(p, "answer") /\ Keep(p, job[p])
  BY <1>1, <1>2, <1>6, <1>7, <1>9, <1>10, <1>11, LocalInv
<1>12. CASE Goto(p, "idle") /\ Keep(p, NoJob)
  BY <1>1, <1>2, <1>6, <1>7, <1>9, <1>10, <1>12, LocalInv
<1> QED
  BY <1>8, <1>11, <1>12

\* A reveal is answered.
LEMMA RespondInv ==
    ASSUME Inv, NEW p \in Servers, Respond(p)
    PROVE  Inv'
<1>1. p \in Procs /\ TypeOK /\ ProcInv(p) /\ NoJob \in Job
  BY Types DEF Inv, Procs
<1>2. tx[p] = NoTx
  BY <1>1 DEF Respond, ProcInv, NoneOpen
<1>3. SharedOK
  BY <1>1 DEF Respond, SharedOK, TypeOK, tables
<1>4. Goto(p, "idle") /\ Keep(p, NoJob) /\ UNCHANGED tx /\ UNCHANGED config
      /\ rows' = rows /\ index' = index /\ lock' = lock /\ audit' = audit
  BY DEF Respond, Return, tables
<1>5. "idle" \in Control \ {"put", "erase", "unindex", "rewrite", "rewritten"}
  BY DEF Control
<1> QED
  BY <1>1, <1>2, <1>3, <1>4, <1>5, LocalInv

\* Reindex begins.
LEMMA ReindexStartInv ==
    ASSUME Inv, NEW p \in Reindexers, NEW c \in Collections \cup {None}, ReindexStart(p, c)
    PROVE  Inv'
<1> DEFINE j == [job[p] EXCEPT !.collection = c]
<1>1. p \in Procs /\ TypeOK /\ ProcInv(p) /\ job[p] \in Job
  BY DEF Inv, Procs, TypeOK
<1>2. j \in Job
  BY <1>1 DEF Job
<1>3. tx[p] = NoTx
  BY <1>1 DEF ReindexStart, ProcInv, NoneOpen
<1>4. SharedOK
  BY <1>1, Stays DEF ReindexStart
<1>5. Goto(p, "scan") /\ Keep(p, j) /\ UNCHANGED tx /\ UNCHANGED config
      /\ rows' = rows /\ index' = index /\ lock' = lock /\ audit' = audit
  BY DEF ReindexStart, tables
<1>6. "scan" \in Control \ {"put", "erase", "unindex", "rewrite", "rewritten"}
  BY DEF Control
<1> QED
  BY <1>1, <1>2, <1>3, <1>4, <1>5, <1>6, LocalInv

\* The page that Reindex or Rotate reads holds live rows.
LEMMA NextPage ==
    ASSUME TypeOK, NEW p \in Procs, NEW S \in SUBSET Ids, \A i \in S : Live(i)
    PROVE  [job[p] EXCEPT !.page = ReadPage(FirstPage(S))] \in Job
<1>1. FirstPage(S) \in SUBSET Ids /\ \A i \in FirstPage(S) : rows[i] # None
  BY DEF FirstPage, Live
<1>2. ReadPage(FirstPage(S)) \in [Ids -> Sealed \cup {None}]
  BY <1>1, ReadPageType
<1>3. job[p] \in Job
  BY DEF TypeOK
<1> QED
  BY <1>2, <1>3 DEF Job

\* Reindex reads its next page.
LEMMA ReindexPageInv ==
    ASSUME Inv, NEW p \in Reindexers, ReindexPage(p)
    PROVE  Inv'
<1> DEFINE S == {i \in Ids : ReindexSelects(p, i)}
           j == [job[p] EXCEPT !.page = ReadPage(FirstPage(S))]
           l == IF FirstPage(S) = {} THEN "reindexed" ELSE "open"
<1>1. p \in Procs /\ TypeOK /\ ProcInv(p)
  BY DEF Inv, Procs
<1>2. j \in Job
  <2>1. S \in SUBSET Ids /\ \A i \in S : Live(i)
    BY DEF ReindexSelects
  <2> QED
    BY <1>1, <2>1, NextPage
<1>3. tx[p] = NoTx
  BY <1>1 DEF ReindexPage, ProcInv, NoneOpen
<1>4. SharedOK
  BY <1>1, Stays DEF ReindexPage
<1>5. Goto(p, l) /\ Keep(p, j) /\ UNCHANGED tx /\ UNCHANGED config
      /\ rows' = rows /\ index' = index /\ lock' = lock /\ audit' = audit
  BY DEF ReindexPage, tables
<1>6. l \in Control \ {"put", "erase", "unindex", "rewrite", "rewritten"}
      /\ l \notin {"idle", "key", "relock", "write", "keywrite"}
  BY DEF Control
<1> HIDE DEF l, j
<1> QED
  BY <1>1, <1>2, <1>3, <1>4, <1>5, <1>6, LocalInv

\* Reindex opens a row or skips it.
LEMMA ReindexOpenInv ==
    ASSUME Inv, NEW p \in Reindexers, NEW i \in Ids, ReindexOpen(p, i)
    PROVE  Inv'
<1> DEFINE j1 == [job[p] EXCEPT !.last = i, !.cur = i]
           j2 == [job[p] EXCEPT !.last = i, !.page[i] = None, !.skipped = @ \cup {i}]
           l == IF PageIds(p) \ {i} = {} THEN "scan" ELSE "open"
<1>1. p \in Procs /\ TypeOK /\ ProcInv(p) /\ job[p] \in Job
  BY DEF Inv, Procs, TypeOK
<1>2. j1 \in Job /\ j1.cur # None
  BY <1>1, ConstantsAssumption, NoneAssumption DEF Job
<1>3. j2 \in Job
  <2>1. [job[p].page EXCEPT ![i] = None] \in [Ids -> Sealed \cup {None}]
    BY <1>1 DEF Job
  <2> QED
    BY <1>1, <2>1, ConstantsAssumption DEF Job
<1>4. tx[p] = NoTx
  BY <1>1 DEF ReindexOpen, ProcInv, NoneOpen
<1>5. SharedOK
  BY <1>1, Stays DEF ReindexOpen
<1>6. UNCHANGED tx /\ UNCHANGED config
      /\ rows' = rows /\ index' = index /\ lock' = lock /\ audit' = audit
  BY DEF ReindexOpen, tables
<1>7. \/ Goto(p, "relock") /\ Keep(p, j1)
      \/ Goto(p, l) /\ Keep(p, j2)
  BY DEF ReindexOpen, Resume
<1>8. l \in Control \ {"put", "erase", "unindex", "rewrite", "rewritten"}
      /\ l \notin {"idle", "key", "relock", "write", "keywrite"}
      /\ "relock" \in Control \ {"put", "erase", "unindex", "rewrite", "rewritten"}
  BY DEF Control
<1> HIDE DEF l, j1, j2
<1>9. CASE Goto(p, "relock") /\ Keep(p, j1)
  BY <1>1, <1>2, <1>4, <1>5, <1>6, <1>8, <1>9, LocalInv
<1>10. CASE Goto(p, l) /\ Keep(p, j2)
  BY <1>1, <1>3, <1>4, <1>5, <1>6, <1>8, <1>10, LocalInv
<1> QED
  BY <1>7, <1>9, <1>10

\* Rotate reads the blind-index key.
LEMMA RotateStartInv ==
    ASSUME Inv, NEW p \in Rotators, RotateStart(p)
    PROVE  Inv'
<1> DEFINE j == [job[p] EXCEPT !.read = keyrow]
<1>1. p \in Procs /\ TypeOK /\ ProcInv(p) /\ job[p] \in Job /\ keyrow \in Sealed
  BY DEF Inv, Procs, TypeOK
<1>2. j \in Job /\ j.read # None
  BY <1>1, NoneAssumption DEF Job
<1>3. tx[p] = NoTx
  BY <1>1 DEF RotateStart, ProcInv, NoneOpen
<1>4. SharedOK
  BY <1>1, Stays DEF RotateStart
<1>5. Goto(p, "key") /\ Keep(p, j) /\ UNCHANGED tx /\ UNCHANGED config
      /\ rows' = rows /\ index' = index /\ lock' = lock /\ audit' = audit
  BY DEF RotateStart, tables
<1>6. "key" \in Control \ {"put", "erase", "unindex", "rewrite", "rewritten"}
  BY DEF Control
<1> QED
  BY <1>1, <1>2, <1>3, <1>4, <1>5, <1>6, LocalInv

\* A key that was re-wrapped is a key, never the empty one.
LEMMA RewrappedType ==
    ASSUME TypeOK, NEW p \in Procs, NEW s, Rewrapped(p, s) # s
    PROVE  /\ Rewrapped(p, s) \in Sealed /\ Rewrapped(p, s) # None
           /\ Rewrapped(p, s).wrapped # Null
<1>1. Rewrapped(p, s) = WrapUnder(env[p].current)
  BY DEF Rewrapped
<1> QED
  BY <1>1, Types, NoneAssumption

\* Rotate re-wraps the blind-index key.
LEMMA RotateKeyRewrapInv ==
    ASSUME Inv, NEW p \in Rotators, RotateKeyRewrap(p)
    PROVE  Inv'
<1> DEFINE s == job[p].read
           j1 == [job[p] EXCEPT !.re = Rewrapped(p, s)]
           j2 == [job[p] EXCEPT !.read = None]
<1>1. p \in Procs /\ TypeOK /\ ProcInv(p) /\ job[p] \in Job /\ NoJob \in Job
  BY Types DEF Inv, Procs
<1>2. tx[p] = NoTx
  BY <1>1 DEF RotateKeyRewrap, ProcInv, NoneOpen
<1>3. SharedOK
  BY <1>1, Stays DEF RotateKeyRewrap
<1>4. UNCHANGED tx /\ UNCHANGED config
      /\ rows' = rows /\ index' = index /\ lock' = lock /\ audit' = audit
  BY DEF RotateKeyRewrap, tables
<1>5. \/ Opens(p, s) /\ Rewrapped(p, s) # s /\ Goto(p, "keywrite") /\ Keep(p, j1)
      \/ Goto(p, "select") /\ Keep(p, j2)
      \/ Goto(p, "idle") /\ Keep(p, NoJob)
  BY DEF RotateKeyRewrap, Return
<1>6. /\ "keywrite" \in Control \ {"put", "erase", "unindex", "rewrite", "rewritten"}
      /\ "select" \in Control \ {"put", "erase", "unindex", "rewrite", "rewritten"}
      /\ "idle" \in Control \ {"put", "erase", "unindex", "rewrite", "rewritten"}
  BY DEF Control
<1>7. CASE Opens(p, s) /\ Rewrapped(p, s) # s /\ Goto(p, "keywrite") /\ Keep(p, j1)
  <2>1. s # None
    BY <1>1 DEF RotateKeyRewrap, ProcInv, JobReady
  <2>2. /\ Rewrapped(p, s) \in Sealed /\ Rewrapped(p, s) # None
        /\ Rewrapped(p, s).wrapped # Null
    BY <1>1, <1>7, RewrappedType
  <2>3. j1 \in Job /\ j1.re = Rewrapped(p, s) /\ j1.read = s
    BY <1>1, <2>2 DEF Job
  <2> HIDE DEF j1
  <2> QED
    BY <1>1, <1>2, <1>3, <1>4, <1>6, <1>7, <2>1, <2>2, <2>3, LocalInv
<1>8. CASE Goto(p, "select") /\ Keep(p, j2)
  <2>1. j2 \in Job
    BY <1>1 DEF Job
  <2> QED
    BY <1>1, <1>2, <1>3, <1>4, <1>6, <1>8, <2>1, LocalInv
<1>9. CASE Goto(p, "idle") /\ Keep(p, NoJob)
  BY <1>1, <1>2, <1>3, <1>4, <1>6, <1>9, LocalInv
<1> QED
  BY <1>5, <1>7, <1>8, <1>9

\* Rotate writes the blind-index key.
LEMMA RotateKeyWriteInv ==
    ASSUME Inv, NEW p \in Rotators, RotateKeyWrite(p)
    PROVE  Inv'
<1> DEFINE j == [job[p] EXCEPT !.read = None, !.re = None]
<1>1. p \in Procs /\ TypeOK /\ ProcInv(p) /\ job[p] \in Job
  BY DEF Inv, Procs, TypeOK
<1>2. j \in Job
  BY <1>1 DEF Job
<1>3. tx[p] = NoTx /\ job[p].re # None
  BY <1>1 DEF RotateKeyWrite, ProcInv, NoneOpen, JobReady
<1>4. job[p].re \in Sealed
  BY <1>1, <1>3 DEF Job
<1>5. SharedOK
  BY <1>1, <1>4 DEF RotateKeyWrite, SharedOK, TypeOK
<1>6. Goto(p, "select") /\ Keep(p, j) /\ UNCHANGED tx /\ UNCHANGED config
      /\ rows' = rows /\ index' = index /\ lock' = lock /\ audit' = audit
  BY DEF RotateKeyWrite
<1>7. "select" \in Control \ {"put", "erase", "unindex", "rewrite", "rewritten"}
  BY DEF Control
<1> QED
  BY <1>1, <1>2, <1>3, <1>5, <1>6, <1>7, LocalInv

\* Rotate reads its next page.
LEMMA RotatePageInv ==
    ASSUME Inv, NEW p \in Rotators, RotatePage(p)
    PROVE  Inv'
<1> DEFINE S == {i \in Ids : RotateSelects(p, i)}
           j == [job[p] EXCEPT !.page = ReadPage(FirstPage(S))]
           l == IF FirstPage(S) = {} THEN "rotated" ELSE "rewrap"
<1>1. p \in Procs /\ TypeOK /\ ProcInv(p)
  BY DEF Inv, Procs
<1>2. j \in Job
  <2>1. S \in SUBSET Ids /\ \A i \in S : Live(i)
    BY DEF RotateSelects
  <2> QED
    BY <1>1, <2>1, NextPage
<1>3. tx[p] = NoTx
  BY <1>1 DEF RotatePage, ProcInv, NoneOpen
<1>4. SharedOK
  BY <1>1, Stays DEF RotatePage
<1>5. Goto(p, l) /\ Keep(p, j) /\ UNCHANGED tx /\ UNCHANGED config
      /\ rows' = rows /\ index' = index /\ lock' = lock /\ audit' = audit
  BY DEF RotatePage, tables
<1>6. l \in Control \ {"put", "erase", "unindex", "rewrite", "rewritten"}
      /\ l \notin {"idle", "key", "relock", "write", "keywrite"}
  BY DEF Control
<1> HIDE DEF l, j
<1> QED
  BY <1>1, <1>2, <1>3, <1>4, <1>5, <1>6, LocalInv

\* Rotate re-wraps the key of a row or skips it.
LEMMA RotateRewrapInv ==
    ASSUME Inv, NEW p \in Rotators, NEW i \in Ids, RotateRewrap(p, i)
    PROVE  Inv'
<1> DEFINE s == job[p].page[i]
           j1 == [job[p] EXCEPT !.last = i, !.cur = i, !.read = s, !.re = Rewrapped(p, s)]
           j2 == [job[p] EXCEPT !.last = i, !.page[i] = None]
           j3 == [job[p] EXCEPT !.last = i, !.page[i] = None, !.skipped = @ \cup {i}]
           l == IF PageIds(p) \ {i} = {} THEN "select" ELSE "rewrap"
<1>1. p \in Procs /\ TypeOK /\ ProcInv(p) /\ job[p] \in Job
  BY DEF Inv, Procs, TypeOK
<1>2. tx[p] = NoTx
  BY <1>1 DEF RotateRewrap, ProcInv, NoneOpen
<1>3. SharedOK
  BY <1>1, Stays DEF RotateRewrap
<1>4. UNCHANGED tx /\ UNCHANGED config
      /\ rows' = rows /\ index' = index /\ lock' = lock /\ audit' = audit
  BY DEF RotateRewrap, tables
<1>5. s # None /\ s \in Sealed
  BY <1>1 DEF RotateRewrap, NextOfPage, PageIds, Job
<1>6. [job[p].page EXCEPT ![i] = None] \in [Ids -> Sealed \cup {None}]
  BY <1>1 DEF Job
<1>7. j2 \in Job /\ j3 \in Job
  BY <1>1, <1>6, ConstantsAssumption DEF Job
<1>8. \/ Rewrapped(p, s) # s /\ Goto(p, "write") /\ Keep(p, j1)
      \/ Goto(p, l) /\ Keep(p, j2)
      \/ Goto(p, l) /\ Keep(p, j3)
  BY DEF RotateRewrap, Resume
<1>9. l \in Control \ {"put", "erase", "unindex", "rewrite", "rewritten"}
      /\ l \notin {"idle", "key", "relock", "write", "keywrite"}
      /\ "write" \in Control \ {"put", "erase", "unindex", "rewrite", "rewritten"}
  BY DEF Control
<1>10. CASE Rewrapped(p, s) # s /\ Goto(p, "write") /\ Keep(p, j1)
  <2>1. /\ Rewrapped(p, s) \in Sealed /\ Rewrapped(p, s) # None
        /\ Rewrapped(p, s).wrapped # Null
    BY <1>1, <1>10, RewrappedType
  <2>2. j1 \in Job /\ j1.cur = i /\ j1.read = s /\ j1.re = Rewrapped(p, s)
    BY <1>1, <1>5, <2>1, ConstantsAssumption DEF Job
  <2> HIDE DEF j1
  <2> QED
    BY <1>1, <1>2, <1>3, <1>4, <1>5, <1>9, <1>10, <2>1, <2>2, NoneAssumption, LocalInv
<1> HIDE DEF l, j2, j3
<1>11. CASE Goto(p, l) /\ Keep(p, j2)
  BY <1>1, <1>2, <1>3, <1>4, <1>7, <1>9, <1>11, LocalInv
<1>12. CASE Goto(p, l) /\ Keep(p, j3)
  BY <1>1, <1>2, <1>3, <1>4, <1>7, <1>9, <1>12, LocalInv
<1> QED
  BY <1>8, <1>10, <1>11, <1>12

\* A command exits.
LEMMA ExitInv ==
    ASSUME Inv, NEW p \in Procs, Exit(p)
    PROVE  Inv'
<1>1. TypeOK /\ ProcInv(p) /\ NoJob \in Job
  BY Types DEF Inv
<1>2. tx[p] = NoTx
  BY <1>1 DEF Exit, ProcInv, NoneOpen
<1>3. SharedOK
  BY <1>1, Stays DEF Exit
<1>4. Goto(p, "idle") /\ Keep(p, NoJob) /\ UNCHANGED tx /\ UNCHANGED config
      /\ rows' = rows /\ index' = index /\ lock' = lock /\ audit' = audit
  BY DEF Exit, Return, tables
<1>5. "idle" \in Control \ {"put", "erase", "unindex", "rewrite", "rewritten"}
  BY DEF Control
<1> QED
  BY <1>1, <1>2, <1>3, <1>4, <1>5, LocalInv

-----------------------------------------------------------------------------
(* Delete, DeleteSubject and rewriteIndex, until they commit *)

\* Delete locks and shreds its row, in its transaction.
LEMMA DeleteUpdateInv ==
    ASSUME Inv, NEW p \in Servers, NEW c \in Collections, NEW i \in Ids,
           DeleteUpdate(p, c, i)
    PROVE  Inv'
<1> DEFINE t == [tx[p] EXCEPT !.shred = {i}, !.todo = {i}]
<1>1. p \in Procs /\ TypeOK /\ ProcInv(p) /\ job[p] \in Job /\ tx[p] \in Tx
  BY DEF Inv, Procs, TypeOK
<1>2. tx[p] = NoTx /\ job[p] = NoJob /\ Live(i) /\ lock[i] = None
  BY <1>1 DEF DeleteUpdate, DeleteMatches, ProcInv, NoneOpen, JobReady
<1>3. /\ t \in Tx /\ t.shred = {i} /\ t.todo = {i} /\ t.rows = NoTx.rows
      /\ t.dels = {} /\ t.adds = {} /\ t.log = {}
  <2>1. NoTx.dels = {} /\ NoTx.adds = {} /\ NoTx.log = {}
    BY DEF NoTx
  <2>2. /\ t \in Tx /\ t.shred = {i} /\ t.todo = {i} /\ t.rows = tx[p].rows
        /\ t.dels = tx[p].dels /\ t.adds = tx[p].adds /\ t.log = tx[p].log
    BY <1>1 DEF Tx
  <2> QED
    BY <1>2, <2>1, <2>2
<1>4. /\ rows' = rows /\ index' = index /\ audit' = audit
      /\ lock' = [lock EXCEPT ![i] = p] /\ UNCHANGED config
  BY DEF DeleteUpdate, tables
<1>5. SharedOK
  BY <1>1 DEF DeleteUpdate, SharedOK, TypeOK, tables
<1>6. Moves(p, "unindex", job[p], t)
  BY <1>1, Stays DEF DeleteUpdate, Moves
<1> HIDE DEF t
<1>7. /\ TypeOK'
      /\ pc'[p] = "unindex" /\ job'[p] = job[p] /\ tx'[p] = t
      /\ \A q \in Procs \ {p} : pc'[q] = pc[q] /\ tx'[q] = tx[q] /\ job'[q] = job[q]
  BY <1>1, <1>3, <1>4, <1>5, <1>6, Moved DEF Control
<1>8. OnlyProc(p)
  BY <1>1, <1>2, <1>4, <1>7, NoneAssumption DEF OnlyProc, TypeOK
<1>9. New(p)' = {}
  BY <1>3, <1>7 DEF New, NoTx
<1>10. ShredSoFar(p)'
  <2>1. Live(i)' /\ lock'[i] = p
    BY <1>1, <1>2, <1>4 DEF Live, TypeOK
  <2> QED
    BY <1>3, <1>7, <1>9, <2>1 DEF ShredSoFar
<1>11. EraseSoFar(p)'
  BY <1>2, <1>7 DEF EraseSoFar, PageIds, NoJob, NoPage
<1>12. ProcInv(p)'
  BY <1>7, <1>10, <1>11 DEF ProcInv, NoneOpen, PutSoFar, RewriteSoFar, JobReady
<1> QED
  BY <1>1, <1>7, <1>8, <1>9, <1>12, OnlyProcInv

\* DeleteSubject's UPDATE takes its snapshot.
LEMMA EraseBeginInv ==
    ASSUME Inv, NEW p \in Servers, NEW s \in Subjects, EraseBegin(p, s)
    PROVE  Inv'
<1> DEFINE S == {i \in Ids : SubjectMatches(s, i)}
           t == [tx[p] EXCEPT !.todo = S]
           j == [job[p] EXCEPT !.page = ReadPage(S)]
<1>1. p \in Procs /\ TypeOK /\ ProcInv(p) /\ job[p] \in Job /\ tx[p] \in Tx
  BY DEF Inv, Procs, TypeOK
<1>2. tx[p] = NoTx
  BY <1>1 DEF EraseBegin, ProcInv, NoneOpen
<1>3. /\ t \in Tx /\ t.shred = {} /\ t.todo = S /\ t.rows = NoTx.rows
      /\ t.dels = {} /\ t.adds = {} /\ t.log = {}
  BY <1>1, <1>2 DEF Tx, NoTx
<1>4. /\ ReadPage(S) \in [Ids -> Sealed \cup {None}]
      /\ \A i \in Ids : ReadPage(S)[i] # None <=> i \in S
  BY <1>1, ReadPageType DEF SubjectMatches, Live
<1>5. j \in Job /\ j.page = ReadPage(S)
  BY <1>1, <1>4 DEF Job
<1>6. rows' = rows /\ index' = index /\ lock' = lock /\ audit' = audit /\ UNCHANGED config
  BY DEF EraseBegin, tables
<1>7. SharedOK
  BY <1>1, Stays DEF EraseBegin
<1>8. Moves(p, "erase", j, t)
  BY DEF EraseBegin, Moves
<1> HIDE DEF t, j, S
<1>9. /\ TypeOK'
      /\ pc'[p] = "erase" /\ job'[p] = j /\ tx'[p] = t
      /\ \A q \in Procs \ {p} : pc'[q] = pc[q] /\ tx'[q] = tx[q] /\ job'[q] = job[q]
  BY <1>1, <1>3, <1>5, <1>6, <1>7, <1>8, Moved DEF Control
<1>10. OnlyProc(p)
  BY <1>6, <1>9 DEF OnlyProc
<1>11. New(p)' = {}
  BY <1>3, <1>9 DEF New, NoTx
<1>12. ShredSoFar(p)'
  BY <1>3, <1>9, <1>11 DEF ShredSoFar
<1>13. EraseSoFar(p)'
  <2>1. \A i \in S : rows'[i] # None
    BY <1>6 DEF S, SubjectMatches, Live
  <2> QED
    BY <1>3, <1>4, <1>5, <1>9, <2>1 DEF EraseSoFar, PageIds
<1>14. ProcInv(p)'
  BY <1>9, <1>12, <1>13 DEF ProcInv, NoneOpen, PutSoFar, RewriteSoFar, JobReady
<1> QED
  BY <1>1, <1>9, <1>10, <1>11, <1>14, OnlyProcInv

\* DeleteSubject's UPDATE picks its next row.
LEMMA EraseScanInv ==
    ASSUME Inv, NEW p \in Servers, NEW i \in Ids, EraseScan(p, i)
    PROVE  Inv'
<1> DEFINE j == [job[p] EXCEPT !.cur = i]
<1>1. p \in Procs /\ TypeOK /\ ProcInv(p) /\ job[p] \in Job /\ tx[p] \in Tx
      /\ pc[p] \in Control
  BY DEF Inv, Procs, TypeOK
<1>2. j \in Job /\ j.page = job[p].page
  BY <1>1 DEF Job
<1>3. rows' = rows /\ index' = index /\ lock' = lock /\ audit' = audit /\ UNCHANGED config
  BY DEF EraseScan, tables
<1>4. SharedOK
  BY <1>1, Stays DEF EraseScan
<1>5. Moves(p, pc[p], j, tx[p])
  BY <1>1, Stays DEF EraseScan, Moves
<1> HIDE DEF j
<1>6. /\ TypeOK'
      /\ pc'[p] = pc[p] /\ job'[p] = j /\ tx'[p] = tx[p]
      /\ \A q \in Procs \ {p} : pc'[q] = pc[q] /\ tx'[q] = tx[q] /\ job'[q] = job[q]
  BY <1>1, <1>2, <1>3, <1>4, <1>5, Moved
<1>7. OnlyProc(p)
  BY <1>3, <1>6 DEF OnlyProc
<1>8. New(p)' = New(p) /\ PageIds(p)' = PageIds(p) /\ \A k \in Ids : Live(k)' = Live(k)
  BY <1>2, <1>3, <1>6 DEF New, PageIds, Live
<1>9. pc[p] = "erase"
  BY DEF EraseScan
<1>10. ShredSoFar(p)'
  BY <1>1, <1>3, <1>6, <1>8 DEF ProcInv, ShredSoFar, Tx
<1>11. EraseSoFar(p)'
  <2>1. \A k \in PageIds(p) : rows[k] # None /\ (k \in tx[p].todo \/ k \in tx[p].shred \/ ~Live(k))
    BY <1>1, <1>9 DEF ProcInv, EraseSoFar
  <2> QED
    BY <1>3, <1>6, <1>8, <1>9, <2>1 DEF EraseSoFar, PageIds
<1>12. ProcInv(p)'
  BY <1>6, <1>9, <1>10, <1>11 DEF ProcInv, NoneOpen, PutSoFar, RewriteSoFar, JobReady
<1>13. \A k \in New(p)' : \A q \in Procs \ {p} : k \notin New(q)
  BY <1>1, <1>8 DEF Inv, NewDisjoint
<1> QED
  BY <1>1, <1>6, <1>7, <1>12, <1>13, OnlyProcInv

\* DeleteSubject's UPDATE gets a row's lock and looks at the row again.
LEMMA EraseLockInv ==
    ASSUME Inv, NEW p \in Servers, EraseLock(p)
    PROVE  Inv'
<1> DEFINE i == job[p].cur
           j == [job[p] EXCEPT !.cur = None]
           t == [tx[p] EXCEPT !.shred = IF Live(i) THEN @ \cup {i} ELSE @, !.todo = @ \ {i}]
<1>1. p \in Procs /\ TypeOK /\ ProcInv(p) /\ job[p] \in Job /\ tx[p] \in Tx
      /\ pc[p] \in Control
  BY DEF Inv, Procs, TypeOK
<1>2. pc[p] = "erase" /\ i \in Ids /\ lock[i] = None
  BY <1>1 DEF EraseLock, Job
<1>3. j \in Job /\ j.page = job[p].page
  BY <1>1 DEF Job
<1>4. /\ t \in Tx /\ t.rows = tx[p].rows /\ t.dels = tx[p].dels
      /\ t.adds = tx[p].adds /\ t.log = tx[p].log /\ t.todo = tx[p].todo \ {i}
      /\ t.shred = IF Live(i) THEN tx[p].shred \cup {i} ELSE tx[p].shred
  BY <1>1, <1>2 DEF Tx
<1>5. rows' = rows /\ index' = index /\ audit' = audit /\ UNCHANGED config
  BY DEF EraseLock, tables
<1>6. lock' = IF Live(i) THEN [lock EXCEPT ![i] = p] ELSE lock
  BY DEF EraseLock
<1>7. SharedOK
  BY <1>1, <1>2, <1>6 DEF EraseLock, SharedOK, TypeOK, tables
<1>8. Moves(p, pc[p], j, t)
  <2>1. Goto(p, pc[p]) /\ Keep(p, j)
    BY <1>1, Stays DEF EraseLock
  <2>2. Stage(p, t)
    <3>1. CASE Live(i)
      BY <3>1 DEF EraseLock
    <3>2. CASE ~Live(i)
      <4>1. t = [tx[p] EXCEPT !.todo = @ \ {i}]
        BY <1>1, <3>2 DEF Tx
      <4> QED
        BY <3>2, <4>1 DEF EraseLock
    <3> QED
      BY <3>1, <3>2
  <2> QED
    BY <2>1, <2>2 DEF Moves
<1> HIDE DEF i, j, t
<1>9. /\ TypeOK'
      /\ pc'[p] = pc[p] /\ job'[p] = j /\ tx'[p] = t
      /\ \A q \in Procs \ {p} : pc'[q] = pc[q] /\ tx'[q] = tx[q] /\ job'[q] = job[q]
  BY <1>1, <1>3, <1>4, <1>5, <1>7, <1>8, Moved
<1>10. OnlyProc(p)
  BY <1>1, <1>2, <1>5, <1>6, <1>9, NoneAssumption DEF OnlyProc, TypeOK
<1>11. New(p)' = New(p) /\ PageIds(p)' = PageIds(p) /\ \A k \in Ids : Live(k)' = Live(k)
  BY <1>3, <1>4, <1>5, <1>9 DEF New, PageIds, Live
<1>12. ShredSoFar(p)'
  <2>1. /\ New(p) = {} /\ tx[p].adds = {} /\ tx[p].dels = {} /\ tx[p].log = {}
        /\ \A k \in tx[p].shred : Live(k) /\ lock[k] = p
    BY <1>1, <1>2 DEF ProcInv, ShredSoFar
  <2>2. \A k \in t.shred : k \in Ids /\ Live(k) /\ lock'[k] = p
    BY <1>1, <1>2, <1>4, <1>6, <2>1 DEF Tx, TypeOK
  <2> QED
    BY <1>2, <1>4, <1>9, <1>11, <2>1, <2>2 DEF ShredSoFar
<1>13. EraseSoFar(p)'
  <2>1. \A k \in PageIds(p) : rows[k] # None /\ (k \in tx[p].todo \/ k \in tx[p].shred \/ ~Live(k))
    BY <1>1, <1>2 DEF ProcInv, EraseSoFar
  <2>2. \A k \in PageIds(p) : rows[k] # None /\ (k \in t.todo \/ k \in t.shred \/ ~Live(k))
    BY <1>4, <2>1
  <2> QED
    BY <1>2, <1>5, <1>9, <1>11, <2>2 DEF EraseSoFar, PageIds
<1>14. ProcInv(p)'
  BY <1>2, <1>9, <1>12, <1>13 DEF ProcInv, NoneOpen, PutSoFar, RewriteSoFar, JobReady
<1>15. \A k \in New(p)' : \A q \in Procs \ {p} : k \notin New(q)
  BY <1>1, <1>11 DEF Inv, NewDisjoint
<1> QED
  BY <1>1, <1>9, <1>10, <1>14, <1>15, OnlyProcInv

\* DeleteSubject's UPDATE returns.
LEMMA EraseReturnInv ==
    ASSUME Inv, NEW p \in Servers, EraseReturn(p)
    PROVE  Inv'
<1> DEFINE t == [tx[p] EXCEPT !.todo = tx[p].shred]
<1>1. p \in Procs /\ TypeOK /\ ProcInv(p) /\ job[p] \in Job /\ tx[p] \in Tx
  BY DEF Inv, Procs, TypeOK
<1>2. pc[p] = "erase" /\ tx[p].todo = {}
  BY DEF EraseReturn
<1>3. /\ t \in Tx /\ t.rows = tx[p].rows /\ t.dels = tx[p].dels
      /\ t.adds = tx[p].adds /\ t.log = tx[p].log
      /\ t.todo = tx[p].shred /\ t.shred = tx[p].shred
  BY <1>1 DEF Tx
<1>4. rows' = rows /\ index' = index /\ lock' = lock /\ audit' = audit /\ UNCHANGED config
  BY DEF EraseReturn, tables
<1>5. SharedOK
  BY <1>1, Stays DEF EraseReturn
<1>6. Moves(p, "unindex", job[p], t)
  BY <1>1, Stays DEF EraseReturn, Moves
<1> HIDE DEF t
<1>7. /\ TypeOK'
      /\ pc'[p] = "unindex" /\ job'[p] = job[p] /\ tx'[p] = t
      /\ \A q \in Procs \ {p} : pc'[q] = pc[q] /\ tx'[q] = tx[q] /\ job'[q] = job[q]
  BY <1>1, <1>3, <1>4, <1>5, <1>6, Moved DEF Control
<1>8. OnlyProc(p)
  BY <1>4, <1>7 DEF OnlyProc
<1>9. New(p)' = New(p) /\ PageIds(p)' = PageIds(p) /\ \A k \in Ids : Live(k)' = Live(k)
  BY <1>3, <1>4, <1>7 DEF New, PageIds, Live
<1>10. ShredSoFar(p)'
  <2>1. /\ New(p) = {} /\ tx[p].adds = {} /\ tx[p].dels = {} /\ tx[p].log = {}
        /\ \A k \in tx[p].shred : k \in Ids /\ Live(k) /\ lock[k] = p
    BY <1>1, <1>2 DEF ProcInv, ShredSoFar, Tx
  <2> QED
    BY <1>3, <1>4, <1>7, <1>9, <2>1 DEF ShredSoFar
<1>11. EraseSoFar(p)'
  <2>1. \A k \in PageIds(p) : rows[k] # None /\ (k \in tx[p].shred \/ ~Live(k))
    BY <1>1, <1>2 DEF ProcInv, EraseSoFar
  <2> QED
    BY <1>3, <1>4, <1>7, <1>9, <2>1 DEF EraseSoFar, PageIds
<1>12. ProcInv(p)'
  BY <1>7, <1>10, <1>11 DEF ProcInv, NoneOpen, PutSoFar, RewriteSoFar, JobReady
<1>13. \A k \in New(p)' : \A q \in Procs \ {p} : k \notin New(q)
  BY <1>1, <1>9 DEF Inv, NewDisjoint
<1> QED
  BY <1>1, <1>7, <1>8, <1>12, <1>13, OnlyProcInv

\* The index rows of a shredded object are deleted and its line is appended, in
\* the transaction.
LEMMA UnindexInv ==
    ASSUME Inv, NEW p \in Servers, NEW i \in Ids, Unindex(p, i)
    PROVE  Inv'
<1> DEFINE E == EntriesOf(rows[i].collection, i)
           t == [tx[p] EXCEPT !.todo = @ \ {i}, !.dels = @ \cup E,
                              !.log = @ \cup {<<"delete", i>>}]
<1>1. p \in Procs /\ TypeOK /\ ProcInv(p) /\ job[p] \in Job /\ tx[p] \in Tx
      /\ pc[p] \in Control
  BY DEF Inv, Procs, TypeOK
<1>2. pc[p] = "unindex" /\ i \in tx[p].todo
  BY DEF Unindex
<1>3. E \subseteq Entry /\ \A e \in E : e.id = i
  BY <1>1 DEF EntriesOf, TypeOK
<1>4. /\ t \in Tx /\ t.rows = tx[p].rows /\ t.dels = tx[p].dels \cup E
      /\ t.adds = tx[p].adds /\ t.log = tx[p].log \cup {<<"delete", i>>}
      /\ t.todo = tx[p].todo \ {i} /\ t.shred = tx[p].shred
  BY <1>1, <1>3, Lines DEF Tx
<1>5. rows' = rows /\ index' = index /\ lock' = lock /\ audit' = audit /\ UNCHANGED config
  BY DEF Unindex, tables
<1>6. SharedOK
  BY <1>1, Stays DEF Unindex
<1>7. Moves(p, pc[p], job[p], t)
  BY <1>1, Stays DEF Unindex, Moves
<1> HIDE DEF t
<1>8. /\ TypeOK'
      /\ pc'[p] = pc[p] /\ job'[p] = job[p] /\ tx'[p] = t
      /\ \A q \in Procs \ {p} : pc'[q] = pc[q] /\ tx'[q] = tx[q] /\ job'[q] = job[q]
  BY <1>1, <1>4, <1>5, <1>6, <1>7, Moved
<1>9. OnlyProc(p)
  BY <1>5, <1>8 DEF OnlyProc
<1>10. New(p)' = New(p) /\ PageIds(p)' = PageIds(p) /\ \A k \in Ids : Live(k)' = Live(k)
  BY <1>4, <1>5, <1>8 DEF New, PageIds, Live
<1>11. ShredSoFar(p)'
  <2>1. /\ New(p) = {} /\ tx[p].adds = {}
        /\ \A k \in tx[p].shred : k \in Ids /\ Live(k) /\ lock[k] = p
        /\ tx[p].todo \subseteq tx[p].shred
        /\ tx[p].log = {<<"delete", k>> : k \in tx[p].shred \ tx[p].todo}
        /\ \A e \in tx[p].dels : e.id \in tx[p].shred
        /\ \A e \in index : e.id \in tx[p].shred \ tx[p].todo => e \in tx[p].dels
    BY <1>1, <1>2 DEF ProcInv, ShredSoFar, Tx
  <2>2. \A e \in index : e.id = i => e \in E
    BY DEF Inv, IndexOnlyLive, EntriesOf
  <2>3. t.log = {<<"delete", k>> : k \in t.shred \ t.todo}
    BY <1>2, <1>4, <2>1
  <2>4. \A e \in index : e.id \in t.shred \ t.todo => e \in t.dels
    BY <1>4, <2>1, <2>2
  <2>5. t.todo \subseteq t.shred /\ \A e \in t.dels : e.id \in t.shred
    BY <1>2, <1>3, <1>4, <2>1
  <2> QED
    BY <1>2, <1>4, <1>5, <1>8, <1>10, <2>1, <2>3, <2>4, <2>5 DEF ShredSoFar
<1>12. EraseSoFar(p)'
  <2>1. \A k \in PageIds(p) : rows[k] # None /\ (k \in tx[p].shred \/ ~Live(k))
    BY <1>1, <1>2 DEF ProcInv, EraseSoFar
  <2> QED
    BY <1>4, <1>5, <1>8, <1>10, <2>1 DEF EraseSoFar, PageIds
<1>13. ProcInv(p)'
  BY <1>2, <1>8, <1>11, <1>12 DEF ProcInv, NoneOpen, PutSoFar, RewriteSoFar, JobReady
<1>14. \A k \in New(p)' : \A q \in Procs \ {p} : k \notin New(q)
  BY <1>1, <1>10 DEF Inv, NewDisjoint
<1> QED
  BY <1>1, <1>8, <1>9, <1>13, <1>14, OnlyProcInv

\* rewriteIndex locks its row, or finds it shredded.
LEMMA RewriteLockInv ==
    ASSUME Inv, NEW p \in Reindexers, RewriteLock(p)
    PROVE  Inv'
<1> DEFINE i == job[p].cur
           j == [job[p] EXCEPT !.cur = None, !.page[i] = None, !.done = @ \cup {i}]
           l == IF PageIds(p) \ {i} = {} THEN "scan" ELSE "open"
<1>1. p \in Procs /\ TypeOK /\ ProcInv(p) /\ job[p] \in Job /\ tx[p] \in Tx
  BY DEF Inv, Procs, TypeOK
<1>2. pc[p] = "relock" /\ i \in Ids /\ i # None /\ lock[i] = None /\ tx[p] = NoTx
  BY <1>1 DEF RewriteLock, Job, ProcInv, NoneOpen, JobReady
<1>3. rows' = rows /\ index' = index /\ audit' = audit /\ UNCHANGED tx /\ UNCHANGED config
  BY DEF RewriteLock, tables
<1>4. CASE Live(i)
  <2>1. lock' = [lock EXCEPT ![i] = p]
    BY <1>4 DEF RewriteLock
  <2>2. SharedOK
    BY <1>1, <2>1 DEF RewriteLock, SharedOK, TypeOK, tables
  <2>3. Moves(p, "rewrite", job[p], tx[p])
    BY <1>1, <1>4, Stays DEF RewriteLock, Moves
  <2> HIDE DEF i
  <2>4. /\ TypeOK'
        /\ pc'[p] = "rewrite" /\ job'[p] = job[p] /\ tx'[p] = tx[p]
        /\ \A q \in Procs \ {p} : pc'[q] = pc[q] /\ tx'[q] = tx[q] /\ job'[q] = job[q]
    BY <1>1, <1>3, <2>2, <2>3, Moved DEF Control
  <2>5. OnlyProc(p)
    BY <1>1, <1>2, <1>3, <2>1, <2>4, NoneAssumption DEF OnlyProc, TypeOK
  <2>6. New(p)' = {}
    BY <1>2, <2>4 DEF New, NoTx
  <2>7. RewriteSoFar(p)'
    <3>1. rows'[i] # None /\ ~rows'[i].deleted /\ lock'[i] = p
      BY <1>1, <1>2, <1>3, <1>4, <2>1 DEF Live, TypeOK
    <3>2. NoTx.shred = {} /\ NoTx.todo = {}
      BY DEF NoTx
    <3>3. job'[p].cur = i
      BY <2>4 DEF i
    <3> QED
      BY <1>2, <2>4, <2>6, <3>1, <3>2, <3>3 DEF RewriteSoFar, Live
  <2>8. ProcInv(p)'
    BY <2>4, <2>7 DEF ProcInv, NoneOpen, PutSoFar, ShredSoFar, JobReady, EraseSoFar
  <2> QED
    BY <1>1, <2>4, <2>5, <2>6, <2>8, OnlyProcInv
<1>5. CASE ~Live(i)
  <2>1. lock' = lock /\ Goto(p, l) /\ Keep(p, j)
    BY <1>5 DEF RewriteLock, Resume
  <2>2. SharedOK
    BY <1>1, <2>1, Stays DEF RewriteLock
  <2>3. j \in Job
    <3>1. [job[p].page EXCEPT ![i] = None] \in [Ids -> Sealed \cup {None}]
      BY <1>1 DEF Job
    <3> QED
      BY <1>1, <1>2, <3>1 DEF Job
  <2>4. l \in Control \ {"put", "erase", "unindex", "rewrite", "rewritten"}
        /\ l \notin {"idle", "key", "relock", "write", "keywrite"}
    BY DEF Control
  <2> HIDE DEF l, j
  <2> QED
    BY <1>1, <1>2, <1>3, <2>1, <2>2, <2>3, <2>4, LocalInv
<1> QED
  BY <1>4, <1>5

\* rewriteIndex replaces the index rows, in its transaction.
LEMMA RewriteInv ==
    ASSUME Inv, NEW p \in Reindexers, Rewrite(p)
    PROVE  Inv'
<1> DEFINE i == job[p].cur
           c == rows[i].collection
           A == Indexed(p, c, i, rows[i].has)
           t == [tx[p] EXCEPT !.dels = EntriesOf(c, i), !.adds = A,
                              !.log = {<<"reindex", i>>}]
<1>1. p \in Procs /\ TypeOK /\ ProcInv(p) /\ job[p] \in Job /\ tx[p] \in Tx
  BY DEF Inv, Procs, TypeOK
<1>2. pc[p] = "rewrite" /\ i \in Ids /\ i # None /\ Live(i) /\ lock[i] = p /\ tx[p] = NoTx
  BY <1>1 DEF Rewrite, ProcInv, RewriteSoFar, Job
<1>3. c \in Collections /\ rows[i].has \in SUBSET Fields
  <2>1. rows[i] \in Row
    BY <1>1, <1>2 DEF TypeOK, Live
  <2> QED
    BY <2>1 DEF Row
<1>4. A \subseteq Entry /\ \A e \in A : e.id = i /\ e.collection = c
  BY <1>1, <1>2, <1>3, IndexedType
<1>5. EntriesOf(c, i) \subseteq Entry /\ \A e \in EntriesOf(c, i) : e.id = i
  BY <1>1 DEF EntriesOf, TypeOK
<1>6. /\ t \in Tx /\ t.rows = NoTx.rows /\ t.shred = {} /\ t.todo = {}
      /\ t.dels = EntriesOf(c, i) /\ t.adds = A /\ t.log = {<<"reindex", i>>}
  <2>1. {<<"reindex", i>>} \subseteq Line
    BY <1>2, Lines
  <2>2. NoTx.shred = {} /\ NoTx.todo = {}
    BY DEF NoTx
  <2> HIDE DEF A, c, i
  <2>3. /\ t \in Tx /\ t.rows = tx[p].rows /\ t.shred = tx[p].shred /\ t.todo = tx[p].todo
        /\ t.dels = EntriesOf(c, i) /\ t.adds = A /\ t.log = {<<"reindex", i>>}
    BY <1>1, <1>4, <1>5, <2>1 DEF Tx
  <2> QED
    BY <1>2, <2>2, <2>3
<1>7. rows' = rows /\ index' = index /\ lock' = lock /\ audit' = audit /\ UNCHANGED config
  BY DEF Rewrite, tables
<1>8. SharedOK
  BY <1>1, Stays DEF Rewrite
<1>9. Moves(p, "rewritten", job[p], t)
  BY <1>1, Stays DEF Rewrite, Moves
<1> HIDE DEF t, A
<1>10. /\ TypeOK'
       /\ pc'[p] = "rewritten" /\ job'[p] = job[p] /\ tx'[p] = t
       /\ \A q \in Procs \ {p} : pc'[q] = pc[q] /\ tx'[q] = tx[q] /\ job'[q] = job[q]
  BY <1>1, <1>6, <1>7, <1>8, <1>9, Moved DEF Control
<1>11. OnlyProc(p)
  BY <1>7, <1>10 DEF OnlyProc
<1>12. New(p)' = {}
  BY <1>6, <1>10 DEF New, NoTx
<1>13. RewriteSoFar(p)'
  <2>1. \A e \in index : e.id = i => e \in EntriesOf(c, i)
    BY DEF Inv, IndexOnlyLive, EntriesOf
  <2>2. rows'[i] # None /\ ~rows'[i].deleted /\ lock'[i] = p /\ c = rows'[i].collection
    BY <1>2, <1>7 DEF Live
  <2>3. job'[p].cur = i
    BY <1>10
  <2>4. /\ \A e \in t.dels : e.id = i
        /\ \A e \in index' : e.id = i => e \in t.dels
        /\ \A e \in t.adds : e.id = i /\ e.collection = rows'[e.id].collection
    BY <1>4, <1>5, <1>6, <1>7, <2>1, <2>2
  <2> HIDE DEF i, c
  <2> QED
    BY <1>2, <1>6, <1>10, <1>12, <2>2, <2>3, <2>4 DEF RewriteSoFar, Live
<1>14. ProcInv(p)'
  BY <1>10, <1>13 DEF ProcInv, NoneOpen, PutSoFar, ShredSoFar, JobReady, EraseSoFar
<1> QED
  BY <1>1, <1>10, <1>11, <1>12, <1>14, OnlyProcInv

\* Abort and the deadlock detector.
LEMMA LeaveInv ==
    ASSUME Inv, NEW p \in Procs, Leave(p), UNCHANGED <<tables, stdout, revealed, config>>
    PROVE  Inv'
<1>1. TypeOK /\ NoTx \in Tx /\ NoJob \in Job
  BY Types DEF Inv
<1>2. rows' = rows /\ index' = index /\ audit' = audit /\ UNCHANGED config
      /\ lock' = Unlocked(p)
  BY DEF tables, Leave
<1>3. SharedOK
  BY <1>1, <1>2 DEF SharedOK, TypeOK, tables, Unlocked
<1>4. Moves(p, "idle", NoJob, NoTx)
  BY DEF Leave, Return, Moves
<1>5. /\ TypeOK'
      /\ pc'[p] = "idle" /\ job'[p] = NoJob /\ tx'[p] = NoTx
      /\ \A q \in Procs \ {p} : pc'[q] = pc[q] /\ tx'[q] = tx[q] /\ job'[q] = job[q]
  BY <1>1, <1>2, <1>3, <1>4, Moved DEF Control
<1>6. OnlyProc(p)
  BY <1>2, <1>5 DEF OnlyProc, Unlocked
<1>7. New(p)' = {}
  BY <1>5 DEF New, NoTx
<1>8. ProcInv(p)'
  BY <1>5 DEF ProcInv, NoneOpen, PutSoFar, ShredSoFar, RewriteSoFar, JobReady, EraseSoFar
<1> QED
  BY <1>5, <1>6, <1>7, <1>8, OnlyProcInv

-----------------------------------------------------------------------------
(* Commits, and Rotate's UPDATE *)

\* What a step of process p leaves to the others: their locals and locks, the
\* live rows they hold locks on and the index rows of those, the ids of the
\* rows they are about to insert, and every shredded row.
Spares(p) ==
    /\ \A q \in Procs \ {p} : pc'[q] = pc[q] /\ tx'[q] = tx[q] /\ job'[q] = job[q]
    /\ \A i \in Ids : \A q \in Procs \ {p} : lock[i] = q => lock'[i] = q
    /\ \A i \in Ids : \A q \in Procs \ {p} : lock[i] = q /\ Live(i) =>
         /\ rows'[i] = rows[i]
         /\ \A e \in index' : e.id = i => e \in index
    /\ \A q \in Procs \ {p} : \A i \in New(q) : rows'[i] = rows[i]
    /\ \A i \in Ids : rows[i] # None =>
         rows'[i] # None /\ (rows[i].deleted => rows'[i] = rows[i])

\* A step that changes only rows which other processes neither lock nor insert
\* keeps the others' parts of Inv.
LEMMA SparedInv ==
    ASSUME Inv, NEW p \in Procs, Spares(p), NEW q \in Procs \ {p}
    PROVE  ProcInv(q)'
<1>1. ProcInv(q) /\ pc'[q] = pc[q] /\ tx'[q] = tx[q] /\ job'[q] = job[q]
      /\ tx[q] \in Tx /\ job[q] \in Job
  BY DEF Inv, Spares, TypeOK
<1>2. New(q)' = New(q) /\ PageIds(q)' = PageIds(q)
  BY <1>1 DEF New, PageIds
<1>3. NoneOpen(q)' /\ JobReady(q)'
  BY <1>1 DEF ProcInv, NoneOpen, JobReady
<1>4. PutSoFar(q)'
  <2>1. \A i \in New(q) : rows'[i] = rows[i]
    BY DEF Spares
  <2> QED
    BY <1>1, <1>2, <2>1 DEF ProcInv, PutSoFar
<1>5. \A i \in Ids : lock[i] = q /\ Live(i) =>
        /\ lock'[i] = q /\ rows'[i] = rows[i] /\ rows'[i] # None /\ ~rows'[i].deleted
        /\ \A e \in index' : e.id = i => e \in index
  BY DEF Spares, Live
<1>6. ShredSoFar(q)'
  <2> SUFFICES ASSUME pc[q] \in {"erase", "unindex"} PROVE ShredSoFar(q)'
    BY <1>1 DEF ShredSoFar
  <2>1. ShredSoFar(q)
    BY <1>1 DEF ProcInv
  <2>2. \A i \in tx[q].shred : i \in Ids /\ Live(i) /\ lock[i] = q
    BY <1>1, <2>1 DEF ShredSoFar, Tx
  <2>3. \A e \in index' : e.id \in tx[q].shred => e \in index
    BY <1>5, <2>2
  <2>4. \A i \in tx[q].shred : rows'[i] # None /\ ~rows'[i].deleted /\ lock'[i] = q
    BY <1>5, <2>2
  <2> QED
    BY <1>1, <1>2, <2>1, <2>3, <2>4 DEF ShredSoFar, Live
<1>7. RewriteSoFar(q)'
  <2> SUFFICES ASSUME pc[q] \in {"rewrite", "rewritten"} PROVE RewriteSoFar(q)'
    BY <1>1 DEF RewriteSoFar
  <2>1. RewriteSoFar(q)
    BY <1>1 DEF ProcInv
  <2>2. job[q].cur \in Ids /\ Live(job[q].cur) /\ lock[job[q].cur] = q
    BY <1>1, <2>1 DEF RewriteSoFar, Job
  <2>3. /\ lock'[job[q].cur] = q /\ rows'[job[q].cur] = rows[job[q].cur]
        /\ rows'[job[q].cur] # None /\ ~rows'[job[q].cur].deleted
        /\ \A e \in index' : e.id = job[q].cur => e \in index
    BY <1>5, <2>2
  <2> QED
    BY <1>1, <1>2, <2>1, <2>3 DEF RewriteSoFar, Live
<1>8. EraseSoFar(q)'
  <2> SUFFICES ASSUME pc[q] \in {"erase", "unindex"} PROVE EraseSoFar(q)'
    BY <1>1 DEF EraseSoFar
  <2>1. \A i \in PageIds(q) : /\ i \in Ids /\ rows[i] # None
                             /\ \/ pc[q] = "erase" /\ i \in tx[q].todo
                                \/ i \in tx[q].shred
                                \/ rows[i].deleted
    BY <1>1 DEF ProcInv, EraseSoFar, PageIds, Live
  <2>2. \A i \in PageIds(q) : rows'[i] # None /\ (rows[i].deleted => rows'[i].deleted)
    BY <2>1 DEF Spares
  <2> QED
    BY <1>1, <1>2, <2>1, <2>2 DEF EraseSoFar, Live
<1> QED
  BY <1>3, <1>4, <1>6, <1>7, <1>8 DEF ProcInv

\* Rotate writes a re-wrapped key, if the row is still live and under the key
\* that was read.
LEMMA RotateWriteInv ==
    ASSUME Inv, NEW p \in Rotators, RotateWrite(p)
    PROVE  Inv'
<1> DEFINE i == job[p].cur
           s == job[p].re
           j == [job[p] EXCEPT !.cur = None, !.page[i] = None, !.read = None, !.re = None]
           l == IF PageIds(p) \ {i} = {} THEN "select" ELSE "rewrap"
<1>1. p \in Procs /\ TypeOK /\ ProcInv(p) /\ job[p] \in Job /\ tx[p] \in Tx
  BY DEF Inv, Procs, TypeOK
<1>2. i \in Ids /\ lock[i] = None /\ s \in Sealed /\ s.wrapped # Null /\ tx[p] = NoTx
  BY <1>1 DEF RotateWrite, ProcInv, NoneOpen, JobReady, Job
<1>3. \/ rows' = rows
      \/ Live(i) /\ rows' = [rows EXCEPT ![i] = Rewritten(rows[i], s)]
  BY DEF RotateWrite, RotateMatches
<1>4. index' = index /\ lock' = lock /\ audit' = audit /\ UNCHANGED config
  BY DEF RotateWrite
<1>5. j \in Job
  <2>1. [job[p].page EXCEPT ![i] = None] \in [Ids -> Sealed \cup {None}]
    BY <1>1 DEF Job
  <2> QED
    BY <1>1, <2>1 DEF Job
<1>6. l \in Control /\ l \in {"select", "rewrap"}
  BY DEF Control
<1>7. Moves(p, l, j, tx[p])
  BY <1>1, Stays DEF RotateWrite, Moves, Resume
<1> HIDE DEF i, s, j, l
<1>8. Live(i) => /\ Rewritten(rows[i], s) \in Row
                 /\ ~Rewritten(rows[i], s).deleted
                 /\ Rewritten(rows[i], s).wrapped # Null
                 /\ Rewritten(rows[i], s).collection = rows[i].collection
  <2> SUFFICES ASSUME Live(i) PROVE /\ Rewritten(rows[i], s) \in Row
                                    /\ ~Rewritten(rows[i], s).deleted
                                    /\ Rewritten(rows[i], s).wrapped # Null
                                    /\ Rewritten(rows[i], s).collection = rows[i].collection
    OBVIOUS
  <2>1. rows[i] \in Row /\ ~rows[i].deleted
    BY <1>1, <1>2 DEF TypeOK, Live
  <2> QED
    BY <1>2, <2>1 DEF Rewritten, Row, Sealed
<1>9. \A k \in Ids : \/ rows'[k] = rows[k]
                     \/ /\ k = i /\ Live(k)
                        /\ rows'[k] \in Row /\ rows'[k] # None
                        /\ ~rows'[k].deleted /\ rows'[k].wrapped # Null
                        /\ rows'[k].collection = rows[k].collection
  BY <1>1, <1>2, <1>3, <1>8, NoneAssumption DEF TypeOK
<1>10. SharedOK
  <2>1. rows' \in [Ids -> Row \cup {None}]
    BY <1>1, <1>2, <1>3, <1>8 DEF TypeOK
  <2> QED
    BY <1>1, <1>4, <2>1 DEF RotateWrite, SharedOK, TypeOK
<1>11. /\ TypeOK'
       /\ pc'[p] = l /\ job'[p] = j /\ tx'[p] = tx[p]
       /\ \A q \in Procs \ {p} : pc'[q] = pc[q] /\ tx'[q] = tx[q] /\ job'[q] = job[q]
  BY <1>1, <1>4, <1>5, <1>6, <1>7, <1>10, Moved
<1>12. Spares(p)
  <2>1. \A q \in Procs : \A k \in New(q) : k \in Ids /\ rows[k] = None
    BY DEF Inv, ProcInv, NoneOpen, PutSoFar, ShredSoFar, RewriteSoFar, New, NoTx
  <2>2. \A k \in Ids : rows[k] = None => rows'[k] = rows[k]
    BY <1>9 DEF Live
  <2>3. lock[i] \notin Procs
    BY <1>2, NoneAssumption
  <2> QED
    BY <1>2, <1>4, <1>9, <1>11, <2>1, <2>2, <2>3 DEF Spares, Live
<1>13. \A q \in Procs \ {p} : ProcInv(q)'
  BY <1>1, <1>12, SparedInv
<1>14. ProcInv(p)'
  BY <1>2, <1>6, <1>11 DEF ProcInv, NoneOpen, PutSoFar, ShredSoFar, RewriteSoFar,
                           JobReady, EraseSoFar
<1>15. NewDisjoint'
  <2>1. \A q \in Procs : New(q)' = New(q)
    BY <1>11 DEF New
  <2> QED
    BY <2>1 DEF Inv, NewDisjoint
<1>16. \A k \in Ids : (rows'[k] # None <=> rows[k] # None) /\ (Live(k)' <=> Live(k))
  BY <1>9 DEF Live
<1>17. LiveIffKey'
  BY <1>9 DEF Inv, LiveIffKey, Stored, Live
<1>18. IndexOnlyLive' /\ AuditExact'
  <2>1. \A e \in index : e.id \in Ids
    BY <1>1 DEF TypeOK, Entry
  <2>2. \A k \in Ids : Live(k) => rows'[k].collection = rows[k].collection
    BY <1>9 DEF Live
  <2>3. IndexOnlyLive'
    BY <1>4, <1>16, <2>1, <2>2 DEF Inv, IndexOnlyLive
  <2>4. AuditExact'
    BY <1>4, <1>16 DEF Inv, AuditExact, Stored
  <2> QED
    BY <2>3, <2>4
<1> QED
  BY <1>11, <1>13, <1>14, <1>15, <1>17, <1>18 DEF Inv

\* What a transaction has done when it commits: the rows it inserts are new and
\* live; the rows it shreds are live, locked, and lose all their index rows;
\* the index rows it inserts are those of a new or a locked live row; and it
\* logs what it inserts and what it shreds.
CommitReady(p) ==
    /\ \A i \in New(p) : /\ rows[i] = None
                         /\ ~tx[p].rows[i].deleted /\ tx[p].rows[i].wrapped # Null
    /\ \A i \in tx[p].shred : Live(i) /\ lock[i] = p
    /\ \A e \in tx[p].adds :
         \/ e.id \in New(p) /\ tx[p].rows[e.id].collection = e.collection
         \/ /\ Live(e.id) /\ lock[e.id] = p /\ e.id \notin tx[p].shred
            /\ rows[e.id].collection = e.collection
    /\ \A e \in index : e.id \in tx[p].shred => e \in tx[p].dels
    /\ \A i \in Ids : /\ <<"create", i>> \in tx[p].log <=> i \in New(p)
                      /\ <<"delete", i>> \in tx[p].log <=> i \in tx[p].shred

\* The row that a commit leaves for each id.
LEMMA CommittedRow ==
    ASSUME Inv, NEW p \in Procs, NEW told, CommitReady(p), CommitTx(p, told), NEW i \in Ids
    PROVE  /\ i \in New(p) => /\ rows[i] = None /\ rows'[i] = tx[p].rows[i]
                              /\ rows'[i] \in Row /\ rows'[i] # None
                              /\ ~rows'[i].deleted /\ rows'[i].wrapped # Null
           /\ i \in tx[p].shred => /\ i \notin New(p) /\ Live(i) /\ lock[i] = p
                                   /\ rows'[i] \in Row /\ rows'[i] # None
                                   /\ rows'[i].deleted /\ rows'[i].wrapped = Null
           /\ i \notin New(p) /\ i \notin tx[p].shred => rows'[i] = rows[i]
<1>1. tx[p] \in Tx /\ rows \in [Ids -> Row \cup {None}]
  BY DEF Inv, TypeOK
<1>2. rows'[i] = IF tx[p].rows[i] # None THEN tx[p].rows[i]
                 ELSE IF i \in tx[p].shred THEN Shredded(rows[i]) ELSE rows[i]
  BY DEF CommitTx
<1>3. i \in New(p) <=> tx[p].rows[i] # None
  BY DEF New
<1>4. ASSUME i \in New(p)
      PROVE  /\ rows[i] = None /\ rows'[i] = tx[p].rows[i]
             /\ rows'[i] \in Row /\ rows'[i] # None
             /\ ~rows'[i].deleted /\ rows'[i].wrapped # Null
  BY <1>1, <1>2, <1>3, <1>4 DEF CommitReady, Tx
<1>5. ASSUME i \in tx[p].shred
      PROVE  /\ i \notin New(p) /\ Live(i) /\ lock[i] = p
             /\ rows'[i] \in Row /\ rows'[i] # None
             /\ rows'[i].deleted /\ rows'[i].wrapped = Null
  <2>1. Live(i) /\ lock[i] = p /\ i \notin New(p)
    BY <1>5 DEF CommitReady, Live
  <2>2. rows[i] \in Row
    BY <1>1, <2>1 DEF Live
  <2>3. rows'[i] = Shredded(rows[i])
    BY <1>2, <1>3, <1>5, <2>1
  <2>4. Shredded(rows[i]) \in Row /\ Shredded(rows[i]).deleted
        /\ Shredded(rows[i]).wrapped = Null
    BY <2>2 DEF Shredded, Row, Null
  <2> QED
    BY <2>1, <2>3, <2>4, NoneAssumption
<1>6. i \notin New(p) /\ i \notin tx[p].shred => rows'[i] = rows[i]
  BY <1>2, <1>3
<1> QED
  BY <1>4, <1>5, <1>6

\* A commit whose transaction is as Inv says keeps Inv.
LEMMA CommitInv ==
    ASSUME Inv, NEW p \in Procs, NEW told \in BOOLEAN, CommitReady(p), CommitTx(p, told),
           NEW j \in Job, NEW l \in {"idle", "open", "scan"}, Goto(p, l), Keep(p, j),
           l = "idle" => j = NoJob
    PROVE  Inv'
<1>1. TypeOK /\ ProcInv(p) /\ job[p] \in Job /\ tx[p] \in Tx /\ NoTx \in Tx
  BY Types DEF Inv
<1>2. /\ index' = (index \ tx[p].dels) \cup tx[p].adds
      /\ audit' = Appended(tx[p].log) /\ stdout' \in {stdout, stdout \cup tx[p].log}
      /\ lock' = Unlocked(p) /\ Stage(p, NoTx)
      /\ keyrow' = keyrow /\ revealed' = revealed /\ UNCHANGED config
  BY DEF CommitTx
<1>3. \A i \in Ids :
        /\ i \in New(p) => /\ rows[i] = None /\ rows'[i] = tx[p].rows[i]
                           /\ rows'[i] \in Row /\ rows'[i] # None
                           /\ ~rows'[i].deleted /\ rows'[i].wrapped # Null
        /\ i \in tx[p].shred => /\ i \notin New(p) /\ Live(i) /\ lock[i] = p
                                /\ rows'[i] \in Row /\ rows'[i] # None
                                /\ rows'[i].deleted /\ rows'[i].wrapped = Null
        /\ i \notin New(p) /\ i \notin tx[p].shred => rows'[i] = rows[i]
  BY CommittedRow
<1>4. tx[p].adds \subseteq Entry /\ tx[p].log \subseteq Line /\ index \subseteq Entry
  BY <1>1 DEF Tx, TypeOK
<1>5. \A e \in index' : e \in Entry /\ e.id \in Ids
  BY <1>2, <1>4 DEF Entry
<1>6. /\ audit' \in [Line -> Nat]
      /\ \A k \in Line : audit'[k] = IF k \in tx[p].log THEN audit[k] + 1 ELSE audit[k]
  BY <1>1, <1>2, <1>4, AppendedType
<1>7. SharedOK
  <2>1. rows' \in [Ids -> Row \cup {None}]
    <3>1. rows' = [i \in Ids |-> rows'[i]]
      BY DEF CommitTx
    <3>2. \A i \in Ids : rows'[i] \in Row \cup {None}
      BY <1>1, <1>3 DEF TypeOK
    <3> QED
      BY <3>1, <3>2
  <2>2. index' \subseteq Entry
    BY <1>5
  <2>3. lock' \in [Ids -> Procs \cup {None}]
    BY <1>1, <1>2 DEF Unlocked, TypeOK
  <2>4. stdout' \subseteq Line
    BY <1>1, <1>2, <1>4 DEF TypeOK
  <2> QED
    BY <1>1, <1>2, <1>6, <2>1, <2>2, <2>3, <2>4 DEF SharedOK, TypeOK
<1>8. /\ TypeOK'
      /\ pc'[p] = l /\ job'[p] = j /\ tx'[p] = NoTx
      /\ \A q \in Procs \ {p} : pc'[q] = pc[q] /\ tx'[q] = tx[q] /\ job'[q] = job[q]
  <2>1. l \in Control /\ Moves(p, l, j, NoTx)
    BY <1>2 DEF Control, Moves
  <2> QED
    BY <1>1, <1>2, <1>7, <2>1, Moved
<1>9. Spares(p)
  <2>1. \A i \in Ids : \A q \in Procs \ {p} : lock[i] = q => lock'[i] = q
    BY <1>2 DEF Unlocked
  <2>2. \A i \in Ids : \A q \in Procs \ {p} : lock[i] = q /\ Live(i) =>
          i \notin New(p) /\ i \notin tx[p].shred
    BY <1>3 DEF Live
  <2>3. \A i \in Ids : \A q \in Procs \ {p} : lock[i] = q /\ Live(i) =>
          \A e \in index' : e.id = i => e \in index
    BY <1>2, <1>3, <2>2 DEF CommitReady, Live
  <2>4. \A q \in Procs \ {p} : \A i \in New(q) : rows'[i] = rows[i]
    <3>1. \A q \in Procs \ {p} : \A i \in New(q) : i \in Ids /\ rows[i] = None
      BY DEF Inv, ProcInv, NoneOpen, PutSoFar, ShredSoFar, RewriteSoFar, New, NoTx
    <3>2. \A q \in Procs \ {p} : \A i \in New(q) : i \notin New(p)
      BY DEF Inv, NewDisjoint
    <3> QED
      BY <1>3, <3>1, <3>2 DEF Live
  <2>5. \A i \in Ids : rows[i] # None =>
          rows'[i] # None /\ (rows[i].deleted => rows'[i] = rows[i])
    BY <1>3 DEF Live
  <2> QED
    BY <1>3, <1>8, <2>1, <2>2, <2>3, <2>4, <2>5 DEF Spares
<1>10. \A q \in Procs \ {p} : ProcInv(q)'
  BY <1>9, SparedInv
<1>11. ProcInv(p)'
  BY <1>8 DEF ProcInv, NoneOpen, PutSoFar, ShredSoFar, RewriteSoFar, JobReady, EraseSoFar
<1>12. NewDisjoint'
  <2>1. New(p)' = {} /\ \A q \in Procs \ {p} : New(q)' = New(q)
    BY <1>8 DEF New, NoTx
  <2> QED
    BY <2>1 DEF Inv, NewDisjoint
<1>13. LiveIffKey'
  BY <1>3 DEF Inv, LiveIffKey, Stored
<1>14. IndexOnlyLive'
  <2> SUFFICES ASSUME NEW e \in index'
               PROVE  rows'[e.id] # None /\ ~rows'[e.id].deleted
                      /\ rows'[e.id].collection = e.collection
    BY DEF IndexOnlyLive, Live
  <2>1. e.id \in Ids
    BY <1>5
  <2>2. CASE e \in tx[p].adds
    BY <1>3, <2>1, <2>2 DEF CommitReady, Live
  <2>3. CASE e \in index /\ e \notin tx[p].dels
    <3>1. Live(e.id) /\ rows[e.id].collection = e.collection
      BY <2>3 DEF Inv, IndexOnlyLive
    <3>2. e.id \notin tx[p].shred
      BY <2>3 DEF CommitReady
    <3> QED
      BY <1>3, <2>1, <3>1, <3>2 DEF Live
  <2> QED
    BY <1>2, <2>2, <2>3
<1>15. AuditExact'
  <2> SUFFICES ASSUME NEW i \in Ids
               PROVE  /\ audit'[<<"create", i>>] = IF rows'[i] # None THEN 1 ELSE 0
                      /\ audit'[<<"delete", i>>] =
                           IF rows'[i] # None /\ rows'[i].deleted THEN 1 ELSE 0
    BY DEF AuditExact, Stored, Live
  <2>1. /\ audit[<<"create", i>>] = IF rows[i] # None THEN 1 ELSE 0
        /\ audit[<<"delete", i>>] = IF rows[i] # None /\ rows[i].deleted THEN 1 ELSE 0
    BY DEF Inv, AuditExact, Stored, Live
  <2>2. /\ audit'[<<"create", i>>] = IF i \in New(p) THEN audit[<<"create", i>>] + 1
                                     ELSE audit[<<"create", i>>]
        /\ audit'[<<"delete", i>>] = IF i \in tx[p].shred THEN audit[<<"delete", i>>] + 1
                                     ELSE audit[<<"delete", i>>]
    BY <1>6, Lines DEF CommitReady
  <2> QED
    BY <1>3, <2>1, <2>2 DEF Live
<1> QED
  BY <1>8, <1>10, <1>11, <1>12, <1>13, <1>14, <1>15 DEF Inv

\* What PutMany commits meets the conditions of CommitInv.
LEMMA PutCommitReady ==
    ASSUME Inv, NEW p \in Procs, pc[p] = "put"
    PROVE  CommitReady(p)
<1>1. /\ tx[p].shred = {}
      /\ tx[p].log = {<<"create", i>> : i \in New(p)}
      /\ \A i \in New(p) : /\ rows[i] = None
                           /\ ~tx[p].rows[i].deleted
                           /\ tx[p].rows[i].wrapped # Null
      /\ \A e \in tx[p].adds : /\ e.id \in New(p)
                               /\ tx[p].rows[e.id].collection = e.collection
  BY DEF Inv, ProcInv, PutSoFar
<1>2. \A i \in Ids : /\ <<"create", i>> \in tx[p].log <=> i \in New(p)
                     /\ <<"delete", i>> \notin tx[p].log
  BY <1>1
<1> QED
  BY <1>1, <1>2 DEF CommitReady

\* So does what Delete and DeleteSubject commit.
LEMMA ShredCommitReady ==
    ASSUME Inv, NEW p \in Procs, pc[p] = "unindex", tx[p].todo = {}
    PROVE  CommitReady(p)
<1>1. /\ New(p) = {} /\ tx[p].adds = {}
      /\ \A i \in tx[p].shred : Live(i) /\ lock[i] = p
      /\ tx[p].log = {<<"delete", i>> : i \in tx[p].shred}
      /\ \A e \in index : e.id \in tx[p].shred => e \in tx[p].dels
  BY DEF Inv, ProcInv, ShredSoFar
<1>2. \A i \in Ids : /\ <<"create", i>> \notin tx[p].log
                     /\ <<"delete", i>> \in tx[p].log <=> i \in tx[p].shred
  BY <1>1
<1> QED
  BY <1>1, <1>2 DEF CommitReady

\* So does what rewriteIndex commits.
LEMMA RewriteCommitReady ==
    ASSUME Inv, NEW p \in Procs, pc[p] = "rewritten"
    PROVE  CommitReady(p)
<1>1. /\ New(p) = {} /\ tx[p].shred = {}
      /\ Live(job[p].cur) /\ lock[job[p].cur] = p
      /\ tx[p].log = {<<"reindex", job[p].cur>>}
      /\ \A e \in tx[p].adds : /\ e.id = job[p].cur
                               /\ e.collection = rows[e.id].collection
  BY DEF Inv, ProcInv, RewriteSoFar
<1>2. \A i \in Ids : <<"create", i>> \notin tx[p].log /\ <<"delete", i>> \notin tx[p].log
  BY <1>1
<1> QED
  BY <1>1, <1>2 DEF CommitReady

\* PutMany commits.
LEMMA PutCommitInv ==
    ASSUME Inv, NEW p \in Procs, NEW told \in BOOLEAN, PutCommit(p, told)
    PROVE  Inv'
<1>1. CommitReady(p)
  BY PutCommitReady DEF PutCommit
<1>2. NoJob \in Job
  BY Types DEF Inv
<1> QED
  BY <1>1, <1>2, CommitInv DEF PutCommit, Return

\* Delete or DeleteSubject commits.
LEMMA ShredCommitInv ==
    ASSUME Inv, NEW p \in Procs, NEW told \in BOOLEAN, ShredCommit(p, told)
    PROVE  Inv'
<1>1. CommitReady(p)
  BY ShredCommitReady DEF ShredCommit
<1>2. NoJob \in Job
  BY Types DEF Inv
<1> QED
  BY <1>1, <1>2, CommitInv DEF ShredCommit, Return

\* rewriteIndex commits.
LEMMA RewriteCommitInv ==
    ASSUME Inv, NEW p \in Procs, NEW told \in BOOLEAN, RewriteCommit(p, told)
    PROVE  Inv'
<1> DEFINE i == job[p].cur
           j == [job[p] EXCEPT !.cur = None, !.page[i] = None, !.done = @ \cup {i}]
           l == IF PageIds(p) \ {i} = {} THEN "scan" ELSE "open"
<1>1. CommitReady(p) /\ CommitTx(p, told)
  BY RewriteCommitReady DEF RewriteCommit
<1>2. NoJob \in Job /\ job[p] \in Job /\ i \in Ids
  BY Types DEF Inv, RewriteCommit, ProcInv, RewriteSoFar, Job
<1>3. CASE told
  <2>1. Goto(p, l) /\ Keep(p, j) /\ l \in {"open", "scan"}
    BY <1>3 DEF RewriteCommit, Resume
  <2>2. j \in Job
    <3>1. [job[p].page EXCEPT ![i] = None] \in [Ids -> Sealed \cup {None}]
      BY <1>2 DEF Job
    <3> QED
      BY <1>2, <3>1 DEF Job
  <2> HIDE DEF l, j
  <2> QED
    BY <1>1, <2>1, <2>2, CommitInv
<1>4. CASE ~told
  <2>1. Goto(p, "idle") /\ Keep(p, NoJob)
    BY <1>4 DEF RewriteCommit, Return
  <2> QED
    BY <1>1, <1>2, <2>1, CommitInv
<1> QED
  BY <1>3, <1>4

-----------------------------------------------------------------------------
(* Every step *)

\* Every step of a request keeps Inv.
LEMMA ServeInv ==
    ASSUME Inv, NEW p \in Servers, Serve(p)
    PROVE  Inv'
<1>0. p \in Procs
  BY DEF Procs
<1>1. CASE \E c \in Collections, i \in Ids, item \in Items : PutItem(p, c, i, item)
  BY <1>1, PutItemInv
<1>2. CASE \E told \in BOOLEAN : PutCommit(p, told)
  BY <1>0, <1>2, PutCommitInv
<1>3. CASE \E c \in Collections, i \in Ids : DeleteUpdate(p, c, i)
  BY <1>3, DeleteUpdateInv
<1>4. CASE \E s \in Subjects : EraseBegin(p, s)
  BY <1>4, EraseBeginInv
<1>5. CASE \E i \in Ids : EraseScan(p, i)
  BY <1>5, EraseScanInv
<1>6. CASE EraseLock(p)
  BY <1>6, EraseLockInv
<1>7. CASE EraseReturn(p)
  BY <1>7, EraseReturnInv
<1>8. CASE \E i \in Ids : Unindex(p, i)
  BY <1>8, UnindexInv
<1>9. CASE \E told \in BOOLEAN : ShredCommit(p, told)
  BY <1>0, <1>9, ShredCommitInv
<1>10. CASE \E c \in Collections, S \in SUBSET Ids : GetSelect(p, c, S)
  BY <1>10, GetSelectInv
<1>11. CASE \E told \in BOOLEAN : GetAudit(p, told)
  BY <1>11, GetAuditInv
<1>12. CASE Respond(p)
  BY <1>12, RespondInv
<1>13. CASE DeadlockAbort(p)
  BY <1>0, <1>13, LeaveInv DEF DeadlockAbort
<1> QED
  BY <1>1, <1>2, <1>3, <1>4, <1>5, <1>6, <1>7, <1>8, <1>9, <1>10, <1>11, <1>12, <1>13
     DEF Serve

\* Every step of Reindex keeps Inv.
LEMMA ReindexInv ==
    ASSUME Inv, NEW p \in Reindexers, Reindex(p)
    PROVE  Inv'
<1>0. p \in Procs
  BY DEF Procs
<1>1. CASE \E c \in Collections \cup {None} : ReindexStart(p, c)
  BY <1>1, ReindexStartInv
<1>2. CASE ReindexPage(p)
  BY <1>2, ReindexPageInv
<1>3. CASE \E i \in Ids : ReindexOpen(p, i)
  BY <1>3, ReindexOpenInv
<1>4. CASE RewriteLock(p)
  BY <1>4, RewriteLockInv
<1>5. CASE Rewrite(p)
  BY <1>5, RewriteInv
<1>6. CASE \E told \in BOOLEAN : RewriteCommit(p, told)
  BY <1>0, <1>6, RewriteCommitInv
<1>7. CASE Exit(p)
  BY <1>0, <1>7, ExitInv
<1> QED
  BY <1>1, <1>2, <1>3, <1>4, <1>5, <1>6, <1>7 DEF Reindex

\* Every step of Rotate keeps Inv.
LEMMA RotateInv ==
    ASSUME Inv, NEW p \in Rotators, Rotate(p)
    PROVE  Inv'
<1>0. p \in Procs
  BY DEF Procs
<1>1. CASE RotateStart(p)
  BY <1>1, RotateStartInv
<1>2. CASE RotateKeyRewrap(p)
  BY <1>2, RotateKeyRewrapInv
<1>3. CASE RotateKeyWrite(p)
  BY <1>3, RotateKeyWriteInv
<1>4. CASE RotatePage(p)
  BY <1>4, RotatePageInv
<1>5. CASE \E i \in Ids : RotateRewrap(p, i)
  BY <1>5, RotateRewrapInv
<1>6. CASE RotateWrite(p)
  BY <1>6, RotateWriteInv
<1>7. CASE Exit(p)
  BY <1>0, <1>7, ExitInv
<1> QED
  BY <1>1, <1>2, <1>3, <1>4, <1>5, <1>6, <1>7 DEF Rotate

\* A stuttering step keeps Inv.
LEMMA StutterInv ==
    ASSUME Inv, UNCHANGED vars
    PROVE  Inv'
<1>1. /\ rows' = rows /\ index' = index /\ keyrow' = keyrow /\ audit' = audit
      /\ stdout' = stdout /\ lock' = lock /\ revealed' = revealed
      /\ pc' = pc /\ tx' = tx /\ job' = job
      /\ env' = env /\ schema' = schema /\ engine' = engine
  BY DEF vars, tables, config
<1>2. TypeOK'
  BY <1>1 DEF Inv, TypeOK
<1>3. \A p \in Procs : ProcInv(p)'
  BY <1>1 DEF Inv, ProcInv, NoneOpen, PutSoFar, ShredSoFar, RewriteSoFar, JobReady,
              EraseSoFar, New, PageIds, Live
<1>4. NewDisjoint' /\ LiveIffKey' /\ IndexOnlyLive' /\ AuditExact'
  BY <1>1 DEF Inv, NewDisjoint, LiveIffKey, IndexOnlyLive, AuditExact, New, Stored, Live
<1> QED
  BY <1>2, <1>3, <1>4 DEF Inv

\* Inv is inductive.
LEMMA NextInv == Inv /\ [Next]_vars => Inv'
<1> SUFFICES ASSUME Inv, [Next]_vars PROVE Inv'
  OBVIOUS
<1>1. ASSUME NEW p \in Servers, Serve(p) PROVE Inv'
  BY <1>1, ServeInv
<1>2. ASSUME NEW p \in Reindexers, Reindex(p) PROVE Inv'
  BY <1>2, ReindexInv
<1>3. ASSUME NEW p \in Rotators, Rotate(p) PROVE Inv'
  BY <1>3, RotateInv
<1>4. ASSUME NEW p \in Procs, Abort(p) PROVE Inv'
  BY <1>4, LeaveInv DEF Abort
<1>5. CASE UNCHANGED vars
  BY <1>5, StutterInv
<1> QED
  BY <1>1, <1>2, <1>3, <1>4, <1>5 DEF Next

-----------------------------------------------------------------------------
\* The inductive invariant holds in every reachable state of the store.
THEOREM InvHolds == Spec => []Inv
BY InitInv, NextInv, PTL DEF Spec

\* The tables, locks and local variables keep their types under every
\* interleaving of PutMany, Delete, DeleteSubject, GetMany, Reindex and Rotate.
THEOREM TypeCorrect == Spec => []TypeOK
<1>1. Inv => TypeOK
  BY DEF Inv
<1> QED
  BY <1>1, InvHolds, PTL

\* A row is marked deleted exactly when its key is gone: whatever Rotate writes
\* at the end of a slow re-wrap, no live object loses its key and no shredded
\* one gets one back.
THEOREM KeyDestroyed == Spec => []LiveIffKey
<1>1. Inv => LiveIffKey
  BY DEF Inv
<1> QED
  BY <1>1, InvHolds, PTL

\* Search finds live objects only, although Delete reads and deletes the index
\* rows of an object that a run of Reindex may be rewriting.
THEOREM SearchFindsLive == Spec => []IndexOnlyLive
<1>1. Inv => IndexOnlyLive
  BY DEF Inv
<1> QED
  BY <1>1, InvHolds, PTL

\* audit_log has exactly one create line for each object and exactly one delete
\* line for each shredded one, however many requests race to shred it.
THEOREM LogExact == Spec => []AuditExact
<1>1. Inv => AuditExact
  BY DEF Inv
<1> QED
  BY <1>1, InvHolds, PTL

\* When DeleteSubject's UPDATE returns, no object of the subject that it saw is
\* left alive: each one is its own to shred, or already shredded.
THEOREM ErasureCovers == Spec => []EraseCovers
<1>1. Inv => EraseCovers
  BY DEF Inv, ProcInv, EraseSoFar, EraseCovers, Procs
<1> QED
  BY <1>1, InvHolds, PTL

-----------------------------------------------------------------------------
(* What a step may do to objects, audit_log and standard output *)

\* Rows, audit_log and standard output change only with a commit, with the
\* logging of a reveal, and when Rotate writes a key.
LEMMA StepKinds ==
    ASSUME Inv, Next
    PROVE  \/ rows' = rows /\ audit' = audit /\ stdout' = stdout
           \/ \E p \in Procs, told \in BOOLEAN : CommitReady(p) /\ CommitTx(p, told)
           \/ \E p \in Servers, told \in BOOLEAN : GetAudit(p, told)
           \/ \E p \in Rotators : RotateWrite(p)
<1> DEFINE Quiet == rows' = rows /\ audit' = audit /\ stdout' = stdout
           Commits == \E p \in Procs, told \in BOOLEAN : CommitReady(p) /\ CommitTx(p, told)
<1>1. ASSUME NEW p \in Servers, Serve(p)
      PROVE  Quiet \/ Commits \/ \E told \in BOOLEAN : GetAudit(p, told)
  <2>1. p \in Procs
    BY DEF Procs
  <2>2. ASSUME NEW told \in BOOLEAN, PutCommit(p, told) PROVE Commits
    BY <2>1, <2>2, PutCommitReady DEF PutCommit
  <2>3. ASSUME NEW told \in BOOLEAN, ShredCommit(p, told) PROVE Commits
    BY <2>1, <2>3, ShredCommitReady DEF ShredCommit
  <2>4. ASSUME \/ \E c \in Collections, i \in Ids, item \in Items : PutItem(p, c, i, item)
               \/ \E c \in Collections, i \in Ids : DeleteUpdate(p, c, i)
               \/ \E s \in Subjects : EraseBegin(p, s)
               \/ \E i \in Ids : EraseScan(p, i) \/ Unindex(p, i)
               \/ EraseLock(p) \/ EraseReturn(p) \/ Respond(p) \/ DeadlockAbort(p)
               \/ \E c \in Collections, S \in SUBSET Ids : GetSelect(p, c, S)
        PROVE  Quiet
    BY <2>4 DEF PutItem, DeleteUpdate, EraseBegin, EraseScan, Unindex, EraseLock,
                EraseReturn, Respond, DeadlockAbort, GetSelect, tables
  <2> HIDE DEF Quiet, Commits
  <2> QED
    BY <1>1, <2>2, <2>3, <2>4 DEF Serve
<1>2. ASSUME NEW p \in Reindexers, Reindex(p) PROVE Quiet \/ Commits
  <2>1. p \in Procs
    BY DEF Procs
  <2>2. ASSUME NEW told \in BOOLEAN, RewriteCommit(p, told) PROVE Commits
    BY <2>1, <2>2, RewriteCommitReady DEF RewriteCommit
  <2>3. ASSUME \/ \E c \in Collections \cup {None} : ReindexStart(p, c)
               \/ \E i \in Ids : ReindexOpen(p, i)
               \/ ReindexPage(p) \/ RewriteLock(p) \/ Rewrite(p) \/ Exit(p)
        PROVE  Quiet
    BY <2>3 DEF ReindexStart, ReindexOpen, ReindexPage, RewriteLock, Rewrite, Exit, tables
  <2> HIDE DEF Quiet, Commits
  <2> QED
    BY <1>2, <2>2, <2>3 DEF Reindex
<1>3. ASSUME NEW p \in Rotators, Rotate(p) PROVE Quiet \/ RotateWrite(p)
  BY <1>3 DEF Rotate, RotateStart, RotateKeyRewrap, RotateKeyWrite, RotatePage,
              RotateRewrap, Exit, tables
<1>4. ASSUME NEW p \in Procs, Abort(p) PROVE Quiet
  BY <1>4 DEF Abort, tables
<1> HIDE DEF Quiet, Commits
<1>5. Quiet \/ Commits \/ (\E p \in Servers, told \in BOOLEAN : GetAudit(p, told))
      \/ \E p \in Rotators : RotateWrite(p)
  BY <1>1, <1>2, <1>3, <1>4 DEF Next
<1> QED
  BY <1>5 DEF Quiet, Commits

\* No step of any process changes a shredded row: not the commit of a request
\* that raced with the one that shredded it, and not the late write of a Rotate
\* that read the row's key before.
THEOREM ShreddingIsFinal == Spec => ShredFinal
<1> DEFINE Kept == \A i \in Ids : i \in Stored /\ ~Live(i) => rows'[i] = rows[i]
<1>1. Inv /\ [Next]_vars => [Kept]_vars
  <2> SUFFICES ASSUME Inv, Next, NEW i \in Ids, rows[i] # None, rows[i].deleted
               PROVE  rows'[i] = rows[i]
    BY DEF Stored, Live
  <2>1. CASE rows' = rows
    BY <2>1
  <2>2. ASSUME NEW p \in Procs, NEW told \in BOOLEAN, CommitReady(p), CommitTx(p, told)
        PROVE  rows'[i] = rows[i]
    BY <2>2, CommittedRow DEF Live
  <2>3. ASSUME NEW p \in Servers, NEW told \in BOOLEAN, GetAudit(p, told)
        PROVE  rows'[i] = rows[i]
    BY <2>3 DEF GetAudit
  <2>4. ASSUME NEW p \in Rotators, RotateWrite(p)
        PROVE  rows'[i] = rows[i]
    <3>1. rows \in [Ids -> Row \cup {None}]
      BY DEF Inv, TypeOK
    <3>2. \/ rows' = rows
          \/ /\ Live(job[p].cur)
             /\ rows' = [rows EXCEPT ![job[p].cur] = Rewritten(@, job[p].re)]
      BY <2>4 DEF RotateWrite, RotateMatches
    <3> QED
      BY <3>1, <3>2 DEF Live
  <2> QED
    BY <2>1, <2>2, <2>3, <2>4, StepKinds
<1> QED
  BY <1>1, InvHolds, PTL DEF Spec, ShredFinal

\* Every line on standard output is in audit_log: emit runs only after a commit
\* that was confirmed, and no line is ever taken out of the log.
THEOREM StdoutHasOnlyCommitted == Spec => []EmittedCommitted
<1>1. Init => EmittedCommitted
  BY DEF Init, EmittedCommitted
<1>2. Inv /\ EmittedCommitted /\ [Next]_vars => EmittedCommitted'
  <2> SUFFICES ASSUME Inv, EmittedCommitted, [Next]_vars PROVE EmittedCommitted'
    OBVIOUS
  <2>1. TypeOK /\ stdout \subseteq Line /\ audit \in [Line -> Nat]
    BY DEF Inv, TypeOK
  <2>2. ASSUME NEW log \in SUBSET Line, audit' = Appended(log),
               stdout' \in {stdout, stdout \cup log}
        PROVE  EmittedCommitted'
    <3>1. \A l \in Line : /\ audit[l] \in Nat
                          /\ audit'[l] = IF l \in log THEN audit[l] + 1 ELSE audit[l]
      BY <2>1, <2>2, AppendedType
    <3> QED
      BY <2>1, <2>2, <3>1 DEF EmittedCommitted
  <2>3. CASE audit' = audit /\ stdout' = stdout
    BY <2>3 DEF EmittedCommitted
  <2>4. ASSUME NEW p \in Procs, NEW told \in BOOLEAN, CommitTx(p, told)
        PROVE  EmittedCommitted'
    <3>1. tx[p].log \in SUBSET Line
      BY DEF Inv, TypeOK, Tx
    <3> QED
      BY <2>2, <2>4, <3>1 DEF CommitTx
  <2>5. ASSUME NEW p \in Servers, NEW told \in BOOLEAN, GetAudit(p, told)
        PROVE  EmittedCommitted'
    <3> DEFINE log == {<<"reveal", i>> : i \in PageIds(p)}
    <3>1. log \in SUBSET Line
      BY Lines DEF PageIds
    <3>2. \/ audit' = audit /\ stdout' = stdout
          \/ audit' = Appended(log) /\ stdout' \in {stdout, stdout \cup log}
      BY <2>5 DEF GetAudit
    <3> HIDE DEF log
    <3> QED
      BY <2>2, <2>3, <3>1, <3>2
  <2>6. ASSUME NEW p \in Rotators, RotateWrite(p)
        PROVE  EmittedCommitted'
    BY <2>3, <2>6 DEF RotateWrite
  <2>7. CASE UNCHANGED vars
    BY <2>3, <2>7 DEF vars, tables
  <2> QED
    BY <2>3, <2>4, <2>5, <2>6, <2>7, StepKinds
<1> QED
  BY <1>1, <1>2, InvHolds, PTL DEF Spec
=============================================================================
