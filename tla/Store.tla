------------------------------- MODULE Store -------------------------------
(***************************************************************************)
(* The store of sealbox (internal/store/store.go): the tables objects,     *)
(* blind_index, keys and audit_log, and the operations that a server's     *)
(* requests and the commands "sealbox rotate" and "sealbox reindex" run    *)
(* on them at the same time.                                               *)
(*                                                                         *)
(* One process is one request of a server or one invocation of a command.  *)
(* One action is one SQL statement, one call of the key service, or one    *)
(* commit, so that everything that can happen between two statements does. *)
(* PostgreSQL at READ COMMITTED is modelled from how the code uses it: a   *)
(* transaction's writes stay private (tx) until its commit, a statement    *)
(* sees what was committed when it began, and an UPDATE or SELECT FOR      *)
(* UPDATE waits for the row's lock and then looks at the row again.        *)
(*                                                                         *)
(* Abstractions.  Ciphertext and plaintext are left out: a row opens when  *)
(* its wrapped key can be unwrapped.  A wrapped key is the version of the  *)
(* wrapping key that wrapped it, and Null once it is destroyed.  The hash  *)
(* in an index row is left out: an object is never changed after it is     *)
(* stored.  Schema and Search have the values.                             *)
(***************************************************************************)
EXTENDS Naturals, FiniteSets

CONSTANTS
    Ids,           \* object ids; random in the code, so their order is arbitrary
    Collections,
    Subjects,      \* values of subject_id
    Fields,        \* names of fields, which are also names of indexes
    Items,         \* what callers store: records [subject, has]
    Keys,          \* ids of wrapping keys
    Transit,       \* those wrapped by a service with versions of its own
    Servers,       \* requests of running servers
    Rotators,      \* invocations of "sealbox rotate"
    Reindexers,    \* invocations of "sealbox reindex"
    StartEnv,      \* the wrappers each process starts with
    StartSchema,   \* the indexed fields of each collection, for each process
    PageSize,      \* LIMIT 500 of Reindex and Rotate
    MaxBatch,      \* objects in one PutMany (api.go: maxBatch = 1000)
    MaxReads,      \* bound: reveals of an object begin below this count
    MaxRewrites,   \* bound: runs of reindex begin below this count
    None           \* no row, no subject, no owner of a lock

Procs == Servers \cup Rotators \cup Reindexers

\* The wrapped_dek column of a shredded row; wrapped keys have versions >= 1.
Null == 0

\* envelope.Sealed, without the ciphertext.
Sealed == [key_id : Keys, wrapped : Nat]

\* envelope.Envelope: the wrapper of new keys, and all that can unwrap.
Env == [current : Keys, all : SUBSET Keys]

\* The transit engine: the version it wraps under, and the oldest it opens.
Engine == [version : Nat \ {0}, min : Nat \ {0}]

\* A row of objects.  has is what the sealed plaintext says: its string fields.
Row == [collection : Collections, subject : Subjects \cup {None},
        has : SUBSET Fields, key_id : Keys, wrapped : Nat, deleted : BOOLEAN]

\* A row of blind_index.
Entry == [collection : Collections, field : Fields, id : Ids]

\* A line of audit_log, without the client and the time.
Action == {"create", "reveal", "delete", "reindex"}
Line   == Action \X Ids

\* What a transaction did so far: rows inserted, rows shredded, erased rows
\* still to be unindexed, index rows deleted and inserted, lines appended.
Tx == [rows : [Ids -> Row \cup {None}], shred : SUBSET Ids, todo : SUBSET Ids,
       dels : SUBSET Entry, adds : SUBSET Entry, log : SUBSET Line]

\* The local variables of an operation: its collection (None is every one), the
\* page of rows it read, the cursor, the row in hand, its sealed key as it was
\* read and as re-wrapped, and what the run counted.
Job == [collection : Collections \cup {None}, page : [Ids -> Sealed \cup {None}],
        last : Nat, cur : Ids \cup {None}, read : Sealed \cup {None},
        re : Sealed \cup {None},
        done : SUBSET Ids, skipped : SUBSET Ids]

ASSUME ConstantsAssumption ==
    /\ Ids \subseteq Nat \ {0} /\ IsFiniteSet(Ids)
    /\ Items \subseteq [subject : Subjects \cup {None}, has : SUBSET Fields]
    /\ Transit \subseteq Keys
    /\ StartEnv \in [Procs -> Env]
    /\ \A p \in Procs : StartEnv[p].current \in StartEnv[p].all
    /\ StartSchema \in [Procs -> [Collections -> SUBSET Fields]]
    /\ PageSize \in Nat \ {0} /\ MaxBatch \in Nat \ {0}
    /\ MaxReads \in Nat /\ MaxRewrites \in Nat

ASSUME NoneAssumption ==
    /\ None \notin Ids /\ None \notin Collections /\ None \notin Subjects
    /\ None \notin Procs /\ None \notin Row /\ None \notin Sealed

VARIABLES
    rows,      \* objects: id -> row
    index,     \* blind_index: set of entries
    keyrow,    \* the blind-index key in keys, sealed
    audit,     \* audit_log: how many times each line was appended
    stdout,    \* the lines emit copied to standard output
    lock,      \* owner of each row's lock
    revealed,  \* how many answers have carried each object's plaintext
    pc, tx, job,             \* per process: control, transaction, locals
    env, schema, engine      \* configuration; fixed in this module

tables == <<rows, index, keyrow, audit>>
config == <<env, schema, engine>>
vars   == <<tables, stdout, lock, revealed, pc, tx, job, config>>

NoTx == [rows |-> [i \in Ids |-> None], shred |-> {}, todo |-> {},
         dels |-> {}, adds |-> {}, log |-> {}]

NoPage == [i \in Ids |-> None]

NoJob == [collection |-> None, page |-> NoPage, last |-> 0, cur |-> None,
          read |-> None, re |-> None, done |-> {}, skipped |-> {}]

-----------------------------------------------------------------------------
(* Rows, keys and index rows *)

Stored == {i \in Ids : rows[i] # None}

\* deleted_at IS NULL
Live(i) == rows[i] # None /\ ~rows[i].deleted

SealedOf(i) == [key_id |-> rows[i].key_id, wrapped |-> rows[i].wrapped]

\* Mutants of Shredded: the key stays; the NOT NULL column key_id is emptied too.
ShreddedKeepsKey(r) == [r EXCEPT !.deleted = TRUE]
ShreddedNullsKeyId(r) == [r EXCEPT !.wrapped = Null, !.key_id = None, !.deleted = TRUE]

\* A row that Delete or DeleteSubject updated.
Shredded(r) == [r EXCEPT !.wrapped = Null, !.deleted = TRUE]

\* A row that Rotate updated with the re-wrapped key s.
Rewritten(r, s) == [r EXCEPT !.key_id = s.key_id, !.wrapped = s.wrapped]

\* Wrapping under key k now: a transit engine uses its current version.
WrapUnder(k) == [key_id  |-> k, wrapped |-> IF k \in Transit THEN engine.version ELSE 1]

\* The key service, or the loaded master key, unwraps s for process p.
Opens(p, s) ==
    /\ s.key_id \in env[p].all
    /\ s.wrapped # Null
    /\ s.key_id \in Transit => s.wrapped >= engine.min

\* Rewrap of s by p, where Opens(p, s): unchanged when nothing moved.
Rewrapped(p, s) ==
    IF s.key_id = env[p].current /\ s.key_id \notin Transit
    THEN s
    ELSE WrapUnder(env[p].current)

\* Mutant of InPlace: the engine's own versions are forgotten.
InPlaceNever(p) == FALSE

\* RewrapsInPlace: rows already under the current key are visited as well.
InPlace(p) == env[p].current \in Transit

\* What p's schema puts in the index for an object of collection c.
Indexed(p, c, i, has) ==
    {[collection |-> c, field |-> f, id |-> i] : f \in schema[p][c] \cap has}

\* blind_index rows WHERE collection = c AND object_id = i
EntriesOf(c, i) == {e \in index : e.collection = c /\ e.id = i}

\* Mutant of FirstPage: the wrong end of the order.
LastPage(S) == {i \in S : Cardinality({j \in S : j > i}) < PageSize}

\* The first rows of S in id order: ORDER BY id LIMIT n.
FirstPage(S) == {i \in S : Cardinality({j \in S : j < i}) < PageSize}

\* Reading the rows of S: what SELECT returns of them.
ReadPage(S) == [i \in Ids |-> IF i \in S THEN SealedOf(i) ELSE None]

PageIds(p) == {i \in Ids : job[p].page[i] # None}

\* Mutant of After: the last row of a page is selected again.
AtOrAfter(p, i) == i >= job[p].last

\* The cursor in the SELECTs of Reindex and Rotate: id > last.
After(p, i) == i > job[p].last

\* The loop variable of Reindex and Rotate: rows of a page come in id order.
NextOfPage(p, i) == i \in PageIds(p) /\ \A j \in PageIds(p) : i <= j

-----------------------------------------------------------------------------
(* Control, locals and transactions of a process *)

Goto(p, l)  == pc' = [pc EXCEPT ![p] = l]
Keep(p, j)  == job' = [job EXCEPT ![p] = j]
Stage(p, t) == tx' = [tx EXCEPT ![p] = t]

Return(p) == Goto(p, "idle") /\ Keep(p, NoJob)

\* Mutant of Unlocked: no Rollback, the locks of a failed transaction stay.
UnlockedNever(p) == lock

\* The locks once p's transaction has ended.
Unlocked(p) == [i \in Ids |-> IF lock[i] = p THEN None ELSE lock[i]]

Appended(log) == [l \in Line |-> audit[l] + IF l \in log THEN 1 ELSE 0]

\* tx.Commit of process p, then emit.  The commit can succeed and its answer
\* be lost, or the process die: told is FALSE, and nothing is emitted.
CommitTx(p, told) ==
    /\ rows' = [i \in Ids |->
                  IF tx[p].rows[i] # None THEN tx[p].rows[i]
                  ELSE IF i \in tx[p].shred THEN Shredded(rows[i])
                  ELSE rows[i]]
    /\ index' = (index \ tx[p].dels) \cup tx[p].adds
    /\ audit' = Appended(tx[p].log)
    /\ stdout' = IF told THEN stdout \cup tx[p].log ELSE stdout
    /\ lock' = Unlocked(p)
    /\ Stage(p, NoTx)
    /\ UNCHANGED <<keyrow, revealed, config>>

\* An operation ends without a commit: deferred Rollback, then return.
Leave(p) ==
    /\ Return(p)
    /\ Stage(p, NoTx)
    /\ lock' = Unlocked(p)

\* Mutant of Abort: emit is deferred, whether or not the commit happened.
AbortEmits(p) ==
    /\ pc[p] # "idle"
    /\ Leave(p)
    /\ stdout' = stdout \cup tx[p].log
    /\ UNCHANGED <<tables, revealed, config>>

\* Any statement or call may fail, the client may go away, the process may
\* die: whatever was not committed is gone.
Abort(p) ==
    /\ pc[p] # "idle"
    /\ Leave(p)
    /\ UNCHANGED <<tables, stdout, revealed, config>>

-----------------------------------------------------------------------------
(* PutMany *)

\* newID: a random id that no row has or will get.
Fresh(i) == rows[i] = None /\ \A q \in Procs : tx[q].rows[i] = None

\* The row that is inserted for an item sealed as s.
NewRow(c, item, s) ==
    [collection |-> c, subject |-> item.subject, has |-> item.has,
     key_id |-> s.key_id, wrapped |-> s.wrapped, deleted |-> FALSE]

\* One item of a request for collection c: seal under the current key, insert
\* the row, its index rows and its audit line.
PutItem(p, c, i, item) ==
    /\ \/ pc[p] = "idle"
       \/ pc[p] = "put" /\ job[p].collection = c
    /\ Cardinality({j \in Ids : tx[p].rows[j] # None}) < MaxBatch
    /\ Fresh(i)
    /\ Stage(p, [tx[p] EXCEPT !.rows[i] = NewRow(c, item, WrapUnder(env[p].current)),
                              !.adds = @ \cup Indexed(p, c, i, item.has),
                              !.log = @ \cup {<<"create", i>>}])
    /\ Keep(p, [job[p] EXCEPT !.collection = c])
    /\ Goto(p, "put")
    /\ UNCHANGED <<tables, stdout, lock, revealed, config>>

PutCommit(p, told) ==
    /\ pc[p] = "put"
    /\ CommitTx(p, told)
    /\ Return(p)

-----------------------------------------------------------------------------
(* Delete and DeleteSubject *)

\* Mutant of DeleteMatches: without deleted_at IS NULL.
DeleteMatchesAny(c, i) == rows[i] # None /\ rows[i].collection = c

\* The WHERE of Delete's UPDATE.
DeleteMatches(c, i) == Live(i) /\ rows[i].collection = c

\* Delete's UPDATE: lock the row and shred it.  A row that does not match is
\* ErrNotFound, which leaves everything as it was.
DeleteUpdate(p, c, i) ==
    /\ pc[p] = "idle"
    /\ lock[i] = None
    /\ DeleteMatches(c, i)
    /\ lock' = [lock EXCEPT ![i] = p]
    /\ Stage(p, [tx[p] EXCEPT !.shred = {i}, !.todo = {i}])
    /\ Goto(p, "unindex")
    /\ UNCHANGED <<tables, stdout, revealed, job, config>>

\* The WHERE of DeleteSubject's UPDATE.
SubjectMatches(s, i) == Live(i) /\ rows[i].subject = s

\* DeleteSubject's UPDATE begins: the rows its snapshot matches.
EraseBegin(p, s) ==
    LET S == {i \in Ids : SubjectMatches(s, i)} IN
    /\ pc[p] = "idle"
    /\ Goto(p, "erase")
    /\ Stage(p, [tx[p] EXCEPT !.todo = S])
    /\ Keep(p, [job[p] EXCEPT !.page = ReadPage(S)])
    /\ UNCHANGED <<tables, stdout, lock, revealed, config>>

\* The scan reaches its next row, in whatever order the planner chose.
EraseScan(p, i) ==
    /\ pc[p] = "erase" /\ job[p].cur = None
    /\ i \in tx[p].todo
    /\ Keep(p, [job[p] EXCEPT !.cur = i])
    /\ UNCHANGED <<tables, stdout, lock, revealed, pc, tx, config>>

\* Having waited for the row's lock, the UPDATE evaluates its WHERE again;
\* subject_id never changes.
EraseLock(p) ==
    LET i == job[p].cur IN
    /\ pc[p] = "erase" /\ i # None
    /\ lock[i] = None
    /\ IF Live(i)
       THEN /\ lock' = [lock EXCEPT ![i] = p]
            /\ Stage(p, [tx[p] EXCEPT !.shred = @ \cup {i}, !.todo = @ \ {i}])
       ELSE /\ Stage(p, [tx[p] EXCEPT !.todo = @ \ {i}])
            /\ UNCHANGED lock
    /\ Keep(p, [job[p] EXCEPT !.cur = None])
    /\ UNCHANGED <<tables, stdout, revealed, pc, config>>

\* Mutant of EraseReturn: it does not wait for every row.
EraseReturnsEarly(p) ==
    /\ pc[p] = "erase" /\ job[p].cur = None
    /\ Stage(p, [tx[p] EXCEPT !.todo = tx[p].shred])
    /\ Goto(p, "unindex")
    /\ UNCHANGED <<tables, stdout, lock, revealed, job, config>>

\* RETURNING: the rows that were shredded are the ones to unindex.
EraseReturn(p) ==
    /\ pc[p] = "erase" /\ job[p].cur = None /\ tx[p].todo = {}
    /\ Stage(p, [tx[p] EXCEPT !.todo = tx[p].shred])
    /\ Goto(p, "unindex")
    /\ UNCHANGED <<tables, stdout, lock, revealed, job, config>>

\* DELETE FROM blind_index and the audit line, for one shredded row.
Unindex(p, i) ==
    /\ pc[p] = "unindex"
    /\ i \in tx[p].todo
    /\ Stage(p, [tx[p] EXCEPT !.todo = @ \ {i},
                              !.dels = @ \cup EntriesOf(rows[i].collection, i),
                              !.log = @ \cup {<<"delete", i>>}])
    /\ UNCHANGED <<tables, stdout, lock, revealed, pc, job, config>>

ShredCommit(p, told) ==
    /\ pc[p] = "unindex" /\ tx[p].todo = {}
    /\ CommitTx(p, told)
    /\ Return(p)

-----------------------------------------------------------------------------
(* GetMany and AuditMany, as a reveal calls them *)

\* GetMany's SELECT.  Finding nothing is answered with 404 or "missing".
GetSelect(p, c, S) ==
    LET found == {i \in S : Live(i) /\ rows[i].collection = c} IN
    /\ pc[p] = "idle"
    /\ found # {}
    /\ \A i \in Ids : audit[<<"reveal", i>>] < MaxReads
    /\ Keep(p, [job[p] EXCEPT !.page = ReadPage(found)])
    /\ Goto(p, "got")
    /\ UNCHANGED <<tables, stdout, lock, revealed, tx, config>>

\* Mutant of GetAudit: the error of AuditMany is ignored.
GetAuditUnchecked(p, told) ==
    /\ pc[p] = "got"
    /\ audit' = IF told THEN Appended({<<"reveal", i>> : i \in PageIds(p)}) ELSE audit
    /\ Goto(p, "answer")
    /\ UNCHANGED <<rows, index, keyrow, stdout, lock, revealed, tx, job, config>>

\* OpenMany, then AuditMany: one row that does not open fails the request;
\* a log that cannot be written, or whose commit is not confirmed, does too.
GetAudit(p, told) ==
    LET S    == PageIds(p)
        log  == {<<"reveal", i>> : i \in S}
    IN
    /\ pc[p] = "got"
    /\ IF \A i \in S : Opens(p, job[p].page[i])
       THEN /\ audit' = Appended(log)
            /\ stdout' = IF told THEN stdout \cup log ELSE stdout
            /\ IF told THEN Goto(p, "answer") /\ UNCHANGED job
                       ELSE Return(p)
       ELSE /\ Return(p)
            /\ UNCHANGED <<audit, stdout>>
    /\ UNCHANGED <<rows, index, keyrow, lock, revealed, tx, config>>

\* The plaintext leaves the server.
Respond(p) ==
    /\ pc[p] = "answer"
    /\ revealed' = [i \in Ids |-> revealed[i] + IF i \in PageIds(p) THEN 1 ELSE 0]
    /\ Return(p)
    /\ UNCHANGED <<tables, stdout, lock, tx, config>>

-----------------------------------------------------------------------------
(* Reindex *)

\* store.Open of the command unwraps the blind-index key or refuses to start.
ReindexStart(p, c) ==
    /\ pc[p] = "idle"
    /\ Opens(p, keyrow)
    /\ \A i \in Ids : audit[<<"reindex", i>>] < MaxRewrites
    /\ Keep(p, [job[p] EXCEPT !.collection = c])
    /\ Goto(p, "scan")
    /\ UNCHANGED <<tables, stdout, lock, revealed, tx, config>>

\* The WHERE of Reindex's SELECT.
ReindexSelects(p, i) ==
    /\ Live(i)
    /\ job[p].collection \in {None, rows[i].collection}
    /\ After(p, i)

\* The next page, or the end of the run when there is none.
ReindexPage(p) ==
    LET S == FirstPage({i \in Ids : ReindexSelects(p, i)}) IN
    /\ pc[p] = "scan"
    /\ Keep(p, [job[p] EXCEPT !.page = ReadPage(S)])
    /\ Goto(p, IF S = {} THEN "reindexed" ELSE "open")
    /\ UNCHANGED <<tables, stdout, lock, revealed, tx, config>>

\* After row i: the rest of the page, then the next page.
Resume(p, i, l, again) == Goto(p, IF PageIds(p) \ {i} = {} THEN again ELSE l)

\* Open the next row of the page.  It is skipped, without a line in the log, when
\* it does not open and also when its plaintext is not an object that the schema
\* can read; what is sealed is not modelled, so either may happen.
ReindexOpen(p, i) ==
    /\ pc[p] = "open" /\ NextOfPage(p, i)
    /\ \/ /\ Opens(p, job[p].page[i])
          /\ Goto(p, "relock")
          /\ Keep(p, [job[p] EXCEPT !.last = i, !.cur = i])
       \/ /\ Resume(p, i, "open", "scan")
          /\ Keep(p, [job[p] EXCEPT !.last = i, !.page[i] = None,
                                    !.skipped = @ \cup {i}])
    /\ UNCHANGED <<tables, stdout, lock, revealed, tx, config>>

\* Mutant of RewriteLock: the SELECT has no FOR UPDATE.
RewriteUnlocked(p) ==
    /\ pc[p] = "relock"
    /\ Live(job[p].cur)
    /\ Goto(p, "rewrite")
    /\ UNCHANGED <<tables, stdout, lock, revealed, tx, job, config>>

\* rewriteIndex: SELECT deleted_at IS NULL ... FOR UPDATE.  A row shredded
\* since the page was read is left alone, and counted as done.
RewriteLock(p) ==
    LET i == job[p].cur IN
    /\ pc[p] = "relock"
    /\ lock[i] = None
    /\ IF Live(i)
       THEN /\ lock' = [lock EXCEPT ![i] = p]
            /\ Goto(p, "rewrite")
            /\ UNCHANGED job
       ELSE /\ Resume(p, i, "open", "scan")
            /\ Keep(p, [job[p] EXCEPT !.cur = None, !.page[i] = None,
                                      !.done = @ \cup {i}])
            /\ UNCHANGED lock
    /\ UNCHANGED <<tables, stdout, revealed, tx, config>>

\* Mutant of Rewrite: the old index rows are not deleted.
RewriteKeepsOld(p) ==
    LET i == job[p].cur IN
    /\ pc[p] = "rewrite"
    /\ Stage(p, [tx[p] EXCEPT !.adds = Indexed(p, rows[i].collection, i, rows[i].has),
                              !.log = {<<"reindex", i>>}])
    /\ Goto(p, "rewritten")
    /\ UNCHANGED <<tables, stdout, lock, revealed, job, config>>

\* rewriteIndex: delete the object's index rows, insert the new ones, log.
Rewrite(p) ==
    LET i == job[p].cur
        c == rows[i].collection
    IN
    /\ pc[p] = "rewrite"
    /\ Stage(p, [tx[p] EXCEPT !.dels = EntriesOf(c, i),
                              !.adds = Indexed(p, c, i, rows[i].has),
                              !.log = {<<"reindex", i>>}])
    /\ Goto(p, "rewritten")
    /\ UNCHANGED <<tables, stdout, lock, revealed, job, config>>

RewriteCommit(p, told) ==
    LET i == job[p].cur IN
    /\ pc[p] = "rewritten"
    /\ CommitTx(p, told)
    /\ IF told
       THEN /\ Resume(p, i, "open", "scan")
            /\ Keep(p, [job[p] EXCEPT !.cur = None, !.page[i] = None,
                                      !.done = @ \cup {i}])
       ELSE /\ Return(p)

-----------------------------------------------------------------------------
(* Rotate *)

\* store.Open, then Rotate's SELECT of the blind-index key.
RotateStart(p) ==
    /\ pc[p] = "idle"
    /\ Opens(p, keyrow)
    /\ Keep(p, [job[p] EXCEPT !.read = keyrow])
    /\ Goto(p, "key")
    /\ UNCHANGED <<tables, stdout, lock, revealed, tx, config>>

\* Re-wrap the blind-index key.  If it no longer opens the run ends.
RotateKeyRewrap(p) ==
    LET s == job[p].read IN
    /\ pc[p] = "key"
    /\ \/ /\ Opens(p, s)
          /\ Rewrapped(p, s) # s
          /\ Goto(p, "keywrite")
          /\ Keep(p, [job[p] EXCEPT !.re = Rewrapped(p, s)])
       \/ /\ Opens(p, s)
          /\ Rewrapped(p, s) = s
          /\ Goto(p, "select")
          /\ Keep(p, [job[p] EXCEPT !.read = None])
       \/ /\ ~Opens(p, s)
          /\ Return(p)
    /\ UNCHANGED <<tables, stdout, lock, revealed, tx, config>>

\* Mutant of KeyMatches: the WHERE compares with the new key's id.
KeyMatchesNew(p) == keyrow.key_id = job[p].re.key_id

\* The WHERE of Rotate's UPDATE of keys: key_id is still the one that was read.
KeyMatches(p) == keyrow.key_id = job[p].read.key_id

RotateKeyWrite(p) ==
    /\ pc[p] = "keywrite"
    /\ keyrow' = IF KeyMatches(p) THEN job[p].re ELSE keyrow
    /\ Goto(p, "select")
    /\ Keep(p, [job[p] EXCEPT !.read = None, !.re = None])
    /\ UNCHANGED <<rows, index, audit, stdout, lock, revealed, tx, config>>

\* The WHERE of Rotate's SELECT.
RotateSelects(p, i) ==
    /\ Live(i)
    /\ rows[i].key_id # env[p].current \/ InPlace(p)
    /\ After(p, i)

\* The next page, or the end of the run when there is none.
RotatePage(p) ==
    LET S == FirstPage({i \in Ids : RotateSelects(p, i)}) IN
    /\ pc[p] = "select"
    /\ Keep(p, [job[p] EXCEPT !.page = ReadPage(S)])
    /\ Goto(p, IF S = {} THEN "rotated" ELSE "rewrap")
    /\ UNCHANGED <<tables, stdout, lock, revealed, tx, config>>

\* Re-wrap the next row of the page: write it, leave it when its key did not
\* move, skip it when it does not open.
RotateRewrap(p, i) ==
    LET s == job[p].page[i] IN
    /\ pc[p] = "rewrap" /\ NextOfPage(p, i)
    /\ \/ /\ Opens(p, s)
          /\ Rewrapped(p, s) # s
          /\ Goto(p, "write")
          /\ Keep(p, [job[p] EXCEPT !.last = i, !.cur = i, !.read = s,
                                    !.re = Rewrapped(p, s)])
       \/ /\ Opens(p, s)
          /\ Rewrapped(p, s) = s
          /\ Resume(p, i, "rewrap", "select")
          /\ Keep(p, [job[p] EXCEPT !.last = i, !.page[i] = None])
       \/ /\ ~Opens(p, s)
          /\ Resume(p, i, "rewrap", "select")
          /\ Keep(p, [job[p] EXCEPT !.last = i, !.page[i] = None,
                                    !.skipped = @ \cup {i}])
    /\ UNCHANGED <<tables, stdout, lock, revealed, tx, config>>

\* Mutant of RotateMatches: without deleted_at IS NULL.
RotateMatchesAny(p, i) == rows[i] # None /\ rows[i].key_id = job[p].read.key_id

\* The WHERE of Rotate's UPDATE.
RotateMatches(p, i) == Live(i) /\ rows[i].key_id = job[p].read.key_id

\* Rotate's UPDATE, in a transaction of its own: it waits for the row's lock.
RotateWrite(p) ==
    LET i == job[p].cur IN
    /\ pc[p] = "write"
    /\ lock[i] = None
    /\ rows' = IF RotateMatches(p, i)
               THEN [rows EXCEPT ![i] = Rewritten(@, job[p].re)] ELSE rows
    /\ Resume(p, i, "rewrap", "select")
    /\ Keep(p, [job[p] EXCEPT !.cur = None, !.page[i] = None,
                              !.read = None, !.re = None])
    /\ UNCHANGED <<index, keyrow, audit, stdout, lock, revealed, tx, config>>

\* The command prints its counts and exits.
Exit(p) ==
    /\ pc[p] \in {"rotated", "reindexed"}
    /\ Return(p)
    /\ UNCHANGED <<tables, stdout, lock, revealed, tx, config>>

-----------------------------------------------------------------------------
(* Waiting for each other *)

\* DeleteSubject is the one operation that waits for a lock while it holds
\* others; p waits for q.
WaitsFor(p, q) ==
    pc[p] = "erase" /\ job[p].cur # None /\ lock[job[p].cur] = q

\* p is on a cycle of waiting transactions.
InDeadlock(p) ==
    \E C \in SUBSET Servers :
        /\ p \in C
        /\ \A q \in C : /\ \E r \in C : WaitsFor(q, r)
                        /\ \E r \in C : WaitsFor(r, q)

\* PostgreSQL's deadlock detector fails the statement of one of them.
DeadlockAbort(p) ==
    /\ InDeadlock(p)
    /\ Leave(p)
    /\ UNCHANGED <<tables, stdout, revealed, config>>

-----------------------------------------------------------------------------
Init ==
    /\ rows = [i \in Ids |-> None]
    /\ index = {}
    \* store.Open created it, and no server runs that cannot open it
    /\ keyrow \in {[key_id |-> k, wrapped |-> 1] : k \in Keys}
    /\ \A p \in Servers : keyrow.key_id \in StartEnv[p].all
    /\ audit = [l \in Line |-> 0]
    /\ stdout = {}
    /\ lock = [i \in Ids |-> None]
    /\ revealed = [i \in Ids |-> 0]
    /\ pc = [p \in Procs |-> "idle"]
    /\ tx = [p \in Procs |-> NoTx]
    /\ job = [p \in Procs |-> NoJob]
    /\ env = StartEnv
    /\ schema = StartSchema
    /\ engine = [version |-> 1, min |-> 1]

\* A request of a server.
Serve(p) ==
    \/ \E c \in Collections, i \in Ids, item \in Items : PutItem(p, c, i, item)
    \/ \E told \in BOOLEAN : PutCommit(p, told)
    \/ \E c \in Collections, i \in Ids : DeleteUpdate(p, c, i)
    \/ \E s \in Subjects : EraseBegin(p, s)
    \/ \E i \in Ids : EraseScan(p, i)
    \/ EraseLock(p)
    \/ EraseReturn(p)
    \/ \E i \in Ids : Unindex(p, i)
    \/ \E told \in BOOLEAN : ShredCommit(p, told)
    \/ \E c \in Collections, S \in SUBSET Ids : GetSelect(p, c, S)
    \/ \E told \in BOOLEAN : GetAudit(p, told)
    \/ Respond(p)
    \/ DeadlockAbort(p)

\* A run of "sealbox reindex".
Reindex(p) ==
    \/ \E c \in Collections \cup {None} : ReindexStart(p, c)
    \/ ReindexPage(p)
    \/ \E i \in Ids : ReindexOpen(p, i)
    \/ RewriteLock(p)
    \/ Rewrite(p)
    \/ \E told \in BOOLEAN : RewriteCommit(p, told)
    \/ Exit(p)

\* A run of "sealbox rotate".
Rotate(p) ==
    \/ RotateStart(p)
    \/ RotateKeyRewrap(p)
    \/ RotateKeyWrite(p)
    \/ RotatePage(p)
    \/ \E i \in Ids : RotateRewrap(p, i)
    \/ RotateWrite(p)
    \/ Exit(p)

Next ==
    \/ \E p \in Servers : Serve(p)
    \/ \E p \in Reindexers : Reindex(p)
    \/ \E p \in Rotators : Rotate(p)
    \/ \E p \in Procs : Abort(p)

Spec == Init /\ [][Next]_vars

\* A process that has begun goes on when it can.  Only the wait for a row's
\* lock can be disabled again: PostgreSQL queues those who wait for it.
Fairness ==
    /\ \A p \in Servers    : SF_vars(pc[p] # "idle" /\ Serve(p))
    /\ \A p \in Reindexers : SF_vars(pc[p] # "idle" /\ Reindex(p))
    /\ \A p \in Rotators   : SF_vars(pc[p] # "idle" /\ Rotate(p))

FairSpec == Spec /\ Fairness

-----------------------------------------------------------------------------
Control == {"idle", "put", "erase", "unindex", "got", "answer",
            "scan", "open", "relock", "rewrite", "rewritten", "reindexed",
            "key", "keywrite", "select", "rewrap", "write", "rotated"}

\* Every table, lock and local variable keeps its type.
TypeOK ==
    /\ rows \in [Ids -> Row \cup {None}]
    /\ index \subseteq Entry
    /\ keyrow \in Sealed
    /\ audit \in [Line -> Nat]
    /\ stdout \subseteq Line
    /\ lock \in [Ids -> Procs \cup {None}]
    /\ revealed \in [Ids -> Nat]
    /\ pc \in [Procs -> Control]
    /\ tx \in [Procs -> Tx]
    /\ job \in [Procs -> Job]
    /\ env \in [Procs -> Env]
    /\ schema \in [Procs -> [Collections -> SUBSET Fields]]
    /\ engine \in Engine

\* A row is marked deleted exactly when its wrapped key is gone: a live object
\* always has a key, a shredded one never does, whatever Rotate wrote.
LiveIffKey == \A i \in Stored : rows[i].deleted <=> rows[i].wrapped = Null

\* A search finds live objects only: no index row outlives its object, even
\* when Reindex rewrites it while Delete or DeleteSubject shreds it.
IndexOnlyLive ==
    \A e \in index : Live(e.id) /\ rows[e.id].collection = e.collection

\* The index rows of a live object are always the complete set that some
\* process's schema asks for: no reader ever sees half of a rewrite.
IndexWhole ==
    \A i \in Stored : Live(i) =>
        \E p \in Procs : EntriesOf(rows[i].collection, i)
                           = Indexed(p, rows[i].collection, i, rows[i].has)

\* The log has one create line for each object ever stored and one delete
\* line for each object shredded, however many requests raced to delete it.
AuditExact ==
    \A i \in Ids :
        /\ audit[<<"create", i>>] = IF i \in Stored THEN 1 ELSE 0
        /\ audit[<<"delete", i>>] = IF i \in Stored /\ ~Live(i) THEN 1 ELSE 0

\* No plaintext leaves the server more often than the log says it did.
RevealAudited == \A i \in Ids : revealed[i] <= audit[<<"reveal", i>>]

\* Standard output never shows a line that audit_log does not have: emit
\* comes after the commit.
EmittedCommitted == \A l \in stdout : audit[l] > 0

\* When DeleteSubject's UPDATE has returned, every row its snapshot matched is
\* about to be shredded by it or was shredded by someone else meanwhile.
EraseCovers ==
    \A p \in Servers : pc[p] = "unindex" =>
        \A i \in PageIds(p) : i \in tx[p].shred \/ ~Live(i)

\* A shredded row never changes again: no rotation, however late its write,
\* puts a wrapped key back.
ShredFinal ==
    [][\A i \in Ids : i \in Stored /\ ~Live(i) => rows'[i] = rows[i]]_vars

\* Every request and every run of a command ends, deadlocks included.
EveryRequestEnds == \A p \in Procs : pc[p] # "idle" ~> pc[p] = "idle"

\* An object that Reindex counts as done has a reindex line in the log.
DoneLogged ==
    \A p \in Reindexers : \A i \in job[p].done : audit[<<"reindex", i>>] > 0
=============================================================================
