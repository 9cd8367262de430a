--------------------------- MODULE StoreInvariant ---------------------------
(***************************************************************************)
(* The inductive invariant of Store: what every open transaction has done  *)
(* so far, and why no other process can disturb it before it commits.      *)
(***************************************************************************)
EXTENDS Store

\* The objects that p's transaction has inserted.
New(p) == {i \in Ids : tx[p].rows[i] # None}

\* Between transactions nothing is left of the last one.
NoneOpen(p) ==
    pc[p] \notin {"put", "erase", "unindex", "rewrite", "rewritten"} => tx[p] = NoTx

\* PutMany: new rows are live and nobody else's; their index rows and create
\* lines, and nothing else, go with them.
PutSoFar(p) ==
    pc[p] = "put" =>
        /\ tx[p].shred = {} /\ tx[p].todo = {} /\ tx[p].dels = {}
        /\ tx[p].log = {<<"create", i>> : i \in New(p)}
        /\ \A i \in New(p) : /\ rows[i] = None
                             /\ ~tx[p].rows[i].deleted
                             /\ tx[p].rows[i].wrapped # Null
        /\ \A e \in tx[p].adds : /\ e.id \in New(p)
                                 /\ tx[p].rows[e.id].collection = e.collection

\* Delete and DeleteSubject: p holds the lock of each row it shreds, so the row
\* is still live; a row that needs no unindexing any more has its delete line,
\* and every index row it had is among those deleted.
ShredSoFar(p) ==
    pc[p] \in {"erase", "unindex"} =>
        /\ New(p) = {} /\ tx[p].adds = {}
        /\ \A i \in tx[p].shred : Live(i) /\ lock[i] = p
        /\ pc[p] = "erase" => tx[p].dels = {} /\ tx[p].log = {}
        /\ pc[p] = "unindex" =>
             /\ tx[p].todo \subseteq tx[p].shred
             /\ tx[p].log = {<<"delete", i>> : i \in tx[p].shred \ tx[p].todo}
             /\ \A e \in tx[p].dels : e.id \in tx[p].shred
             /\ \A e \in index : e.id \in tx[p].shred \ tx[p].todo => e \in tx[p].dels

\* rewriteIndex: p holds the lock of the row whose index it replaces.
RewriteSoFar(p) ==
    pc[p] \in {"rewrite", "rewritten"} =>
        /\ New(p) = {} /\ tx[p].shred = {} /\ tx[p].todo = {}
        /\ job[p].cur # None /\ Live(job[p].cur) /\ lock[job[p].cur] = p
        /\ pc[p] = "rewrite" => tx[p] = NoTx
        /\ pc[p] = "rewritten" =>
             /\ tx[p].log = {<<"reindex", job[p].cur>>}
             /\ \A e \in tx[p].dels : e.id = job[p].cur
             /\ \A e \in index : e.id = job[p].cur => e \in tx[p].dels
             /\ \A e \in tx[p].adds : /\ e.id = job[p].cur
                                      /\ e.collection = rows[e.id].collection

\* The locals that a step relies on are set when it is reached, and a key that
\* is about to be written is never the empty one.
JobReady(p) ==
    /\ pc[p] = "idle" => job[p] = NoJob
    /\ pc[p] = "key" => job[p].read # None
    /\ pc[p] \in {"relock", "write"} => job[p].cur # None
    /\ pc[p] \in {"keywrite", "write"} =>
         job[p].read # None /\ job[p].re # None /\ job[p].re.wrapped # Null

\* While DeleteSubject's UPDATE runs, each row its snapshot matched is still to
\* be looked at, shredded by it, or no longer live.
EraseSoFar(p) ==
    pc[p] \in {"erase", "unindex"} =>
        \A i \in PageIds(p) :
            /\ rows[i] # None
            /\ \/ pc[p] = "erase" /\ i \in tx[p].todo
               \/ i \in tx[p].shred
               \/ ~Live(i)

ProcInv(p) ==
    NoneOpen(p) /\ PutSoFar(p) /\ ShredSoFar(p) /\ RewriteSoFar(p) /\ JobReady(p)
    /\ EraseSoFar(p)

\* No two transactions insert the same id.
NewDisjoint == \A p, q \in Procs : p # q => New(p) \cap New(q) = {}

\* The inductive invariant: no step of one process undoes what another relies on.
Inv == /\ TypeOK
       /\ \A p \in Procs : ProcInv(p)
       /\ NewDisjoint
       /\ LiveIffKey
       /\ IndexOnlyLive
       /\ AuditExact

-----------------------------------------------------------------------------
(* What the answers, the index and the refinement of Vault rest on *)

\* The requests whose next step is to answer with object i.
Waiting(i) == {p \in Procs : pc[p] = "answer" /\ i \in PageIds(p)}

\* Each answer that was given, and each that is about to be, has a reveal line
\* of its own: two readers of an object never share one.
RevealsCounted ==
    \A i \in Ids :
        /\ IsFiniteSet(Waiting(i))
        /\ revealed[i] + Cardinality(Waiting(i)) <= audit[<<"reveal", i>>]

\* GetMany: the objects that were read are stored.
ReadSoFar(p) == pc[p] = "got" => PageIds(p) \subseteq Stored

\* PutMany and rewriteIndex: the index rows to insert for an object are all
\* those that p's own schema asks for.
IndexSoFar(p) ==
    /\ pc[p] = "put" => \A i \in New(p) :
         {e \in tx[p].adds : e.id = i}
           = Indexed(p, tx[p].rows[i].collection, i, tx[p].rows[i].has)
    /\ pc[p] = "rewritten" =>
         tx[p].adds = Indexed(p, rows[job[p].cur].collection, job[p].cur,
                              rows[job[p].cur].has)

\* Inv, and what callers are told: also inductive.
FullInv == /\ Inv
           /\ RevealsCounted
           /\ \A p \in Procs : ReadSoFar(p) /\ IndexSoFar(p)
           /\ IndexWhole
=============================================================================
