------------------------ MODULE DeploymentInvariant ------------------------
(***************************************************************************)
(* The inductive invariant of Deployment: where the procedure stands, what *)
(* every sealed key still needs, and how far each command has come.        *)
(***************************************************************************)
EXTENDS Deployment, StoreInvariant

\* The operator waits where the engine's versions make it necessary.
Careful == RotatesEngine => Drain /\ Settle

Rotating   == \E p \in Rotators : pc[p] # "idle"
Reindexing == \E p \in Reindexers : pc[p] # "idle"

\* No replica is left that has never been restarted.
Rolled == \A p \in Servers : env[p] \in {BothEnv, NewEnv}

\* Some rotation has begun in this round, or has ended well.
Replacing == phase \in {"drop", "done"} \/ Rotating

\* A sealed key, or a row, that the change has reached.
Current(s) ==
    /\ s.key_id = BothEnv.current
    /\ Careful /\ s.key_id \in Transit => s.wrapped >= engine.version

\* A sealed key, or a row, that every restarted replica opens.
Kept(s) ==
    /\ s.wrapped # Null
    /\ s.key_id \in BothEnv.all
    /\ phase = "old" => s.key_id \in OldEnv.all
    /\ \A p \in Servers : env[p] = NewEnv => s.key_id \in NewEnv.all
    /\ Careful /\ s.key_id \in Transit => s.wrapped >= engine.min

-----------------------------------------------------------------------------
(* The procedure *)

EngineInv ==
    /\ engine.min <= engine.version
    /\ ~RotatesEngine => engine = [version |-> 1, min |-> 1]

\* Which configurations there can be, and since when none is the old one.
PhaseInv ==
    /\ phase \in Phases
    /\ \A p \in Servers : env[p] \in {OldEnv, BothEnv, NewEnv}
    /\ \A p \in Procs \ Servers : env[p] = BothEnv /\ schema[p] = NewSchema
    /\ phase = "old" => /\ \A p \in Servers : env[p] = OldEnv
                        /\ ~Rotating
    /\ Replacing => Rolled
    /\ \A p \in Servers : env[p] = NewEnv => Rolled \/ OldEnv.current \in NewEnv.all
    /\ Reindexing \/ rebuilt # {} => \A p \in Servers : schema[p] = NewSchema
    /\ rebuilt \subseteq Collections

\* What a request has sealed and not yet committed: under its replica's key
\* and, once a rotation has begun, under no earlier version.
StagedInv ==
    \A p \in Servers :
        /\ \A i \in New(p) :
             /\ tx[p].rows[i].key_id = env[p].current
             /\ Careful /\ tx[p].rows[i].key_id \in Transit
                  => tx[p].rows[i].wrapped >= engine.min
        /\ Careful /\ Replacing => ~InFlight(p)

\* Nothing is lost, and once a rotation has ended well nothing is left behind.
KeysInv ==
    /\ Kept(keyrow)
    /\ \A i \in Ids : Live(i) => Kept(rows[i])
    /\ phase \in {"drop", "done"} => /\ Current(keyrow)
                                     /\ \A i \in Ids : Live(i) => Current(rows[i])

-----------------------------------------------------------------------------
(* The commands *)

\* The rows that p's run will still come to: on its page, or beyond it.
Ahead(p, i) ==
    \/ i \in PageIds(p)
    \/ After(p, i) /\ \A j \in PageIds(p) : i > j

\* Rotate: what it has not re-wrapped is ahead of it or was skipped, and what
\* it has read is what is stored, unless somebody else has re-wrapped that.
RotateSoFar(p) ==
    /\ pc[p] \in {"idle", "key", "keywrite", "select", "rewrap", "write", "rotated"}
    /\ pc[p] \in {"key", "keywrite"} => Current(keyrow) \/ keyrow = job[p].read
    /\ pc[p] \in {"select", "rewrap", "write", "rotated"} => Current(keyrow)
    /\ pc[p] \in {"keywrite", "write"} => Current(job[p].re)
    /\ pc[p] \notin {"rewrap", "write"} => PageIds(p) = {}
    /\ pc[p] = "write" => /\ job[p].cur \in PageIds(p)
                          /\ job[p].read = job[p].page[job[p].cur]
    /\ \A i \in PageIds(p) : Live(i) => Current(rows[i]) \/ SealedOf(i) = job[p].page[i]
    /\ pc[p] # "idle" =>
         \A i \in Ids : Live(i) /\ ~Current(rows[i]) =>
             i \in job[p].skipped \/ (pc[p] # "rotated" /\ Ahead(p, i))

\* Object i is indexed as the new schema asks.
Anew(i) ==
    LET c == rows[i].collection IN
    EntriesOf(c, i) = {[collection |-> c, field |-> f, id |-> i] :
                         f \in NewSchema[c] \cap rows[i].has}

\* Reindex: what it has not rebuilt is ahead of it or was skipped.
ReindexSoFar(p) ==
    /\ pc[p] \in {"idle", "scan", "open", "relock", "rewrite", "rewritten", "reindexed"}
    /\ pc[p] \in {"scan", "reindexed"} => PageIds(p) = {}
    /\ pc[p] \in {"relock", "rewrite", "rewritten"} => job[p].cur \in PageIds(p)
    /\ pc[p] # "idle" =>
         \A i \in Ids : /\ Live(i) /\ ~Anew(i)
                        /\ job[p].collection \in {None, rows[i].collection}
             => i \in job[p].skipped \/ (pc[p] # "reindexed" /\ Ahead(p, i))

RebuiltInv == \A i \in Ids : Live(i) /\ rows[i].collection \in rebuilt => Anew(i)

ServeSoFar(p) == pc[p] \in {"idle", "put", "erase", "unindex", "got", "answer"}

\* The inductive invariant.
DInv == /\ Inv
        /\ \A p \in Procs : IndexSoFar(p)
        /\ EngineInv /\ PhaseInv /\ StagedInv /\ KeysInv
        /\ \A p \in Servers : ServeSoFar(p)
        /\ \A p \in Rotators : RotateSoFar(p)
        /\ \A p \in Reindexers : ReindexSoFar(p)
        /\ RebuiltInv
=============================================================================
