------------------------------ MODULE MCReveal ------------------------------
(***************************************************************************)
(* Four rows, each whole or damaged in one way, under a local key, a       *)
(* transit key without context binding, and a key this server lacks.       *)
(***************************************************************************)
EXTENDS Reveal

CONSTANTS local, transit, lost

MCKeys == {local, transit, lost}

\* The id whose parts a damaged row has.
Next4(i) == (i % 4) + 1

\* Whole rows, a row that is a copy of another, one with another's wrapped key,
\* one whose wrapped key the engine refuses, and one under the key that is not
\* loaded.
RowOf(i, kind) ==
    CASE kind = "local"   -> [key |-> local, wrap |-> i, body |-> i]
      [] kind = "copied"  -> [key |-> local, wrap |-> Next4(i), body |-> Next4(i)]
      [] kind = "transit" -> [key |-> transit, wrap |-> i, body |-> i]
      [] kind = "swapped" -> [key |-> transit, wrap |-> Next4(i), body |-> i]
      [] kind = "refused" -> [key |-> transit, wrap |-> None, body |-> i]
      [] kind = "lost"    -> [key |-> lost, wrap |-> i, body |-> i]

WholeKinds == {"local", "transit"}
Damaged    == {"copied", "swapped", "refused", "lost"}

\* Up to two of the rows are damaged, each in its way.
MCTables ==
    {[i \in Ids |-> RowOf(i, f[i])] :
       f \in {g \in [Ids -> WholeKinds \cup Damaged] :
                Cardinality({i \in Ids : g[i] \in Damaged}) <= 2}}

\* All four; some of them twice, with ids that do not exist.
MCRequests == {<<1, 2, 3, 4>>, <<3, 5, 1, 3, 5, 6>>}
=============================================================================
