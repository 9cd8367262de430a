------------------------------ MODULE MCStore ------------------------------
(***************************************************************************)
(* Small instances of Store.                                               *)
(***************************************************************************)
EXTENDS StoreRefinement, StoreInvariant, TLC

CONSTANTS c1, c2, s1, f1, f2, k1, k2, k3, srv1, srv2, rot1, rot2, rix

\* An object about s1 that has both fields.
OneItem == {[subject |-> s1, has |-> {f1, f2}]}

\* An object about nobody, which no erasure matches.
AnonymousItem == {[subject |-> None, has |-> {f1}]}

\* One configuration for all.
SameEnv == [p \in Procs |-> [current |-> k1, all |-> {k1}]]
SameSchema == [p \in Procs |-> [c \in Collections |-> {f1}]]

\* Old replicas, and the rotation started by mistake with their configuration,
\* wrap under k1; the others wrap under k2 and still have k1.
MixedEnv ==
    [p \in Procs |-> [current |-> IF p \in {srv1, rot2} THEN k1 ELSE k2,
                      all |-> {k1, k2}]]

\* As before, but the reindex was started without the old key.
LateEnv == [p \in Procs |-> IF p = rix THEN [current |-> k2, all |-> {k2}]
                            ELSE MixedEnv[p]]

\* The servers wrap under two keys, and each command has one of them: it meets
\* rows that it opens and rows that it skips.  The one that has the key of the
\* blind-index key can start.
SplitEnv ==
    [p \in Procs |-> CASE p = srv1 -> [current |-> k1, all |-> {k1, k2}]
                       [] p = srv2 -> [current |-> k2, all |-> {k1, k2}]
                       [] p \in Reindexers -> [current |-> k1, all |-> {k1}]
                       [] p \in Rotators   -> [current |-> k3, all |-> {k2, k3}]]

\* srv1 still has the schema that indexes f1; the others index f2 instead.
MixedSchema ==
    [p \in Procs |-> [c \in Collections |-> IF p = srv1 THEN {f1} ELSE {f2}]]

Symmetry == Permutations({srv1, srv2})
=============================================================================
