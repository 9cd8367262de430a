-------------------------- MODULE StoreRefinement --------------------------
(***************************************************************************)
(* Store implements Vault: a row is absent, live or erased as its columns  *)
(* say, a search finds what blind_index holds, the log is audit_log.       *)
(***************************************************************************)
EXTENDS Store

StateOf(i) == IF rows[i] = None THEN "absent"
              ELSE IF rows[i].deleted THEN "erased" ELSE "live"

V == INSTANCE Vault WITH
        Places   <- Entry,
        state    <- [i \in Ids |-> StateOf(i)],
        found    <- index,
        log      <- audit,
        answered <- revealed

\* Whatever statements, locks, crashes and rotations do, callers see the steps
\* of Vault: PutMany, Delete, DeleteSubject and rewriteIndex take effect with
\* their audit lines in one step, or not at all.
ImplementsVault == V!Spec
=============================================================================
