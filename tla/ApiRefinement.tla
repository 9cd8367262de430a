--------------------------- MODULE ApiRefinement ---------------------------
(***************************************************************************)
(* What clients are promised over HTTP is the Vault as well, with the      *)
(* answers counted where they leave the process: Api implements Vault,     *)
(* seen without clients, budgets and the level of a reveal.  Searches give *)
(* ids, not objects, and their places are those of Store and of Search.    *)
(***************************************************************************)
EXTENDS Api

StateOf(i) == IF i \in live THEN "live" ELSE IF i \in erased THEN "erased" ELSE "absent"

\* What Vault does not tell apart: who revealed, and how much of the object.
Merged(action) == IF action = "reveal" THEN {"reveal_masked", "reveal_full"} ELSE {action}

\* How many of the lines counted by f are about object i.
Total(f, action, i) == SumOf(f, Clients \X Merged(action) \X {i})

V == INSTANCE Vault WITH
    Places   <- {},
    state    <- [i \in Ids |-> StateOf(i)],
    found    <- {},
    log      <- [l \in {"create", "reveal", "delete", "reindex"} \X Ids |->
                    IF l[1] = "reindex" THEN 0 ELSE Total(log, l[1], l[2])],
    answered <- [i \in Ids |-> Total(given, "reveal", i)]

\* Every run of the API is a run of the Vault: a batch is created, erased,
\* logged and answered as one; no object is answered more often than its
\* reveals were logged before, whoever asked and whatever else was going on
\* (auditMany before writeJSON in get and revealBatch).
ApiImplementsVault == V!Spec
=============================================================================
