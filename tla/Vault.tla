------------------------------- MODULE Vault -------------------------------
(***************************************************************************)
(* What sealbox promises its callers, with no tables, statements, locks or *)
(* wrapped keys: objects are created and erased in batches that happen all *)
(* at once, an erased object stays erased and is found by no search, and   *)
(* whatever happens to an object is in the log the moment it happens.      *)
(* Store implements this specification (StoreRefinement).                  *)
(***************************************************************************)
EXTENDS Naturals

CONSTANTS Ids,      \* tokens
          Places    \* what a search can find: records with a field id

VARIABLES state,    \* "absent", "live" or "erased", for each object
          found,    \* the places at which searches find objects
          log,      \* how often each line <<action, id>> is in the log
          answered  \* how many answers carried each object

vars == <<state, found, log, answered>>

Lines == {"create", "reveal", "delete", "reindex"} \X Ids

Logged(action, S) ==
    log' = [l \in Lines |-> log[l] + IF l[1] = action /\ l[2] \in S THEN 1 ELSE 0]

PlacesOf(S) == {e \in Places : e.id \in S}

Init ==
    /\ state = [i \in Ids |-> "absent"]
    /\ found = {}
    /\ log = [l \in Lines |-> 0]
    /\ answered = [i \in Ids |-> 0]

\* A batch is created: all of it appears, findable and logged, or none does.
Create(S, E) ==
    /\ \A i \in S : state[i] = "absent"
    /\ state' = [i \in Ids |-> IF i \in S THEN "live" ELSE state[i]]
    /\ found' = found \cup E
    /\ Logged("create", S)
    /\ UNCHANGED answered

\* A set of live objects is erased: no search finds them from then on.
Erase(S) ==
    /\ \A i \in S : state[i] = "live"
    /\ state' = [i \in Ids |-> IF i \in S THEN "erased" ELSE state[i]]
    /\ found' = found \ PlacesOf(S)
    /\ Logged("delete", S)
    /\ UNCHANGED answered

\* A reveal of stored objects is logged...
LogReveal(S) ==
    /\ \A i \in S : state[i] # "absent"
    /\ Logged("reveal", S)
    /\ UNCHANGED <<state, found, answered>>

\* ... before it is answered, and answered at most once.
Answer(S) ==
    /\ \A i \in S : answered[i] < log[<<"reveal", i>>]
    /\ answered' = [i \in Ids |-> answered[i] + IF i \in S THEN 1 ELSE 0]
    /\ UNCHANGED <<state, found, log>>

\* A live object is indexed anew, in one step.
Refresh(i, E) ==
    /\ state[i] = "live"
    /\ found' = (found \ PlacesOf({i})) \cup E
    /\ Logged("reindex", {i})
    /\ UNCHANGED <<state, answered>>

Next ==
    \/ \E S \in SUBSET Ids : \E E \in SUBSET PlacesOf(S) : Create(S, E)
    \/ \E S \in SUBSET Ids : Erase(S) \/ LogReveal(S) \/ Answer(S)
    \/ \E i \in Ids : \E E \in SUBSET PlacesOf({i}) : Refresh(i, E)

Spec == Init /\ [][Next]_vars
=============================================================================
