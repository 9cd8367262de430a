------------------------------- MODULE MCApi -------------------------------
(***************************************************************************)
(* Three clients: the shop writes and reads what it wrote, support reads   *)
(* masked values and searches, the privacy team reveals and shreds.  The   *)
(* budgets are small: support's burst is one unit and takes five seconds   *)
(* to refill, privacy's is two.                                            *)
(***************************************************************************)
EXTENDS ApiRefinement, TLC

MCClients == {"shop", "support", "privacy", "default"}

MCKeys == {"k1", "k2", "k3", "k4", "short"}

MCRoleNames == AllRoles \cup {"admin"}

Shop    == [name |-> "shop", key |-> "k1", roles |-> {"write", "read_masked"}, per |-> 0]
Support == [name |-> "support", key |-> "k2", roles |-> {"read_masked", "search"}, per |-> 2]
Privacy == [name |-> "privacy", key |-> "k3", roles |-> {"read_full", "delete"}, per |-> 5]

\* Two settings that are accepted, a keys file and the client of SEALBOX_API_KEY
\* alone, and six that the server must refuse: a key that two clients share, a
\* key and a name that SEALBOX_API_KEY takes twice, a role that does not exist, a
\* short key, no client at all.
MCSettings ==
    {[file |-> {Shop, Support, Privacy}, apiKey |-> None],
     [file |-> {}, apiKey |-> "k4"],
     [file |-> {Shop, [Privacy EXCEPT !.key = "k1"]}, apiKey |-> None],
     [file |-> {Shop, Support}, apiKey |-> "k2"],
     [file |-> {[Shop EXCEPT !.name = "default"]}, apiKey |-> "k4"],
     [file |-> {[Shop EXCEPT !.roles = {"admin"}]}, apiKey |-> None],
     [file |-> {}, apiKey |-> "short"],
     [file |-> {}, apiKey |-> None]}

Symmetry == Permutations(Requests)
=============================================================================
