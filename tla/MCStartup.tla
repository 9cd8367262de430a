----------------------------- MODULE MCStartup -----------------------------
(***************************************************************************)
(* An old release and a new one start on an empty database while the       *)
(* wrapping key changes from k1 to k2: "old" and "new" migrate, "off" is a *)
(* server of the new release that only checks.  "old" cannot open k2.      *)
(***************************************************************************)
EXTENDS Startup

MCReplicas == {"old", "new", "off"}

MCNeeds   == [r \in MCReplicas |-> IF r = "old" THEN 1 ELSE 2]
MCCurrent == [r \in MCReplicas |-> IF r = "new" THEN "k2" ELSE "k1"]
MCLoaded  == [r \in MCReplicas |-> IF r = "old" THEN {"k1"} ELSE {"k1", "k2"}]
=============================================================================
