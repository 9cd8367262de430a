---------------------------- MODULE MCDeployment ----------------------------
(***************************************************************************)
(* Small instances of Deployment: a new master key, a new version of the   *)
(* transit key, a new schema.                                              *)
(***************************************************************************)
EXTENDS DeploymentInvariant, TLC

CONSTANTS c1, s1, f1, f2, k1, k2, srv1, srv2, rot1, rot2, rix

OneItem == {[subject |-> s1, has |-> {f1, f2}]}

\* An object about nobody, which no erasure matches.
AnonymousItem == {[subject |-> None, has |-> {f1, f2}]}

EnvOld  == [current |-> k1, all |-> {k1}]
EnvBoth == [current |-> k2, all |-> {k1, k2}]
EnvNew  == [current |-> k2, all |-> {k2}]

SchemaOld == [c \in Collections |-> {f1}]
SchemaNew == [c \in Collections |-> {f2}]

EnvAtStart    == [p \in Procs |-> IF p \in Servers THEN OldEnv ELSE BothEnv]
SchemaAtStart == [p \in Procs |-> IF p \in Servers THEN OldSchema ELSE NewSchema]

Symmetry == Permutations({srv1, srv2}) \cup Permutations({rot1, rot2})
=============================================================================
