-------------------------------- MODULE Sums --------------------------------
(***************************************************************************)
(* Totals over finite sets, as the properties of Api count them.           *)
(***************************************************************************)
EXTENDS Integers, FiniteSetsExt

\* The sum of f[x] over the members x of the finite set S.
SumOf(f, S) == MapThenSumSet(LAMBDA x : f[x], S)
=============================================================================
