-------------------------------- MODULE Sums --------------------------------
(***************************************************************************)
(* The sum of a function's values over a finite set of its arguments: what *)
(* the properties about money, quotas and usage compare.  Its laws are     *)
(* proved in SumTheorems.                                                  *)
(***************************************************************************)
EXTENDS FiniteSetsExt

SumOver(f, S) == MapThenSumSet(LAMBDA x : f[x], S)
=============================================================================
