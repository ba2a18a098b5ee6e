-------------------------------- MODULE Sums --------------------------------
(***************************************************************************)
(* Sums of money over a finite set, as the accounting and the settlements  *)
(* take them: the values of a function added up, each once.                *)
(***************************************************************************)
EXTENDS Integers, FiniteSets, FiniteSetsExt

SumOver(f, S) == FoldSet(LAMBDA k, sum : f[k] + sum, 0, S)
=============================================================================
