---------------------------- MODULE MCAccounting ----------------------------
(* Instances of Accounting for TLC: two fills on the YES side, of 2 and 1     *)
(* contracts, and two on the NO side, of 3 and 1, so that in the orders their *)
(* times allow they open, increase, reduce, close exactly and reverse, from   *)
(* either side; the last one has no price and the second no fee.              *)
EXTENDS Accounting, TLC

CountsMC == [id \in FillIds |-> <<2, 1, 3, 1>>[id]]
PricesMC == [id \in FillIds |-> <<120, 300, 420, None>>[id]]
FeesMC == [id \in FillIds |-> <<1, None, 16, 4>>[id]]
SidesMC == [id \in FillIds |-> IF id \in {1, 2} THEN {"yes"} ELSE {"no"}]

SubaccountsAreAlike == Permutations(Subaccounts)
=============================================================================
