--------------------------- MODULE MCOrderWallet ---------------------------
(***************************************************************************)
(* OrderWallet for TLC: one buyer and two handlers at once.                *)
(***************************************************************************)
EXTENDS OrderWallet, TLC

CONSTANTS u1

OwnerOf == [o \in Orders |-> u1]
AmountOf == [o \in Orders |-> 1]
\* A debt: the balances that are not negative come from payments.
BalancesTyped == {-1}
Symmetric == Permutations(Requests)
=============================================================================
