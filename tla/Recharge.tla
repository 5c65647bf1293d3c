------------------------------ MODULE Recharge ------------------------------
(***************************************************************************)
(* What the recharge feature promises, with no database, cache or request: *)
(* an order is open for payment or it is not, and a credit of the buyer's  *)
(* balance consumes the opening it was paid for.  OrderWallet implements   *)
(* this module (see OrderWallet!Implements).                               *)
(***************************************************************************)
EXTENDS Naturals

CONSTANT Orders

VARIABLES
    open,       \* open[o]: the order can be paid
    openings,   \* openings[o]: how often the order became payable
    credits     \* credits[o]: how often its amount reached the balance

vars == <<open, openings, credits>>

Init ==
    /\ open = [o \in Orders |-> FALSE]
    /\ openings = [o \in Orders |-> 0]
    /\ credits = [o \in Orders |-> 0]

Open(o) ==
    /\ ~open[o]
    /\ open' = [open EXCEPT ![o] = TRUE]
    /\ openings' = [openings EXCEPT ![o] = @ + 1]
    /\ UNCHANGED credits

Close(o) ==
    /\ open[o]
    /\ open' = [open EXCEPT ![o] = FALSE]
    /\ UNCHANGED <<openings, credits>>

Credit(o) ==
    /\ open[o]
    /\ open' = [open EXCEPT ![o] = FALSE]
    /\ credits' = [credits EXCEPT ![o] = @ + 1]
    /\ UNCHANGED openings

Next == \E o \in Orders : Open(o) \/ Close(o) \/ Credit(o)

Spec == Init /\ [][Next]_vars
=============================================================================
