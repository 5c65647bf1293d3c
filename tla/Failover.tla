------------------------------ MODULE Failover ------------------------------
(***************************************************************************)
(* What a streamed chat completion promises, with no Redis, timer, context *)
(* or goroutine: providers have turns, one at a time and at most one each; *)
(* a request pinned to a provider ends with it; it fails only when it is   *)
(* pinned or nobody is left; and only a complete answer is delivered and   *)
(* charged.  A fault can undo a pin, and there are at most MaxFaults.      *)
(* StreamFailover implements this module (see StreamFailover!Implements).  *)
(***************************************************************************)
EXTENDS Naturals

CONSTANTS Providers, None, MaxFaults

VARIABLES
    phase,      \* "asking", "delivered" or "closed"
    turn,       \* the provider that is being asked, or None
    past,       \* the providers whose turn is over or was skipped
    pinned,     \* the request stays with `turn'
    complete,   \* the providers that ended their answer
    charges,    \* charges[p]: charges for an answer of p
    faults      \* lost commands so far

vars == <<phase, turn, past, pinned, complete, charges, faults>>

Init ==
    /\ phase = "asking"
    /\ turn = None
    /\ past = {}
    /\ pinned = FALSE
    /\ complete = {}
    /\ charges = [p \in Providers |-> 0]
    /\ faults = 0

Fault == faults < MaxFaults /\ faults' = faults + 1
MaybeFault == Fault \/ UNCHANGED faults

Free(p) == phase = "asking" /\ turn = None /\ p \notin past

Skip(p) ==
    /\ Free(p)
    /\ past' = past \union {p}
    /\ UNCHANGED <<phase, turn, pinned, complete, charges, faults>>

Ask(p) ==
    /\ Free(p)
    /\ turn' = p
    /\ UNCHANGED <<phase, past, pinned, complete, charges, faults>>

Pin ==
    /\ phase = "asking"
    /\ turn # None
    /\ pinned' = TRUE
    /\ UNCHANGED <<phase, turn, past, complete, charges, faults>>

\* The pin is lost, or something that does not matter.
Lose ==
    /\ Fault
    /\ pinned' \in {pinned, FALSE}
    /\ UNCHANGED <<phase, turn, past, complete, charges>>

\* An answer may be completed after its turn.
Complete(p) ==
    /\ p = turn \/ p \in past
    /\ complete' = complete \union {p}
    /\ UNCHANGED <<phase, turn, past, pinned, charges, faults>>

\* The turn is over, and with it the pin.
Over ==
    /\ turn' = None
    /\ past' = past \union {turn}
    /\ pinned' = FALSE

GiveUp ==
    /\ phase = "asking"
    /\ turn # None
    /\ ~pinned
    /\ Over
    /\ MaybeFault
    /\ UNCHANGED <<phase, complete, charges>>

FailPinned ==
    /\ phase = "asking"
    /\ turn # None
    /\ pinned
    /\ phase' = "closed"
    /\ Over
    /\ MaybeFault
    /\ UNCHANGED <<complete, charges>>

FailExhausted ==
    /\ phase = "asking"
    /\ turn = None
    /\ past = Providers
    /\ phase' = "closed"
    /\ UNCHANGED <<turn, past, pinned, complete, charges, faults>>

Deliver ==
    /\ phase = "asking"
    /\ turn \in complete
    /\ phase' = "delivered"
    /\ MaybeFault
    /\ UNCHANGED <<turn, past, pinned, complete, charges>>

\* Money moves once, for the answer that was delivered, or not at all.
Settle ==
    /\ phase = "delivered"
    /\ phase' = "closed"
    /\ Over
    /\ charges' \in {charges, [charges EXCEPT ![turn] = 1]}
    /\ UNCHANGED <<complete, faults>>

Next ==
    \/ \E p \in Providers : Skip(p) \/ Ask(p) \/ Complete(p)
    \/ Pin
    \/ Lose
    \/ GiveUp
    \/ FailPinned
    \/ FailExhausted
    \/ Deliver
    \/ Settle

Spec == Init /\ [][Next]_vars
=============================================================================
