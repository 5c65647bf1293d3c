--------------------------- MODULE InstanceSlots ---------------------------
(***************************************************************************)
(* The concurrency slots of a provider's instances: how an attempt chooses *)
(* an instance and takes one of its slots, and how the slot comes back     *)
(* (scheduler/instance_scheduler.go, attachSelectedInstance in             *)
(* scheduler/cascade_controller.go, the two Lua scripts in                 *)
(* scheduler/runtime_state_store.go).                                      *)
(*                                                                         *)
(* The counter in Redis expires 300 seconds after the latest acquisition;  *)
(* the limit is a column that administrators change.  Circuits of          *)
(* instances are left out: nothing in the program opens one.               *)
(***************************************************************************)
EXTENDS Naturals, FiniteSets

CONSTANTS
    Calls,          \* attempts under way, each over and over again
    Instances,
    NoInstance,
    Limits,         \* values of max_concurrency, zero for none
    Tries,          \* how often SelectInstanceWithRetry chooses
    MaxSlotFaults   \* bound: lost replies, failing releases, dying processes

ASSUME SlotAssumption ==
    /\ IsFiniteSet(Calls)
    /\ NoInstance \notin Instances
    /\ Limits \subseteq Nat
    /\ Tries \in Nat
    /\ MaxSlotFaults \in Nat

VARIABLES
    limit,      \* limit[i]: max_concurrency in the database
    slots,      \* slots[i]: the counter in Redis, zero when there is no key
    fresh,      \* fresh[i]: an acquisition within the last 300 seconds
    phase,      \* phase[c]: where attempt c stands
    chosen,     \* chosen[c]: the instance it is about
    cap,        \* cap[c]: the limit it has read for it
    tries,      \* tries[c]: choices made
    over,       \* over[c]: its context has ended
    slotFaults,
    stray,      \* history: stray[i]: counted slots that nobody will release
    unsound     \* history: the counter of i expired under a call, or a call
                \* that had taken no slot released one

slotLocals == <<phase, chosen, cap, tries, over>>
slotVars == <<limit, slots, fresh, slotLocals, slotFaults, stray, unsound>>

Phases == {"idle", "choose", "acquire", "check", "undo", "working"}

SlotTypeOK ==
    /\ limit \in [Instances -> Limits]
    /\ slots \in [Instances -> Nat]
    /\ fresh \in [Instances -> BOOLEAN]
    /\ phase \in [Calls -> Phases]
    /\ chosen \in [Calls -> Instances \union {NoInstance}]
    /\ \A c \in Calls :
        phase[c] \in {"acquire", "check", "undo"} => chosen[c] \in Instances
    /\ cap \in [Calls -> Limits \union {0}]
    /\ tries \in [Calls -> 0 .. Tries]
    /\ over \in [Calls -> BOOLEAN]
    /\ slotFaults \in Nat
    /\ stray \in [Instances -> Nat]
    /\ unsound \in [Instances -> BOOLEAN]

SlotInit ==
    /\ limit \in [Instances -> Limits]
    /\ slots = [i \in Instances |-> 0]
    /\ fresh = [i \in Instances |-> FALSE]
    /\ phase = [c \in Calls |-> "idle"]
    /\ chosen = [c \in Calls |-> NoInstance]
    /\ cap = [c \in Calls |-> 0]
    /\ tries = [c \in Calls |-> 0]
    /\ over = [c \in Calls |-> FALSE]
    /\ slotFaults = 0
    /\ stray = [i \in Instances |-> 0]
    /\ unsound = [i \in Instances |-> FALSE]

\* The calls with a slot of i.  Without a limit there is none to take.
Holders(i) ==
    {c \in Calls : phase[c] \in {"check", "undo", "working"} /\ chosen[c] = i /\ cap[c] > 0}

SlotFault == slotFaults < MaxSlotFaults /\ slotFaults' = slotFaults + 1

Least(m, n) == IF m < n THEN m ELSE n
Less(i) == [slots EXCEPT ![i] = IF @ > 0 THEN @ - 1 ELSE 0]

End(c) ==
    /\ phase' = [phase EXCEPT ![c] = "idle"]
    /\ chosen' = [chosen EXCEPT ![c] = NoInstance]
    /\ cap' = [cap EXCEPT ![c] = 0]
    /\ tries' = [tries EXCEPT ![c] = 0]
    /\ over' = [over EXCEPT ![c] = FALSE]

\* The next try, or the attempt without an instance.
TryAgain(c) ==
    /\ phase' = [phase EXCEPT ![c] = IF tries[c] < Tries THEN "choose" ELSE "working"]
    /\ chosen' = [chosen EXCEPT ![c] = NoInstance]
    /\ cap' = [cap EXCEPT ![c] = 0]
    /\ UNCHANGED <<tries, over>>

Advance(c, p) ==
    /\ phase' = [phase EXCEPT ![c] = p]
    /\ UNCHANGED <<chosen, cap, tries, over>>

-----------------------------------------------------------------------------
(* Slips: what some definitions would be with a mistake in the code.  They  *)
(* are part of no specification; each shows that a property would notice it. *)

\* A refused call returns and keeps its slot.
UndoForgotten(c) ==
    /\ phase[c] = "undo"
    /\ TryAgain(c)
    /\ UNCHANGED <<limit, slots, fresh, slotFaults, stray, unsound>>

\* The counter has no time limit.
SlotsStay(i) ==
    /\ FALSE
    /\ UNCHANGED slotVars

-----------------------------------------------------------------------------
\* attachSelectedInstance begins; the context may have ended before.
Begin(c) ==
    /\ phase[c] = "idle"
    /\ phase' = [phase EXCEPT ![c] = "choose"]
    /\ UNCHANGED <<limit, slots, fresh, chosen, cap, tries, over, slotFaults, stray, unsound>>

\* One round of SelectInstanceWithRetry: choose, and read the row again.  A
\* context that has ended fails the read; without a limit no slot is taken.
Choose(c) ==
    /\ phase[c] = "choose"
    /\ tries' = [tries EXCEPT ![c] = IF @ < Tries THEN @ + 1 ELSE @]
    /\ \/ /\ ~over[c] /\ tries[c] < Tries
          /\ \E i \in Instances :
                /\ chosen' = [chosen EXCEPT ![c] = i]
                /\ cap' = [cap EXCEPT ![c] = limit[i]]
                /\ phase' = [phase EXCEPT ![c] = IF limit[i] = 0 THEN "check" ELSE "acquire"]
       \/ /\ over[c] \/ tries[c] = Tries
          /\ phase' = [phase EXCEPT ![c] = "working"]
          /\ UNCHANGED <<chosen, cap>>
    /\ UNCHANGED <<limit, slots, fresh, over, slotFaults, stray, unsound>>

\* AcquireInstanceSlot: test, increment and set the expiry in one script.
Acquire(c) ==
    /\ phase[c] = "acquire"
    /\ LET i == chosen[c] IN
        \/ /\ slots[i] < cap[c] /\ ~over[c]
           /\ slots' = [slots EXCEPT ![i] = @ + 1]
           /\ fresh' = [fresh EXCEPT ![i] = TRUE]
           /\ Advance(c, "check")
        \/ /\ slots[i] >= cap[c] \/ over[c]
           /\ TryAgain(c)
           /\ UNCHANGED <<slots, fresh>>
    /\ UNCHANGED <<limit, slotFaults, stray, unsound>>

\* The script has run, its reply is lost (the context ends, Redis fails): the
\* caller takes it for an error.
AcquireUnheard(c) ==
    /\ phase[c] = "acquire"
    /\ SlotFault
    /\ LET i == chosen[c] IN
        /\ slots[i] < cap[c] /\ ~over[c]
        /\ slots' = [slots EXCEPT ![i] = @ + 1]
        /\ fresh' = [fresh EXCEPT ![i] = TRUE]
        /\ stray' = [stray EXCEPT ![i] = @ + 1]
    /\ TryAgain(c)
    /\ UNCHANGED <<limit, unsound>>

\* The instance's rate limits let the call through, or it has to go back.
CheckRate(c) ==
    /\ phase[c] = "check"
    /\ \E allowed \in BOOLEAN : Advance(c, IF allowed THEN "working" ELSE "undo")
    /\ UNCHANGED <<limit, slots, fresh, slotFaults, stray, unsound>>

\* ReleaseInstanceSlot decrements for whoever asks, and not below zero.
ReleaseSlot(c) ==
    LET i == chosen[c] IN
    /\ slots' = Less(i)
    /\ stray' = [stray EXCEPT ![i] = Least(@, slots'[i])]
    /\ unsound' = [unsound EXCEPT ![i] = @ \/ (cap[c] = 0 /\ slots[i] > 0)]

\* The slot is not given back; whether there was one is in cap.
KeepSlot(c) ==
    LET i == chosen[c] IN
    stray' = [stray EXCEPT ![i] = IF cap[c] > 0 THEN Least(@ + 1, slots[i]) ELSE @]

\* releaseSlotIfNeeded uses the attempt's context: once that has ended nothing
\* is released.
Undo(c) ==
    /\ phase[c] = "undo"
    /\ IF over[c]
       THEN KeepSlot(c) /\ UNCHANGED <<slots, unsound>>
       ELSE ReleaseSlot(c)
    /\ TryAgain(c)
    /\ UNCHANGED <<limit, fresh, slotFaults>>

\* The attempt's context ends and the goroutine that waits for it releases the
\* slot, with a context of its own.
Release(c) ==
    /\ phase[c] = "working"
    /\ IF chosen[c] = NoInstance
       THEN UNCHANGED <<slots, stray, unsound>>
       ELSE ReleaseSlot(c)
    /\ End(c)
    /\ UNCHANGED <<limit, fresh, slotFaults>>

\* A release fails, or the process dies with everything it was about.
Forget(c) ==
    /\ phase[c] # "idle"
    /\ SlotFault
    /\ IF phase[c] \in {"check", "undo", "working"} /\ chosen[c] # NoInstance
       THEN KeepSlot(c)
       ELSE UNCHANGED stray
    /\ End(c)
    /\ UNCHANGED <<limit, slots, fresh, unsound>>

\* The client leaves or the attempt times out during the choice.
ContextEnds(c) ==
    /\ phase[c] \in {"choose", "acquire", "check", "undo"}
    /\ ~over[c]
    /\ over' = [over EXCEPT ![c] = TRUE]
    /\ UNCHANGED <<limit, slots, fresh, phase, chosen, cap, tries, slotFaults, stray, unsound>>

ChangeLimit(i) ==
    /\ limit' \in {[limit EXCEPT ![i] = n] : n \in Limits \ {limit[i]}}
    /\ UNCHANGED <<slots, fresh, slotLocals, slotFaults, stray, unsound>>

SlotsAge(i) ==
    /\ fresh[i]
    /\ fresh' = [fresh EXCEPT ![i] = FALSE]
    /\ UNCHANGED <<limit, slots, slotLocals, slotFaults, stray, unsound>>

\* Redis drops the counter, whoever still holds a slot.
SlotsExpire(i) ==
    /\ slots[i] > 0 /\ ~fresh[i]
    /\ slots' = [slots EXCEPT ![i] = 0]
    /\ stray' = [stray EXCEPT ![i] = 0]
    /\ unsound' = [unsound EXCEPT ![i] = @ \/ Holders(i) # {}]
    /\ UNCHANGED <<limit, fresh, slotLocals, slotFaults>>

CallStep(c) ==
    Choose(c) \/ Acquire(c) \/ CheckRate(c) \/ Undo(c) \/ Release(c)

SlotNext ==
    \/ \E c \in Calls :
        Begin(c) \/ CallStep(c) \/ AcquireUnheard(c) \/ ContextEnds(c) \/ Forget(c)
    \/ \E i \in Instances : ChangeLimit(i) \/ SlotsAge(i) \/ SlotsExpire(i)

SlotSpec == SlotInit /\ [][SlotNext]_slotVars

SlotFairness ==
    /\ \A c \in Calls : WF_slotVars(CallStep(c))
    /\ \A i \in Instances : WF_slotVars(SlotsAge(i)) /\ WF_slotVars(SlotsExpire(i))

-----------------------------------------------------------------------------
(* Properties.                                                               *)

\* The counter is the number of calls that hold a slot, plus the slots that
\* were taken and will not come back, and no more than a limit the instance has
\* had, as long as it did not expire under a call and no call released a slot
\* it had not taken (AcquireInstanceSlot takes none without a limit, the
\* release does not know that).
SlotsAccounted ==
    \A i \in Instances : unsound[i] \/
        /\ slots[i] = Cardinality(Holders(i)) + stray[i]
        /\ \E n \in Limits : slots[i] <= n

\* An instance whose slots are all left behind, with no call to hold one,
\* serves again some time.
FullRecovers ==
    \A i \in Instances :
        (slots[i] >= limit[i] /\ limit[i] > 0 /\ Holders(i) = {})
            ~> (slots[i] < limit[i] \/ limit[i] = 0 \/ Holders(i) # {})
=============================================================================
