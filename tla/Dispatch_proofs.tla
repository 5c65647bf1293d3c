-------------------------- MODULE Dispatch_proofs ---------------------------
(***************************************************************************)
(* What a call is dispatched to: what InstanceSlots guarantees of the      *)
(* slots of instances, for any finite number of calls, any instances and   *)
(* limits, and any number of lost replies and deaths; AccountPool of the   *)
(* accounts, for any threads, pools and edits, and any finite number of    *)
(* accounts; ProviderChoice of the rows of the sources, the order in which *)
(* a dispatch tries them and the sources of the sessions, for any          *)
(* dispatches, administrators and finite number of sources.                *)
(***************************************************************************)
EXTENDS InstanceSlots, AccountPool, ProviderChoice, FiniteSetTheorems, WellFoundedInduction, TLAPS

-----------------------------------------------------------------------------
(* Instance slots.                                                          *)

USE DEF slotLocals

LocalsOK ==
    /\ phase \in [Calls -> Phases]
    /\ chosen \in [Calls -> Instances \union {NoInstance}]
    /\ \A c \in Calls :
        phase[c] \in {"acquire", "check", "undo"} => chosen[c] \in Instances
    /\ cap \in [Calls -> Limits \union {0}]
    /\ tries \in [Calls -> 0 .. Tries]
    /\ over \in [Calls -> BOOLEAN]

CountsOK ==
    /\ limit \in [Instances -> Limits]
    /\ slots \in [Instances -> Nat]
    /\ fresh \in [Instances -> BOOLEAN]
    /\ slotFaults \in Nat
    /\ stray \in [Instances -> Nat]
    /\ unsound \in [Instances -> BOOLEAN]

LEMMA Parts == SlotTypeOK <=> LocalsOK /\ CountsOK
BY DEF SlotTypeOK, LocalsOK, CountsOK

LEMMA EndType ==
    ASSUME LocalsOK, NEW c \in Calls, End(c)
    PROVE  LocalsOK'
<1>1. 0 \in 0 .. Tries
  BY SlotAssumption
<1> QED
  BY <1>1 DEF LocalsOK, End, Phases

LEMMA TryAgainType ==
    ASSUME LocalsOK, NEW c \in Calls, TryAgain(c)
    PROVE  LocalsOK'
BY DEF LocalsOK, TryAgain, Phases

LEMMA AdvanceType ==
    ASSUME LocalsOK, NEW c \in Calls, NEW p \in Phases, Advance(c, p),
           chosen[c] \in Instances
    PROVE  LocalsOK'
BY DEF LocalsOK, Advance

LEMMA ReleaseType ==
    ASSUME CountsOK, NEW c \in Calls, chosen[c] \in Instances, ReleaseSlot(c)
    PROVE  /\ slots' \in [Instances -> Nat]
           /\ stray' \in [Instances -> Nat]
           /\ unsound' \in [Instances -> BOOLEAN]
<1>1. slots' \in [Instances -> Nat]
  BY DEF CountsOK, ReleaseSlot, Less
<1>2. stray' \in [Instances -> Nat]
  BY <1>1 DEF CountsOK, ReleaseSlot, Least
<1>3. unsound' \in [Instances -> BOOLEAN]
  BY DEF CountsOK, ReleaseSlot
<1> QED
  BY <1>1, <1>2, <1>3

LEMMA KeepType ==
    ASSUME CountsOK, NEW c \in Calls, chosen[c] \in Instances, KeepSlot(c)
    PROVE  stray' \in [Instances -> Nat]
BY DEF CountsOK, KeepSlot, Least

\* The type invariant of the counters and of the calls.
THEOREM TypeInvariant == SlotSpec => []SlotTypeOK
<1>1. SlotInit => SlotTypeOK
  <2>1. SlotInit => LocalsOK
    BY SlotAssumption DEF SlotInit, LocalsOK, Phases
  <2>2. SlotInit => CountsOK
    BY DEF SlotInit, CountsOK
  <2> QED
    BY <2>1, <2>2, Parts
<1>2. SlotTypeOK /\ [SlotNext]_slotVars => SlotTypeOK'
  <2> SUFFICES ASSUME LocalsOK, CountsOK, [SlotNext]_slotVars
               PROVE  LocalsOK' /\ CountsOK'
    BY Parts DEF SlotTypeOK, LocalsOK, CountsOK
  <2>1. ASSUME NEW c \in Calls, Begin(c)
        PROVE  LocalsOK' /\ CountsOK'
    BY <2>1 DEF Begin, LocalsOK, CountsOK, Phases
  <2>2. ASSUME NEW c \in Calls, Choose(c)
        PROVE  LocalsOK' /\ CountsOK'
    <3>1. tries' \in [Calls -> 0 .. Tries]
      BY <2>2, SlotAssumption DEF Choose, LocalsOK
    <3>2. cap' \in [Calls -> Limits \union {0}]
      BY <2>2 DEF Choose, LocalsOK, CountsOK
    <3>3. phase' \in [Calls -> Phases] /\ chosen' \in [Calls -> Instances \union {NoInstance}]
      BY <2>2 DEF Choose, LocalsOK, Phases
    <3>4. ASSUME NEW d \in Calls, phase'[d] \in {"acquire", "check", "undo"}
          PROVE  chosen'[d] \in Instances
      BY <2>2, <3>4 DEF Choose, LocalsOK
    <3> QED
      BY <2>2, <3>1, <3>2, <3>3, <3>4 DEF Choose, LocalsOK, CountsOK
  <2>3. ASSUME NEW c \in Calls, Acquire(c) \/ AcquireUnheard(c)
        PROVE  LocalsOK' /\ CountsOK'
    <3>1. chosen[c] \in Instances
      BY <2>3 DEF Acquire, AcquireUnheard, LocalsOK
    <3>2. LocalsOK'
      BY <2>3, <3>1, AdvanceType, TryAgainType DEF Acquire, AcquireUnheard, Phases
    <3>3. slots' \in [Instances -> Nat] /\ stray' \in [Instances -> Nat]
      BY <2>3, <3>1 DEF Acquire, AcquireUnheard, CountsOK
    <3>4. fresh' \in [Instances -> BOOLEAN]
      BY <2>3, <3>1 DEF Acquire, AcquireUnheard, CountsOK
    <3>5. slotFaults' \in Nat /\ limit' = limit /\ unsound' = unsound
      BY <2>3 DEF Acquire, AcquireUnheard, SlotFault, CountsOK
    <3>6. CountsOK'
      BY <3>3, <3>4, <3>5 DEF CountsOK
    <3> QED
      BY <3>2, <3>6
  <2>4. ASSUME NEW c \in Calls, CheckRate(c)
        PROVE  LocalsOK' /\ CountsOK'
    <3>1. chosen[c] \in Instances
      BY <2>4 DEF CheckRate, LocalsOK
    <3> QED
      BY <2>4, <3>1, AdvanceType DEF CheckRate, CountsOK, Phases
  <2>5. ASSUME NEW c \in Calls, Undo(c)
        PROVE  LocalsOK' /\ CountsOK'
    <3>1. chosen[c] \in Instances
      BY <2>5 DEF Undo, LocalsOK
    <3>2. LocalsOK'
      BY <2>5, TryAgainType DEF Undo
    <3>3. CASE ReleaseSlot(c)
      BY <2>5, <3>1, <3>2, <3>3, ReleaseType DEF Undo, CountsOK
    <3>4. CASE KeepSlot(c) /\ UNCHANGED <<slots, unsound>>
      BY <2>5, <3>1, <3>2, <3>4, KeepType DEF Undo, CountsOK
    <3> QED
      BY <2>5, <3>3, <3>4 DEF Undo
  <2>6. ASSUME NEW c \in Calls, Release(c)
        PROVE  LocalsOK' /\ CountsOK'
    <3>1. LocalsOK'
      BY <2>6, EndType DEF Release
    <3>2. CASE chosen[c] = NoInstance
      BY <2>6, <3>1, <3>2 DEF Release, CountsOK
    <3>3. CASE chosen[c] # NoInstance
      <4>1. chosen[c] \in Instances
        BY <3>3 DEF LocalsOK
      <4> QED
        BY <2>6, <3>1, <3>3, <4>1, ReleaseType DEF Release, CountsOK
    <3> QED
      BY <3>2, <3>3
  <2>7. ASSUME NEW c \in Calls, Forget(c)
        PROVE  LocalsOK' /\ CountsOK'
    <3>1. LocalsOK'
      BY <2>7, EndType DEF Forget
    <3>2. stray' \in [Instances -> Nat]
      <4>1. chosen[c] # NoInstance => chosen[c] \in Instances
        BY DEF LocalsOK
      <4> QED
        BY <2>7, <4>1, KeepType DEF Forget, CountsOK
    <3> QED
      BY <2>7, <3>1, <3>2 DEF Forget, SlotFault, CountsOK
  <2>8. ASSUME NEW c \in Calls, ContextEnds(c)
        PROVE  LocalsOK' /\ CountsOK'
    BY <2>8 DEF ContextEnds, LocalsOK, CountsOK
  <2>9. ASSUME NEW i \in Instances, ChangeLimit(i) \/ SlotsAge(i) \/ SlotsExpire(i)
        PROVE  LocalsOK' /\ CountsOK'
    <3>1. LocalsOK'
      BY <2>9 DEF ChangeLimit, SlotsAge, SlotsExpire, LocalsOK
    <3>2. CASE ChangeLimit(i) \/ SlotsAge(i)
      BY <3>1, <3>2 DEF ChangeLimit, SlotsAge, CountsOK
    <3>3. CASE SlotsExpire(i)
      <4>1. unsound' \in [Instances -> BOOLEAN]
        BY <3>3 DEF SlotsExpire, CountsOK
      <4> QED
        BY <3>1, <3>3, <4>1 DEF SlotsExpire, CountsOK
    <3> QED
      BY <2>9, <3>2, <3>3
  <2>10. CASE UNCHANGED slotVars
    BY <2>10 DEF slotVars, LocalsOK, CountsOK
  <2> QED
    BY <2>1, <2>2, <2>3, <2>4, <2>5, <2>6, <2>7, <2>8, <2>9, <2>10 DEF SlotNext, CallStep
<1> QED
  BY <1>1, <1>2, PTL DEF SlotSpec

(***************************************************************************)
(* The slot counter.                                                       *)
(***************************************************************************)

\* A call that has yet to choose is about no instance; no counter is above
\* every limit; and the counter is exact where nothing unsound has happened.
IUnbound ==
    \A c \in Calls : phase[c] \in {"idle", "choose"} => chosen[c] = NoInstance
ILimits ==
    \A i \in Instances : \E n \in Limits : slots[i] <= n
IExact ==
    \A i \in Instances : unsound[i] \/ slots[i] = Cardinality(Holders(i)) + stray[i]

ISlots == IUnbound /\ ILimits /\ IExact

\* Every other call stays as it is.
OtherCalls(c) ==
    \A d \in Calls \ {c} : phase'[d] = phase[d] /\ chosen'[d] = chosen[d] /\ cap'[d] = cap[d]

LEMMA HoldersFinite ==
    ASSUME NEW i \in Instances
    PROVE  IsFiniteSet(Holders(i)) /\ Cardinality(Holders(i)) \in Nat
BY FS_Subset, FS_CardinalityType, SlotAssumption DEF Holders

LEMMA HoldersOthers ==
    ASSUME NEW c \in Calls, OtherCalls(c), NEW i \in Instances
    PROVE  Holders(i)' \ {c} = Holders(i) \ {c}
BY DEF OtherCalls, Holders

\* A call without an instance holds nothing.
LEMMA HoldersLeave ==
    ASSUME NEW c \in Calls, OtherCalls(c), chosen'[c] = NoInstance, NEW i \in Instances
    PROVE  /\ c \in Holders(i) => Cardinality(Holders(i)') = Cardinality(Holders(i)) - 1
           /\ c \notin Holders(i) => Holders(i)' = Holders(i)
<1>1. c \notin Holders(i)'
  BY SlotAssumption DEF Holders
<1>2. Holders(i)' = Holders(i) \ {c}
  BY <1>1, HoldersOthers
<1>3. CASE c \in Holders(i)
  BY <1>2, <1>3, HoldersFinite, FS_RemoveElement
<1>4. CASE c \notin Holders(i)
  BY <1>2, <1>4
<1> QED
  BY <1>3, <1>4

LEMMA LeavingMoves ==
    ASSUME LocalsOK, NEW c \in Calls, End(c) \/ TryAgain(c)
    PROVE  OtherCalls(c) /\ chosen'[c] = NoInstance
BY DEF LocalsOK, End, TryAgain, OtherCalls

LEMMA LeavingUnbound ==
    ASSUME LocalsOK, IUnbound, NEW c \in Calls, OtherCalls(c), chosen'[c] = NoInstance
    PROVE  IUnbound'
BY DEF IUnbound, OtherCalls

\* A call that holds a slot, or has none to give back, releases once and leaves.
LEMMA ReleaseExact ==
    ASSUME LocalsOK, CountsOK, IExact, NEW c \in Calls, OtherCalls(c), chosen'[c] = NoInstance,
           phase[c] \in {"undo", "working"}, chosen[c] \in Instances, ReleaseSlot(c)
    PROVE  IExact' /\ \A i \in Instances : slots'[i] <= slots[i]
<1>1. ASSUME NEW i \in Instances, i # chosen[c]
      PROVE  slots'[i] = slots[i] /\ stray'[i] = stray[i] /\ unsound'[i] = unsound[i]
             /\ Holders(i)' = Holders(i)
  <2>1. c \notin Holders(i)
    BY <1>1 DEF Holders
  <2> QED
    BY <1>1, <2>1, HoldersLeave DEF ReleaseSlot, Less, CountsOK
<1> DEFINE s == slots[chosen[c]]
           t == stray[chosen[c]]
           h == Cardinality(Holders(chosen[c]))
<1>2. s \in Nat /\ t \in Nat /\ h \in Nat
  BY HoldersFinite DEF CountsOK
<1>3. /\ slots'[chosen[c]] = IF s > 0 THEN s - 1 ELSE 0
      /\ stray'[chosen[c]] = Least(t, slots'[chosen[c]])
  BY DEF ReleaseSlot, Less, CountsOK
<1>4. unsound'[chosen[c]] = (unsound[chosen[c]] \/ (cap[c] = 0 /\ s > 0))
  BY DEF ReleaseSlot, CountsOK
<1>5. PICK i \in Instances : i = chosen[c]
  OBVIOUS
<1>6. CASE unsound'[i]
  BY <1>1, <1>2, <1>3, <1>5, <1>6 DEF IExact, CountsOK
<1>7. CASE ~unsound'[i]
  <2>0. ~unsound[i] /\ ~(cap[c] = 0 /\ s > 0)
    BY <1>4, <1>5, <1>7
  <2>1. ~unsound[i] /\ (cap[c] = 0 => s = 0)
    BY <1>2, <2>0
  <2>2. s = h + t
    BY <1>5, <2>1 DEF IExact
  <2>3. CASE cap[c] = 0
    <3>1. c \notin Holders(i)
      BY <2>3 DEF Holders
    <3>2. Holders(i)' = Holders(i)
      BY <3>1, HoldersLeave
    <3>3. slots'[i] = 0 /\ stray'[i] = 0 /\ s = 0 /\ h = 0
      BY <1>2, <1>3, <1>5, <2>1, <2>2, <2>3 DEF Least
    <3>4. slots'[i] = Cardinality(Holders(i)') + stray'[i] /\ slots'[i] <= slots[i]
      BY <1>5, <3>2, <3>3
    <3> QED
      BY <1>1, <1>5, <3>4 DEF IExact, CountsOK
  <2>4. CASE cap[c] # 0
    <3>1. c \in Holders(i)
      BY <1>5, <2>4, SlotAssumption DEF Holders, LocalsOK
    <3>2. Cardinality(Holders(i)') = h - 1
      BY <1>5, <3>1, HoldersLeave
    <3>3. h # 0
      BY <1>5, <3>1, HoldersFinite, FS_EmptySet
    <3>4. slots'[i] = s - 1 /\ stray'[i] = t
      BY <1>2, <1>3, <1>5, <2>2, <3>3 DEF Least
    <3>5. slots'[i] = Cardinality(Holders(i)') + stray'[i] /\ slots'[i] <= slots[i]
      BY <1>2, <1>5, <2>2, <3>2, <3>3, <3>4
    <3> QED
      BY <1>1, <1>5, <3>5 DEF IExact, CountsOK
  <2> QED
    BY <2>3, <2>4
<1> QED
  BY <1>6, <1>7

\* A call that keeps what it holds leaves it stray.
LEMMA KeepExact ==
    ASSUME LocalsOK, CountsOK, IExact, NEW c \in Calls, OtherCalls(c), chosen'[c] = NoInstance,
           phase[c] \in {"check", "undo", "working"}, chosen[c] \in Instances, KeepSlot(c),
           slots' = slots, unsound' = unsound
    PROVE  IExact'
<1> SUFFICES ASSUME NEW i \in Instances, ~unsound[i]
             PROVE  slots[i] = Cardinality(Holders(i)') + stray'[i]
  BY DEF IExact
<1>1. slots[i] = Cardinality(Holders(i)) + stray[i]
  BY DEF IExact
<1>2. Cardinality(Holders(i)) \in Nat /\ stray[i] \in Nat /\ slots[i] \in Nat
  BY HoldersFinite DEF CountsOK
<1>3. CASE i = chosen[c] /\ cap[c] > 0
  <2>1. c \in Holders(i)
    BY <1>3 DEF Holders
  <2>2. Cardinality(Holders(i)') = Cardinality(Holders(i)) - 1
    BY <2>1, HoldersLeave
  <2>3. Cardinality(Holders(i)) # 0
    BY <2>1, HoldersFinite, FS_EmptySet
  <2>4. stray'[i] = Least(stray[i] + 1, slots[i])
    BY <1>3 DEF KeepSlot, CountsOK
  <2> QED
    BY <1>1, <1>2, <2>2, <2>3, <2>4 DEF Least
<1>4. CASE ~(i = chosen[c] /\ cap[c] > 0)
  <2>1. c \notin Holders(i)
    BY <1>4 DEF Holders
  <2>2. stray'[i] = stray[i]
    BY <1>4 DEF KeepSlot, CountsOK
  <2> QED
    BY <1>1, <2>1, <2>2, HoldersLeave
<1> QED
  BY <1>3, <1>4

\* Nothing but the calls' whereabouts changes, and who holds what does not.
LEMMA SameExact ==
    ASSUME IExact, UNCHANGED <<slots, stray, unsound>>,
           \A i \in Instances : Holders(i)' = Holders(i)
    PROVE  IExact'
BY DEF IExact

LEMMA LowerLimits ==
    ASSUME CountsOK, CountsOK', ILimits, \A i \in Instances : slots'[i] <= slots[i]
    PROVE  ILimits'
<1> SUFFICES ASSUME NEW i \in Instances
             PROVE  \E n \in Limits : slots'[i] <= n
  BY DEF ILimits
<1>1. PICK n \in Limits : slots[i] <= n
  BY DEF ILimits
<1>2. slots'[i] <= slots[i] /\ slots'[i] \in Nat /\ slots[i] \in Nat /\ n \in Nat
  BY SlotAssumption DEF CountsOK
<1> QED
  BY <1>1, <1>2

\* The counter is exact, and below a limit, until it expires under a call or a
\* call releases what it has not taken.
THEOREM SlotsAreAccounted == SlotSpec => []SlotsAccounted
<1>1. SlotInit => ISlots
  <2> SUFFICES ASSUME SlotInit
               PROVE  IUnbound /\ ILimits /\ IExact
    BY DEF ISlots
  <2>1. IUnbound
    BY DEF SlotInit, IUnbound
  <2>2. ILimits
    <3>1. \A i \in Instances : limit[i] \in Limits /\ limit[i] \in Nat /\ slots[i] = 0
      BY SlotAssumption DEF SlotInit
    <3>2. \A i \in Instances : slots[i] <= limit[i]
      BY <3>1
    <3> QED
      BY <3>1, <3>2 DEF ILimits
  <2>3. \A i \in Instances : Holders(i) = {}
    BY DEF SlotInit, Holders
  <2>4. IExact
    BY <2>3, FS_EmptySet DEF SlotInit, IExact
  <2> QED
    BY <2>1, <2>2, <2>4
<1>2. SlotTypeOK /\ SlotTypeOK' /\ ISlots /\ [SlotNext]_slotVars => ISlots'
  <2> SUFFICES ASSUME LocalsOK, CountsOK, CountsOK', IUnbound, ILimits, IExact,
                      [SlotNext]_slotVars
               PROVE  IUnbound' /\ ILimits' /\ IExact'
    BY Parts DEF ISlots, SlotTypeOK, CountsOK
  <2>0. ASSUME slots' = slots
        PROVE  ILimits'
    BY <2>0 DEF ILimits
  <2>1. ASSUME NEW c \in Calls, Begin(c)
        PROVE  IUnbound' /\ ILimits' /\ IExact'
    <3>1. OtherCalls(c) /\ chosen'[c] = NoInstance
      BY <2>1 DEF Begin, LocalsOK, OtherCalls, IUnbound
    <3>2. \A i \in Instances : c \notin Holders(i)
      BY <2>1 DEF Begin, Holders
    <3>3. UNCHANGED <<slots, stray, unsound>>
      BY <2>1 DEF Begin
    <3> QED
      BY <2>0, <3>1, <3>2, <3>3, LeavingUnbound, HoldersLeave, SameExact
  <2>2. ASSUME NEW c \in Calls, Choose(c)
        PROVE  IUnbound' /\ ILimits' /\ IExact'
    <3>1. OtherCalls(c) /\ UNCHANGED <<slots, stray, unsound>>
      BY <2>2 DEF Choose, LocalsOK, OtherCalls
    <3>2. chosen[c] = NoInstance /\ \A i \in Instances : c \notin Holders(i)
      BY <2>2 DEF Choose, IUnbound, Holders
    <3>3. CASE chosen'[c] = NoInstance
      BY <2>0, <3>1, <3>2, <3>3, LeavingUnbound, HoldersLeave, SameExact
    <3>4. CASE chosen'[c] # NoInstance
      <4>1. PICK i \in Instances :
              /\ cap' = [cap EXCEPT ![c] = limit[i]]
              /\ phase' = [phase EXCEPT ![c] = IF limit[i] = 0 THEN "check" ELSE "acquire"]
        BY <2>2, <3>2, <3>4 DEF Choose
      <4>2. phase'[c] = "acquire" \/ (phase'[c] = "check" /\ cap'[c] = 0)
        BY <4>1 DEF LocalsOK
      <4>3. \A j \in Instances : c \notin Holders(j)'
        BY <4>2 DEF Holders
      <4>4. \A j \in Instances : Holders(j)' = Holders(j)
        BY <3>1, <3>2, <4>3, HoldersOthers
      <4>5. IUnbound'
        BY <3>1, <4>2 DEF IUnbound, OtherCalls
      <4> QED
        BY <2>0, <3>1, <4>4, <4>5, SameExact
    <3> QED
      BY <3>3, <3>4
  <2>3. ASSUME NEW c \in Calls, phase[c] = "acquire", End(c) \/ TryAgain(c),
               UNCHANGED <<slots, stray, unsound>>
        PROVE  IUnbound' /\ ILimits' /\ IExact'
    <3>1. \A i \in Instances : c \notin Holders(i)
      BY <2>3 DEF Holders
    <3> QED
      BY <2>0, <2>3, <3>1, LeavingMoves, LeavingUnbound, HoldersLeave, SameExact
  <2>4. ASSUME NEW c \in Calls, Acquire(c) \/ AcquireUnheard(c)
        PROVE  IUnbound' /\ ILimits' /\ IExact'
    <3>1. chosen[c] \in Instances /\ phase[c] = "acquire"
      BY <2>4 DEF Acquire, AcquireUnheard, LocalsOK
    <3>2. PICK i \in Instances : i = chosen[c]
      BY <3>1
    <3>3. CASE TryAgain(c) /\ UNCHANGED slots /\ Acquire(c)
      <4>1. UNCHANGED <<slots, stray, unsound>>
        BY <3>3 DEF Acquire
      <4> QED
        BY <2>3, <3>1, <3>3, <4>1
    <3>4. CASE slots[i] < cap[c] /\ slots' = [slots EXCEPT ![i] = @ + 1]
      <4>0. slots[i] \in Nat /\ (cap[c] \in Limits \/ cap[c] = 0) /\ Limits \subseteq Nat
        BY SlotAssumption DEF CountsOK, LocalsOK
      <4>1. slots[i] \in Nat /\ cap[c] \in Limits /\ cap[c] \in Nat
        <5>1. cap[c] # 0
          BY <3>4, <4>0
        <5> QED
          BY <4>0, <5>1
      <4>2. ILimits'
        <5>0. slots'[i] = slots[i] + 1
          BY <3>4 DEF CountsOK
        <5>1. slots'[i] <= cap[c]
          BY <3>4, <4>1, <5>0
        <5>2. \A j \in Instances : j # i => slots'[j] = slots[j]
          BY <3>4 DEF CountsOK
        <5> QED
          BY <4>1, <5>1, <5>2 DEF ILimits
      <4>3. CASE Acquire(c) /\ Advance(c, "check")
        <5>1. OtherCalls(c) /\ phase'[c] = "check" /\ chosen'[c] = i /\ cap'[c] = cap[c]
          BY <3>2, <4>3 DEF Advance, OtherCalls, LocalsOK
        <5>2. IUnbound'
          BY <5>1 DEF OtherCalls, IUnbound
        <5>3. Holders(i)' = Holders(i) \union {c} /\ c \notin Holders(i)
          BY <3>1, <3>4, <4>1, <5>1, HoldersOthers, SlotAssumption DEF Holders
        <5>4. \A j \in Instances : j # i => Holders(j)' = Holders(j)
          BY <3>1, <5>1, HoldersOthers DEF Holders
        <5>5. Cardinality(Holders(i)') = Cardinality(Holders(i)) + 1
          BY <5>3, HoldersFinite, FS_AddElement
        <5>6. UNCHANGED <<stray, unsound>>
          BY <4>3 DEF Acquire
        <5>7. slots'[i] = slots[i] + 1 /\ \A j \in Instances : j # i => slots'[j] = slots[j]
          BY <3>4 DEF CountsOK
        <5>8. Cardinality(Holders(i)) \in Nat /\ stray[i] \in Nat
          BY HoldersFinite DEF CountsOK
        <5>9. ASSUME NEW j \in Instances, ~unsound[j]
              PROVE  slots'[j] = Cardinality(Holders(j)') + stray[j]
          <6>1. slots[j] = Cardinality(Holders(j)) + stray[j]
            BY <5>9 DEF IExact
          <6>2. CASE j = i
            BY <4>1, <5>5, <5>7, <5>8, <6>1, <6>2
          <6>3. CASE j # i
            BY <5>4, <5>7, <6>1, <6>3
          <6> QED
            BY <6>2, <6>3
        <5> QED
          BY <4>2, <5>2, <5>6, <5>9 DEF IExact
      <4>4. CASE AcquireUnheard(c)
        <5>1. OtherCalls(c) /\ chosen'[c] = NoInstance
          BY <4>4, LeavingMoves DEF AcquireUnheard
        <5>2. \A j \in Instances : Holders(j)' = Holders(j)
          <6>1. \A j \in Instances : c \notin Holders(j)
            BY <3>1 DEF Holders
          <6> QED
            BY <5>1, <6>1, HoldersLeave
        <5>3. stray' = [stray EXCEPT ![i] = @ + 1] /\ unsound' = unsound
          BY <3>2, <4>4 DEF AcquireUnheard
        <5>4. ASSUME NEW j \in Instances, ~unsound[j]
              PROVE  slots'[j] = Cardinality(Holders(j)') + stray'[j]
          <6>1. slots[j] = Cardinality(Holders(j)) + stray[j]
            BY <5>4 DEF IExact
          <6>2. Cardinality(Holders(j)) \in Nat /\ stray[j] \in Nat
            BY HoldersFinite DEF CountsOK
          <6>3. /\ slots'[j] = IF j = i THEN slots[j] + 1 ELSE slots[j]
                /\ stray'[j] = IF j = i THEN stray[j] + 1 ELSE stray[j]
            BY <3>4, <5>3 DEF CountsOK
          <6>4. Holders(j)' = Holders(j)
            BY <5>2
          <6> QED
            BY <6>1, <6>2, <6>3, <6>4
        <5> QED
          BY <4>2, <5>1, <5>3, <5>4, LeavingUnbound DEF IExact
      <4> QED
        <5>1. ~(slots[i] = slots[i] + 1)
          BY <4>1
        <5>2. slots'[i] # slots[i]
          BY <3>4, <5>1 DEF CountsOK
        <5> QED
          BY <2>4, <3>2, <4>3, <4>4, <5>2 DEF Acquire
    <3> QED
      BY <2>4, <3>2, <3>3, <3>4 DEF Acquire, AcquireUnheard
  <2>5. ASSUME NEW c \in Calls, CheckRate(c)
        PROVE  IUnbound' /\ ILimits' /\ IExact'
    <3>1. \A i \in Instances : Holders(i)' = Holders(i)
      BY <2>5 DEF CheckRate, Advance, Holders, LocalsOK
    <3>2. IUnbound'
      BY <2>5 DEF CheckRate, Advance, IUnbound, LocalsOK
    <3>3. UNCHANGED <<slots, stray, unsound>>
      BY <2>5 DEF CheckRate
    <3> QED
      BY <2>0, <3>1, <3>2, <3>3, SameExact
  <2>6. ASSUME NEW c \in Calls, Undo(c)
        PROVE  IUnbound' /\ ILimits' /\ IExact'
    <3>1. OtherCalls(c) /\ chosen'[c] = NoInstance /\ chosen[c] \in Instances /\ phase[c] = "undo"
      BY <2>6, LeavingMoves DEF Undo, LocalsOK
    <3>2. CASE ReleaseSlot(c)
      BY <3>1, <3>2, ReleaseExact, LeavingUnbound, LowerLimits
    <3>3. CASE KeepSlot(c) /\ UNCHANGED <<slots, unsound>>
      BY <2>0, <3>1, <3>3, KeepExact, LeavingUnbound
    <3> QED
      BY <2>6, <3>2, <3>3 DEF Undo
  <2>7. ASSUME NEW c \in Calls, Release(c)
        PROVE  IUnbound' /\ ILimits' /\ IExact'
    <3>1. OtherCalls(c) /\ chosen'[c] = NoInstance /\ phase[c] = "working"
      BY <2>7, LeavingMoves DEF Release
    <3>2. CASE chosen[c] = NoInstance
      <4>1. \A i \in Instances : c \notin Holders(i)
        BY <3>2, SlotAssumption DEF Holders
      <4>2. UNCHANGED <<slots, stray, unsound>>
        BY <2>7, <3>2 DEF Release
      <4> QED
        BY <2>0, <3>1, <4>1, <4>2, LeavingUnbound, HoldersLeave, SameExact
    <3>3. CASE chosen[c] # NoInstance
      <4>1. chosen[c] \in Instances /\ ReleaseSlot(c)
        BY <2>7, <3>3 DEF Release, LocalsOK
      <4> QED
        BY <3>1, <4>1, ReleaseExact, LeavingUnbound, LowerLimits
    <3> QED
      BY <3>2, <3>3
  <2>8. ASSUME NEW c \in Calls, Forget(c)
        PROVE  IUnbound' /\ ILimits' /\ IExact'
    <3>1. OtherCalls(c) /\ chosen'[c] = NoInstance
      BY <2>8, LeavingMoves DEF Forget
    <3>2. slots' = slots /\ unsound' = unsound
      BY <2>8 DEF Forget
    <3>3. CASE phase[c] \in {"check", "undo", "working"} /\ chosen[c] # NoInstance
      <4>1. chosen[c] \in Instances /\ KeepSlot(c)
        BY <2>8, <3>3 DEF Forget, LocalsOK
      <4> QED
        BY <2>0, <3>1, <3>2, <3>3, <4>1, KeepExact, LeavingUnbound
    <3>4. CASE ~(phase[c] \in {"check", "undo", "working"} /\ chosen[c] # NoInstance)
      <4>1. \A i \in Instances : c \notin Holders(i)
        BY <3>4, SlotAssumption DEF Holders
      <4>2. stray' = stray
        BY <2>8, <3>4 DEF Forget
      <4> QED
        BY <2>0, <3>1, <3>2, <4>1, <4>2, LeavingUnbound, HoldersLeave, SameExact
    <3> QED
      BY <3>3, <3>4
  <2>9. ASSUME UNCHANGED <<phase, chosen, cap>>, UNCHANGED <<slots, stray, unsound>>
        PROVE  IUnbound' /\ ILimits' /\ IExact'
    BY <2>9 DEF IUnbound, ILimits, IExact, Holders
  <2>10. ASSUME NEW c \in Calls, ContextEnds(c)
         PROVE  IUnbound' /\ ILimits' /\ IExact'
    BY <2>9, <2>10 DEF ContextEnds
  <2>11. ASSUME NEW i \in Instances, ChangeLimit(i) \/ SlotsAge(i)
         PROVE  IUnbound' /\ ILimits' /\ IExact'
    BY <2>9, <2>11 DEF ChangeLimit, SlotsAge
  <2>12. ASSUME NEW i \in Instances, SlotsExpire(i)
         PROVE  IUnbound' /\ ILimits' /\ IExact'
    <3>1. UNCHANGED <<phase, chosen, cap>>
      BY <2>12 DEF SlotsExpire
    <3>2. IUnbound' /\ \A j \in Instances : Holders(j)' = Holders(j)
      BY <3>1 DEF IUnbound, Holders
    <3>3. \A j \in Instances : j # i => /\ slots'[j] = slots[j] /\ stray'[j] = stray[j]
                                        /\ unsound'[j] = unsound[j]
      BY <2>12 DEF SlotsExpire, CountsOK
    <3>4. slots'[i] = 0 /\ stray'[i] = 0
      BY <2>12 DEF SlotsExpire, CountsOK
    <3>5. unsound'[i] = (unsound[i] \/ Holders(i) # {})
      BY <2>12 DEF SlotsExpire, CountsOK
    <3>6. ILimits'
      BY <3>3, <3>4, LowerLimits DEF CountsOK
    <3>7. ~unsound'[i] => slots'[i] = Cardinality(Holders(i)') + stray'[i]
      <4>1. ~unsound'[i] => Holders(i)' = {}
        BY <3>2, <3>5
      <4> QED
        BY <3>4, <4>1, FS_EmptySet
    <3>8. \A j \in Instances : j # i => unsound'[j] \/
             slots'[j] = Cardinality(Holders(j)') + stray'[j]
      BY <3>2, <3>3 DEF IExact
    <3> QED
      BY <3>2, <3>6, <3>7, <3>8 DEF IExact
  <2>13. CASE UNCHANGED slotVars
    BY <2>9, <2>13 DEF slotVars
  <2> QED
    BY <2>1, <2>2, <2>4, <2>5, <2>6, <2>7, <2>8, <2>10, <2>11, <2>12, <2>13
    DEF SlotNext, CallStep
<1>3. ISlots => SlotsAccounted
  BY DEF ISlots, ILimits, IExact, SlotsAccounted
<1> QED
  BY <1>1, <1>2, <1>3, TypeInvariant, PTL DEF SlotSpec

-----------------------------------------------------------------------------
(* The account pool: the largest of some numbers.                           *)

\* Max finds the largest of numbers that have a bound.
LEMMA MaxOf ==
    ASSUME NEW S, S \subseteq Nat, S # {}, NEW n \in Nat, \A x \in S : x <= n
    PROVE  Max(S) \in S /\ \A y \in S : y <= Max(S)
<1> DEFINE B == {m \in Nat : \A y \in S : y <= m}
<1>1. B \subseteq Nat /\ B # {}
  BY n \in B
<1>2. PICK m \in B : \A k \in B : <<k, m>> \notin OpToRel(<, Nat)
  BY <1>1, NatLessThanWellFounded, WFMin
<1>3. OpToRel(<, Nat) = {ss \in Nat \X Nat : ss[1] < ss[2]}
  BY Zenon DEF OpToRel
<1>4. \A k \in B : ~(k < m)
  BY <1>1, <1>2, <1>3
<1>5. m \in S
  <2>1. CASE m = 0
    <3>1. PICK y \in S : TRUE
      OBVIOUS
    <3>2. y = m
      BY <1>1, <2>1
    <3> QED
      BY <3>1, <3>2
  <2>2. CASE m # 0
    <3>1. m - 1 \in Nat /\ m - 1 < m
      BY <1>1, <2>2
    <3>2. m - 1 \notin B
      BY <3>1, <1>4
    <3> QED
      BY <3>1, <3>2
  <2> QED
    BY <2>1, <2>2
<1> QED
  BY <1>1, <1>5 DEF Max

-----------------------------------------------------------------------------
(* The account pool: types.                                                 *)

TableOK ==
    /\ table \in [Accounts ->
            [session : Sessions \union {NoSession}, enabled : BOOLEAN, stamp : Nat]]
    /\ clock \in Nat /\ edits \in Nat
    /\ \A a \in Accounts : table[a].stamp <= clock

ObjectsOK ==
    /\ pool \in Pools \union {NoPool}
    /\ sig \in Signatures
    /\ manager \in Threads \union {Nobody}
    /\ members \in [Pools -> [Accounts -> Sessions \union {NoSession}]]
    /\ locks \in [Pools -> SUBSET Accounts]

ThreadsOK ==
    /\ doing \in [Threads -> Doings]
    /\ mine \in [Threads -> Pools \union {NoPool}]
    /\ noted \in [Threads -> Signatures]
    /\ todo \in [Threads -> SUBSET Accounts]
    /\ account \in [Threads -> Accounts \union {NoAccount}]
    /\ slipped \in [Threads -> BOOLEAN]
    /\ \A t \in Threads :
        doing[t] \in {"peek", "repeek", "acquire", "use"} => account[t] \in Accounts

HistoryOK ==
    /\ overlooked \in BOOLEAN /\ edited \in BOOLEAN /\ torn \in BOOLEAN

PoolTyped == TableOK /\ ObjectsOK /\ ThreadsOK /\ HistoryOK

LEMMA TypedIsTyped == PoolTyped => PoolTypeOK
BY DEF PoolTyped, TableOK, ObjectsOK, ThreadsOK, HistoryOK, PoolTypeOK

\* What the signature says of the rows.
LEMMA SignatureFacts ==
    ASSUME TableOK
    PROVE  /\ IsFiniteSet(Enabled)
           /\ Signature \in Signatures
           /\ Signature.count = Cardinality(Enabled)
           /\ Signature.newest <= clock
           /\ \A a \in Enabled : table[a].stamp <= Signature.newest
           /\ Enabled # {} => Signature # NoSignature
<1>1. IsFiniteSet(Enabled)
  BY PoolAssumption, FS_Subset DEF Enabled
<1>2. Cardinality(Enabled) \in Nat /\ (Enabled # {} => Cardinality(Enabled) # 0)
  BY <1>1, FS_CardinalityType, FS_EmptySet
<1>3. CASE Enabled = {}
  <2>1. Signature = [count |-> Cardinality(Enabled), newest |-> 0]
    BY <1>3 DEF Signature
  <2> QED
    BY <1>1, <1>2, <1>3, <2>1 DEF Signatures, TableOK
<1>4. CASE Enabled # {}
  <2> DEFINE S == {table[a].stamp : a \in Enabled}
  <2>1. Signature = [count |-> Cardinality(Enabled), newest |-> Max(S)]
    BY <1>4 DEF Signature
  <2>2. S \subseteq Nat /\ S # {} /\ \A x \in S : x <= clock
    BY <1>4 DEF Enabled, TableOK
  <2>3. clock \in Nat
    BY DEF TableOK
  <2>4. Max(S) \in S /\ \A y \in S : y <= Max(S)
    <3> HIDE DEF S
    <3> QED
      BY <2>2, <2>3, MaxOf
  <2>5. \A a \in Enabled : table[a].stamp \in S
    OBVIOUS
  <2> HIDE DEF S
  <2> QED
    BY <1>1, <1>2, <1>4, <2>1, <2>2, <2>4, <2>5 DEF Signatures, NoSignature
<1> QED
  BY <1>3, <1>4

LEMMA DepartType ==
    ASSUME ThreadsOK, NEW t \in Threads, Depart(t)
    PROVE  ThreadsOK'
BY DEF ThreadsOK, Depart, Doings, NoSignature, Signatures

LEMMA GetPoolType ==
    ASSUME ThreadsOK, ObjectsOK, NEW t \in Threads, NEW p \in Pools \union {NoPool},
           GetPool(t, p)
    PROVE  ThreadsOK' /\ manager' = Nobody
BY DEF ThreadsOK, GetPool, Doings, NoSignature, Signatures

LEMMA PassOverType ==
    ASSUME ThreadsOK, NEW t \in Threads, NEW a, NEW next \in {"scan", "rescan", "look"},
           PassOver(t, a, next), UNCHANGED <<mine, noted>>, slipped' \in [Threads -> BOOLEAN]
    PROVE  ThreadsOK'
BY DEF ThreadsOK, PassOver, Doings

LEMMA TurnToType ==
    ASSUME ThreadsOK, NEW t \in Threads, NEW a \in Accounts,
           NEW next \in {"peek", "repeek", "acquire", "use"},
           TurnTo(t, a, next), UNCHANGED <<mine, noted>>, slipped' \in [Threads -> BOOLEAN]
    PROVE  ThreadsOK'
BY DEF ThreadsOK, TurnTo, Doings

LEMMA LockType ==
    ASSUME ObjectsOK, NEW p, NEW a \in Accounts, Lock(p, a) \/ Unlock(p, a)
    PROVE  locks' \in [Pools -> SUBSET Accounts]
BY DEF ObjectsOK, Lock, Unlock

LEMMA CollectType ==
    ASSUME ObjectsOK, NEW P, Collect(P)
    PROVE  members' \in [Pools -> [Accounts -> Sessions \union {NoSession}]]
BY DEF ObjectsOK, Collect, Empty

LEMMA FreePool ==
    ASSUME NEW t \in Threads, Build(t)
    PROVE  /\ pool' \in Pools /\ pool' \notin Others(t) /\ pool' # pool
           /\ GetPool(t, pool')
           /\ members' = [p \in Pools |->
                    IF p = pool' THEN Serving
                    ELSE IF p \in Others(t) THEN members[p] ELSE Empty]
           /\ locks' = [locks EXCEPT ![pool'] = {}]
BY DEF Build

\* Every reachable state of AccountPool is well typed, and no row was changed
\* later than now.
LEMMA TypedStep ==
    ASSUME PoolTyped, [PoolNext]_poolVars
    PROVE  PoolTyped'
<1> USE DEF PoolTyped
<1>1. ASSUME NEW t \in Threads, FindCurrent(t) PROVE PoolTyped'
  BY <1>1
  DEF FindCurrent, TableOK, ObjectsOK, ThreadsOK, HistoryOK, Doings, poolObjects,
      poolHistory
<1>2. ASSUME NEW t \in Threads, FindOutdated(t) PROVE PoolTyped'
  <2>1. Signature \in Signatures
    BY SignatureFacts
  <2>2. (IF pool = NoPool THEN {} ELSE In(pool)) \in SUBSET Accounts
    BY DEF In
  <2>3. ThreadsOK'
    BY <1>2, <2>1, <2>2 DEF FindOutdated, ThreadsOK, Doings
  <2> QED
    BY <1>2, <2>3 DEF FindOutdated, TableOK, ObjectsOK, HistoryOK, poolObjects
<1>3. ASSUME NEW t \in Threads, ReloadPool(t) PROVE PoolTyped'
  <2>1. In(pool) \in SUBSET Accounts
    BY DEF In
  <2> QED
    BY <1>3, <2>1
    DEF ReloadPool, TableOK, ObjectsOK, ThreadsOK, HistoryOK, Doings, poolObjects, poolHistory
<1>4. ASSUME NEW t \in Threads, TryIdle(t) PROVE PoolTyped'
  <2>1. PICK a \in todo[t] : /\ Lock(pool, a)
                             /\ TurnTo(t, a, IF doing[t] = "scan" THEN "peek" ELSE "repeek")
    BY <1>4 DEF TryIdle
  <2>2. a \in Accounts
    BY DEF ThreadsOK
  <2>3. ThreadsOK'
    BY <1>4, <2>1, <2>2, TurnToType DEF TryIdle, ThreadsOK, poolHistory
  <2>4. locks' \in [Pools -> SUBSET Accounts]
    BY <2>1, <2>2, LockType
  <2> QED
    BY <1>4, <2>3, <2>4 DEF TryIdle, TableOK, ObjectsOK, HistoryOK, poolHistory
<1>5. ASSUME NEW t \in Threads, LetIdle(t) PROVE PoolTyped'
  <2>1. account[t] \in Accounts
    BY <1>5 DEF LetIdle, ThreadsOK
  <2>2. ThreadsOK'
    BY <1>5, PassOverType DEF LetIdle, ThreadsOK, poolHistory
  <2>3. locks' \in [Pools -> SUBSET Accounts]
    BY <1>5, <2>1, LockType DEF LetIdle
  <2> QED
    BY <1>5, <2>2, <2>3 DEF LetIdle, TableOK, ObjectsOK, HistoryOK, poolHistory
<1>6. ASSUME NEW t \in Threads, FindBusy(t) PROVE PoolTyped'
  <2>1. pool \in Pools \union {NoPool}
    BY DEF ObjectsOK
  <2>2. ThreadsOK' /\ manager' = Nobody
    BY <1>6, <2>1, GetPoolType, DepartType DEF FindBusy
  <2> QED
    BY <1>6, <2>2 DEF FindBusy, TableOK, ObjectsOK, HistoryOK, poolObjects
<1>7. ASSUME NEW t \in Threads, InvalidateIdle(t) PROVE PoolTyped'
  <2>1. ThreadsOK'
    BY <1>7, DepartType DEF InvalidateIdle
  <2>2. members' \in [Pools -> [Accounts -> Sessions \union {NoSession}]]
    BY <1>7, CollectType DEF InvalidateIdle
  <2> QED
    BY <1>7, <2>1, <2>2
    DEF InvalidateIdle, TableOK, ObjectsOK, HistoryOK, NoSignature, Signatures
<1>8. ASSUME NEW t \in Threads, Build(t) PROVE PoolTyped'
  <2>1. pool' \in Pools
    BY <1>8, FreePool
  <2>2. ThreadsOK' /\ manager' = Nobody
    BY <1>8, <2>1, FreePool, GetPoolType
  <2>3. Serving \in [Accounts -> Sessions \union {NoSession}]
    BY DEF Serving, TableOK
  <2>4. members' \in [Pools -> [Accounts -> Sessions \union {NoSession}]]
    BY <1>8, <2>3, FreePool DEF ObjectsOK, Empty
  <2>5. locks' \in [Pools -> SUBSET Accounts]
    BY <1>8, FreePool DEF ObjectsOK
  <2>6. sig' \in Signatures
    BY <1>8 DEF Build, ThreadsOK
  <2> QED
    BY <1>8, <2>1, <2>2, <2>4, <2>5, <2>6 DEF Build, TableOK, ObjectsOK, HistoryOK
<1>9. ASSUME NEW t \in Threads, BuildFails(t) PROVE PoolTyped'
  <2>1. ThreadsOK'
    BY <1>9, DepartType DEF BuildFails
  <2> QED
    BY <1>9, <2>1 DEF BuildFails, TableOK, ObjectsOK, HistoryOK, poolObjects
<1>10. ASSUME NEW t \in Threads, Reserve(t) PROVE PoolTyped'
  <2>1. \A S \in {In(mine[t])} \union {{a} : a \in In(mine[t])} : S \in SUBSET Accounts
    BY DEF In
  <2> QED
    BY <1>10, <2>1
    DEF Reserve, TableOK, ObjectsOK, ThreadsOK, HistoryOK, Doings, poolObjects, poolHistory
<1>11. ASSUME NEW t \in Threads, Look(t) PROVE PoolTyped'
  <2>1. PICK a \in todo[t] : PassOver(t, a, "look") \/ TurnTo(t, a, "acquire")
    BY <1>11 DEF Look
  <2>2. a \in Accounts
    BY DEF ThreadsOK
  <2>3. ThreadsOK'
    BY <1>11, <2>1, <2>2, TurnToType, PassOverType DEF Look, ThreadsOK, poolHistory
  <2> QED
    BY <1>11, <2>3 DEF Look, TableOK, ObjectsOK, HistoryOK, poolObjects, poolHistory
<1>12. ASSUME NEW t \in Threads, AcquireAccount(t) PROVE PoolTyped'
  <2>1. account[t] \in Accounts
    BY <1>12 DEF AcquireAccount, ThreadsOK
  <2>2. slipped' \in [Threads -> BOOLEAN]
    BY <1>12 DEF AcquireAccount, ThreadsOK, Passed
  <2>3. ThreadsOK'
    BY <1>12, <2>1, <2>2, TurnToType, PassOverType DEF AcquireAccount
  <2>4. locks' \in [Pools -> SUBSET Accounts]
    BY <1>12, <2>1, LockType DEF AcquireAccount, ObjectsOK
  <2> QED
    BY <1>12, <2>3, <2>4 DEF AcquireAccount, TableOK, ObjectsOK, HistoryOK
<1>13. ASSUME NEW t \in Threads, LetGo(t) PROVE PoolTyped'
  <2>1. account[t] \in Accounts
    BY <1>13 DEF LetGo, ThreadsOK
  <2>2. slipped' \in [Threads -> BOOLEAN]
    BY <1>13 DEF LetGo, ThreadsOK
  <2>3. ThreadsOK'
    BY <1>13, <2>2, PassOverType DEF LetGo
  <2>4. locks' \in [Pools -> SUBSET Accounts]
    BY <1>13, <2>1, LockType DEF LetGo
  <2> QED
    BY <1>13, <2>3, <2>4 DEF LetGo, TableOK, ObjectsOK, HistoryOK
<1>14. ASSUME NEW t \in Threads, Refuse(t) PROVE PoolTyped'
  <2>1. ThreadsOK'
    BY <1>14, DepartType DEF Refuse
  <2>2. members' \in [Pools -> [Accounts -> Sessions \union {NoSession}]]
    BY <1>14, CollectType DEF Refuse
  <2> QED
    BY <1>14, <2>1, <2>2 DEF Refuse, TableOK, ObjectsOK, HistoryOK
<1>15. ASSUME NEW t \in Threads, GiveBack(t) PROVE PoolTyped'
  <2>1. ThreadsOK'
    BY <1>15, DepartType DEF GiveBack
  <2>2. members' \in [Pools -> [Accounts -> Sessions \union {NoSession}]]
    BY <1>15, CollectType DEF GiveBack
  <2>3. locks' \in [Pools -> SUBSET Accounts]
    BY <1>15, LockType DEF GiveBack, ThreadsOK
  <2> QED
    BY <1>15, <2>1, <2>2, <2>3 DEF GiveBack, TableOK, ObjectsOK, HistoryOK
<1>16. ASSUME NEW a \in Accounts, NEW s \in Sessions, NEW e \in BOOLEAN, Edit(a, s, e)
       PROVE  PoolTyped'
  <2>1. TableOK'
    BY <1>16 DEF Edit, TableOK
  <2>2. HistoryOK'
    BY <1>16 DEF Edit, HistoryOK, TableOK
  <2> QED
    BY <1>16, <2>1, <2>2 DEF Edit, ObjectsOK, ThreadsOK, threadVars, poolObjects
<1>17. ASSUME Tick PROVE PoolTyped'
  BY <1>17
  DEF Tick, TableOK, ObjectsOK, ThreadsOK, HistoryOK, threadVars, poolObjects, poolHistory
<1>18. ASSUME UNCHANGED poolVars PROVE PoolTyped'
  BY <1>18
  DEF poolVars, TableOK, ObjectsOK, ThreadsOK, HistoryOK, threadVars, poolObjects,
      poolHistory
<1> QED
  BY <1>1, <1>2, <1>3, <1>4, <1>5, <1>6, <1>7, <1>8, <1>9, <1>10, <1>11, <1>12, <1>13, <1>14,
     <1>15, <1>16, <1>17, <1>18 DEF PoolNext, ThreadStep

LEMMA InitTyped == PoolInit => PoolTyped
<1> SUFFICES ASSUME PoolInit PROVE PoolTyped
  OBVIOUS
<1>1. TableOK
  BY PoolAssumption DEF PoolInit, TableOK
<1>2. ObjectsOK
  BY DEF PoolInit, ObjectsOK, NoSignature, Signatures, Empty
<1>3. ThreadsOK
  BY DEF PoolInit, ThreadsOK, Doings, NoSignature, Signatures
<1>4. HistoryOK
  BY DEF PoolInit, HistoryOK
<1> QED
  BY <1>1, <1>2, <1>3, <1>4 DEF PoolTyped

\* Every reachable state of AccountPool is well typed.
THEOREM PoolTypeInvariant == PoolSpec => []PoolTypeOK
BY InitTyped, TypedStep, TypedIsTyped, PTL DEF PoolSpec

-----------------------------------------------------------------------------
(* The account pool: who holds what.                                        *)

Holding == {"reserve", "look", "acquire", "use"}
Peeking == {"peek", "repeek"}

\* A thread that works on the pool has the manager's lock.
ManagerOK(t) ==
    /\ doing[t] \in Managing <=> manager = t
    /\ doing[t] \in Managing /\ todo[t] # {} => pool \in Pools
    /\ doing[t] \in Peeking => account[t] \in todo[t] /\ account[t] \in locks[pool]

\* A generation has a pool, its accounts are in it, and the one it uses is locked.
HoldOK(t) ==
    /\ doing[t] = "idle" => todo[t] = {}
    /\ doing[t] \in Holding => mine[t] \in Pools /\ todo[t] \subseteq In(mine[t])
    /\ doing[t] \in {"acquire", "use"} => account[t] \in In(mine[t])
    /\ doing[t] = "use" => account[t] \in locks[mine[t]]

\* Nobody else has that lock.
Apart(t, u) ==
    doing[t] = "use" =>
        /\ doing[u] = "use" => mine[t] # mine[u] \/ account[t] # account[u]
        /\ doing[u] \in Peeking => mine[t] # pool \/ account[t] # account[u]

\* A scan for idleness has yet to come to the accounts of the pool that are in
\* use and were not reserved behind its back.
InFront(t, u) ==
    doing[t] = "use" /\ ~slipped[t] =>
        mine[t] = pool /\ (doing[u] \in Managing => account[t] \in todo[u])

IHolds ==
    /\ \A t \in Threads : ManagerOK(t) /\ HoldOK(t)
    /\ \A t, u \in Threads : t # u => Apart(t, u)
    /\ \A t, u \in Threads : InFront(t, u)

\* Only t moves.
Alone(t) ==
    \A u \in Threads \ {t} :
        /\ doing'[u] = doing[u] /\ mine'[u] = mine[u] /\ todo'[u] = todo[u]
        /\ account'[u] = account[u] /\ slipped'[u] = slipped[u]

\* The other generations keep their pools.
Kept(t) ==
    \A u \in Threads \ {t} :
        mine[u] \in Pools => members'[mine[u]] = members[mine[u]]

LEMMA CollectKeeps ==
    ASSUME ObjectsOK, NEW t \in Threads, NEW P, Others(t) \subseteq P, Collect(P)
    PROVE  Kept(t)
BY DEF ObjectsOK, Collect, Kept, Others

\* A step of t that locks nothing and leaves the manager alone.
LEMMA LocalStep ==
    ASSUME PoolTyped, IHolds, NEW t \in Threads, Alone(t), Kept(t),
           UNCHANGED <<pool, manager, locks>>,
           doing[t] \notin Managing, doing'[t] \notin Managing \union {"use"},
           HoldOK(t)'
    PROVE  IHolds'
<1>1. ASSUME NEW u \in Threads \ {t} PROVE ManagerOK(u)' /\ HoldOK(u)'
  BY <1>1 DEF IHolds, Alone, Kept, ManagerOK, HoldOK, In, Managing, Holding, Peeking
<1>2. ManagerOK(t)'
  BY DEF IHolds, ManagerOK, Managing, Peeking
<1>3. ASSUME NEW u \in Threads, NEW v \in Threads PROVE u # v => Apart(u, v)'
  BY <1>3 DEF IHolds, Alone, Apart, Managing, Peeking
<1>4. ASSUME NEW u \in Threads, NEW v \in Threads PROVE InFront(u, v)'
  BY <1>4 DEF IHolds, Alone, InFront, Managing
<1> QED
  BY <1>1, <1>2, <1>3, <1>4 DEF IHolds

\* A step of t that gives its account back.
LEMMA ReleaseStep ==
    ASSUME PoolTyped, IHolds, NEW t \in Threads, Alone(t), Kept(t),
           UNCHANGED <<pool, manager>>, Unlock(mine[t], account[t]),
           doing[t] = "use", doing'[t] \notin Managing \union {"use"},
           HoldOK(t)'
    PROVE  IHolds'
<1>1. ASSUME NEW u \in Threads \ {t} PROVE HoldOK(u)'
  <2>1. doing[u] = "use" => mine[u] \in Pools /\ account[u] \in locks'[mine[u]]
    BY <1>1 DEF IHolds, Apart, HoldOK, Unlock, Holding, PoolTyped, ObjectsOK
  <2> QED
    BY <1>1, <2>1 DEF IHolds, Alone, Kept, HoldOK, In, Holding
<1>2. ASSUME NEW u \in Threads \ {t} PROVE ManagerOK(u)'
  <2>1. doing[u] \in Peeking => pool \in Pools /\ account[u] \in locks'[pool]
    BY <1>2 DEF IHolds, Apart, ManagerOK, Unlock, Peeking, Managing, PoolTyped, ObjectsOK
  <2> QED
    BY <1>2, <2>1 DEF IHolds, Alone, ManagerOK, Managing, Peeking
<1>3. ManagerOK(t)'
  BY DEF IHolds, ManagerOK, Managing, Peeking
<1>4. ASSUME NEW u \in Threads, NEW v \in Threads PROVE u # v => Apart(u, v)'
  BY <1>4 DEF IHolds, Alone, Apart, Managing, Peeking
<1>5. ASSUME NEW u \in Threads, NEW v \in Threads PROVE InFront(u, v)'
  BY <1>5 DEF IHolds, Alone, InFront, Managing
<1> QED
  BY <1>1, <1>2, <1>3, <1>4, <1>5 DEF IHolds

\* A step of t that reserves an account.
LEMMA AcquireStep ==
    ASSUME PoolTyped, IHolds, NEW t \in Threads, AcquireAccount(t),
           account[t] \notin locks[mine[t]]
    PROVE  IHolds'
<1>1. /\ doing[t] = "acquire" /\ doing' = [doing EXCEPT ![t] = "use"]
      /\ account' = [account EXCEPT ![t] = account[t]]
      /\ slipped' = [slipped EXCEPT ![t] = mine[t] # pool \/ Passed(account[t])]
      /\ Lock(mine[t], account[t])
      /\ UNCHANGED <<pool, manager, members, mine, todo>>
  BY DEF AcquireAccount, TurnTo
<1>2. Alone(t) /\ account'[t] = account[t] /\ doing'[t] = "use"
      /\ slipped'[t] = (mine[t] # pool \/ Passed(account[t]))
  BY <1>1 DEF Alone, PoolTyped, ThreadsOK
<1>3. mine[t] \in Pools /\ account[t] \in In(mine[t]) /\ todo[t] \subseteq In(mine[t])
  BY <1>1 DEF IHolds, HoldOK, Holding
<1>4. /\ account[t] \in locks'[mine[t]]
      /\ \A p \in Pools : locks[p] \subseteq locks'[p]
  BY <1>1, <1>3 DEF Lock, PoolTyped, ObjectsOK
<1>5. ASSUME NEW u \in Threads PROVE ManagerOK(u)' /\ HoldOK(u)'
  <2>1. CASE u = t
    BY <1>1, <1>2, <1>3, <1>4, <2>1
    DEF IHolds, ManagerOK, HoldOK, In, Managing, Holding, Peeking
  <2>2. CASE u # t
    BY <1>1, <1>2, <1>4, <1>5, <2>2
    DEF IHolds, Alone, ManagerOK, HoldOK, In, Managing, Holding, Peeking
  <2> QED
    BY <2>1, <2>2
<1>6. ASSUME NEW u \in Threads, NEW v \in Threads, u # v PROVE Apart(u, v)'
  BY <1>1, <1>2, <1>6 DEF IHolds, Alone, Apart, ManagerOK, HoldOK, Managing, Peeking
<1>7. ASSUME NEW u \in Threads, NEW v \in Threads PROVE InFront(u, v)'
  <2>1. CASE u = t
    BY <1>1, <1>2, <1>7, <2>1 DEF IHolds, Alone, InFront, Passed, Managing
  <2>2. CASE u # t
    BY <1>1, <1>2, <1>7, <2>2 DEF IHolds, Alone, InFront, Managing
  <2> QED
    BY <2>1, <2>2
<1> QED
  BY <1>5, <1>6, <1>7 DEF IHolds

\* The generations go on.
LEMMA GenerationStep ==
    ASSUME PoolTyped, IHolds, NEW t \in Threads,
           FindCurrent(t) \/ Reserve(t) \/ Look(t) \/ AcquireAccount(t) \/ LetGo(t)
             \/ Refuse(t) \/ GiveBack(t)
    PROVE  IHolds'
<1> USE DEF PoolTyped
<1>1. CASE FindCurrent(t)
  <2>1. Alone(t) /\ doing'[t] = "reserve" /\ mine'[t] = pool /\ todo'[t] = {}
    BY <1>1 DEF FindCurrent, Alone, ThreadsOK, poolHistory, IHolds, HoldOK
  <2>2. Kept(t) /\ pool \in Pools
    BY <1>1 DEF FindCurrent, Kept, ObjectsOK, poolObjects
  <2>3. HoldOK(t)'
    BY <2>1, <2>2 DEF HoldOK
  <2> QED
    BY <1>1, <2>1, <2>2, <2>3, LocalStep DEF FindCurrent, poolObjects, Managing
<1>2. CASE Reserve(t)
  <2>1. Alone(t) /\ doing'[t] = "look" /\ mine'[t] = mine[t] /\ todo'[t] \subseteq In(mine[t])
    BY <1>2 DEF Reserve, Alone, ThreadsOK, poolHistory
  <2>2. Kept(t) /\ In(mine[t])' = In(mine'[t])
    BY <1>2 DEF Reserve, Kept, In, poolObjects
  <2>3. HoldOK(t)'
    BY <1>2, <2>1, <2>2 DEF Reserve, HoldOK, IHolds, Holding, In, poolObjects
  <2> QED
    BY <1>2, <2>1, <2>2, <2>3, LocalStep DEF Reserve, poolObjects, Managing
<1>3. CASE Look(t)
  <2>1. PICK a \in todo[t] : PassOver(t, a, "look") \/ TurnTo(t, a, "acquire")
    BY <1>3 DEF Look
  <2>2. /\ Alone(t) /\ doing'[t] \in {"look", "acquire"} /\ mine'[t] = mine[t]
        /\ todo'[t] \subseteq todo[t]
        /\ doing'[t] = "acquire" => account'[t] = a
    BY <1>3, <2>1 DEF Look, PassOver, TurnTo, Alone, ThreadsOK, poolHistory
  <2>3. Kept(t)
    BY <1>3 DEF Look, Kept, poolObjects
  <2>4. HoldOK(t)'
    BY <1>3, <2>2 DEF Look, HoldOK, IHolds, Holding, In, poolObjects
  <2> QED
    BY <1>3, <2>2, <2>3, <2>4, LocalStep DEF Look, poolObjects, Managing
<1>4. CASE AcquireAccount(t)
  <2>1. CASE account[t] \notin locks[mine[t]]
    BY <1>4, <2>1, AcquireStep
  <2>2. CASE account[t] \in locks[mine[t]]
    <3>1. PassOver(t, account[t], "look") /\ UNCHANGED <<locks, slipped>>
      BY <1>4, <2>2 DEF AcquireAccount
    <3>2. /\ Alone(t) /\ doing'[t] = "look" /\ mine'[t] = mine[t]
          /\ todo'[t] \subseteq todo[t]
      BY <1>4, <3>1 DEF AcquireAccount, PassOver, Alone, ThreadsOK
    <3>3. Kept(t)
      BY <1>4 DEF AcquireAccount, Kept
    <3>4. HoldOK(t)'
      BY <1>4, <3>2 DEF AcquireAccount, HoldOK, IHolds, Holding, In
    <3> QED
      BY <1>4, <3>1, <3>2, <3>3, <3>4, LocalStep DEF AcquireAccount, Managing
  <2> QED
    BY <2>1, <2>2
<1>5. CASE LetGo(t)
  <2>1. /\ Alone(t) /\ doing'[t] = "look" /\ mine'[t] = mine[t]
        /\ todo'[t] \subseteq todo[t]
    BY <1>5 DEF LetGo, PassOver, Alone, ThreadsOK
  <2>2. Kept(t)
    BY <1>5 DEF LetGo, Kept
  <2>3. HoldOK(t)'
    BY <1>5, <2>1 DEF LetGo, HoldOK, IHolds, Holding, In
  <2> QED
    BY <1>5, <2>1, <2>2, <2>3, ReleaseStep DEF LetGo, Managing
<1>6. CASE Refuse(t)
  <2>1. Alone(t) /\ doing'[t] = "idle" /\ todo'[t] = {}
    BY <1>6 DEF Refuse, Depart, Alone, ThreadsOK
  <2>2. Kept(t)
    BY <1>6, CollectKeeps DEF Refuse
  <2>3. HoldOK(t)'
    BY <2>1 DEF HoldOK, Holding
  <2> QED
    BY <1>6, <2>1, <2>2, <2>3, LocalStep DEF Refuse, Managing
<1>7. CASE GiveBack(t)
  <2>1. Alone(t) /\ doing'[t] = "idle" /\ todo'[t] = {}
    BY <1>7 DEF GiveBack, Depart, Alone, ThreadsOK
  <2>2. Kept(t)
    BY <1>7, CollectKeeps DEF GiveBack
  <2>3. HoldOK(t)'
    BY <2>1 DEF HoldOK, Holding
  <2> QED
    BY <1>7, <2>1, <2>2, <2>3, ReleaseStep DEF GiveBack, Managing
<1> QED
  BY <1>1, <1>2, <1>3, <1>4, <1>5, <1>6, <1>7

\* A scan begins with all accounts of the pool.
LEMMA ScanStarts ==
    ASSUME PoolTyped, IHolds, NEW t \in Threads, Alone(t), manager = Nobody, manager' = t,
           doing'[t] \in {"scan", "rescan"}, UNCHANGED <<pool, members, locks>>,
           todo'[t] = IF pool = NoPool THEN {} ELSE In(pool)
    PROVE  IHolds'
<1>1. \A u \in Threads : doing[u] \notin Managing
  BY PoolAssumption DEF IHolds, ManagerOK
<1>2. ASSUME NEW u \in Threads \ {t} PROVE ManagerOK(u)' /\ HoldOK(u)'
  BY <1>1, <1>2 DEF IHolds, Alone, ManagerOK, HoldOK, In, Managing, Holding, Peeking
<1>3. ManagerOK(t)' /\ HoldOK(t)'
  BY DEF ManagerOK, HoldOK, Managing, Holding, Peeking, PoolTyped, ObjectsOK
<1>4. ASSUME NEW u \in Threads, NEW v \in Threads PROVE u # v => Apart(u, v)'
  BY <1>4 DEF IHolds, Alone, Apart, Peeking
<1>5. ASSUME NEW u \in Threads, NEW v \in Threads PROVE InFront(u, v)'
  <2>1. doing'[u] = "use" => u # t /\ doing[u] = "use" /\ mine'[u] = mine[u]
            /\ account'[u] = account[u] /\ slipped'[u] = slipped[u]
    BY <1>5 DEF Alone
  <2>2. doing[u] = "use" => mine[u] \in Pools /\ account[u] \in In(mine[u])
    BY <1>5 DEF IHolds, HoldOK, Holding
  <2>3. v # t => doing'[v] \notin Managing
    BY <1>1, <1>5 DEF Alone
  <2> QED
    BY <1>5, <2>1, <2>2, <2>3, PoolAssumption DEF IHolds, InFront
<1> QED
  BY <1>2, <1>3, <1>4, <1>5 DEF IHolds

\* A scan ends, and the pool stays as it is.
LEMMA ScanEnds ==
    ASSUME PoolTyped, IHolds, NEW t \in Threads, Alone(t), Kept(t), manager' = Nobody,
           doing[t] \in {"scan", "rescan"}, doing'[t] \in {"idle", "reserve"}, HoldOK(t)',
           \A u \in Threads \ {t} : mine[u] \in Pools => locks'[mine[u]] = locks[mine[u]],
           pool' = pool \/ todo[t] = {}
    PROVE  IHolds'
<1>1. \A u \in Threads : doing[u] \in Managing => u = t
  BY DEF IHolds, ManagerOK, Managing
<1>2. ASSUME NEW u \in Threads \ {t} PROVE ManagerOK(u)' /\ HoldOK(u)'
  BY <1>1, <1>2, PoolAssumption
  DEF IHolds, Alone, Kept, ManagerOK, HoldOK, In, Managing, Holding, Peeking
<1>3. ManagerOK(t)'
  BY PoolAssumption DEF ManagerOK, Managing, Peeking
<1>4. ASSUME NEW u \in Threads, NEW v \in Threads PROVE u # v => Apart(u, v)'
  BY <1>1, <1>4 DEF IHolds, Alone, Apart, Managing, Peeking
<1>5. ASSUME NEW u \in Threads, NEW v \in Threads PROVE InFront(u, v)'
  <2>1. doing'[u] = "use" => u # t /\ doing[u] = "use" /\ mine'[u] = mine[u]
            /\ account'[u] = account[u] /\ slipped'[u] = slipped[u]
    BY <1>5 DEF Alone
  <2>2. doing'[v] \notin Managing
    BY <1>1, <1>5 DEF Alone, Managing
  <2>3. doing[u] = "use" /\ ~slipped[u] => mine[u] = pool /\ account[u] \in todo[t]
    BY <1>5 DEF IHolds, InFront, Managing
  <2> QED
    BY <2>1, <2>2, <2>3 DEF InFront
<1> QED
  BY <1>2, <1>3, <1>4, <1>5 DEF IHolds

\* The scan goes on.
LEMMA ScanStep ==
    ASSUME PoolTyped, IHolds, NEW t \in Threads, TryIdle(t) \/ LetIdle(t)
    PROVE  IHolds'
<1> USE DEF PoolTyped
<1>1. Alone(t) /\ UNCHANGED <<pool, manager, members, mine, slipped>>
  BY DEF TryIdle, LetIdle, TurnTo, PassOver, Alone, ThreadsOK, poolHistory
<1>2. \A u \in Threads : doing[u] \in Managing => u = t
  BY DEF IHolds, ManagerOK, Managing, TryIdle, LetIdle
<1>3. doing'[t] \in Managing /\ doing[t] \in Managing
  BY DEF TryIdle, LetIdle, TurnTo, PassOver, Managing, ThreadsOK
<1>4. CASE TryIdle(t)
  <2>1. PICK a \in todo[t] : /\ a \notin locks[pool] /\ Lock(pool, a)
                             /\ TurnTo(t, a, IF doing[t] = "scan" THEN "peek" ELSE "repeek")
    BY <1>4 DEF TryIdle
  <2>2. pool \in Pools
    BY <2>1, <1>3 DEF IHolds, ManagerOK
  <2>3. /\ \A p \in Pools : locks[p] \subseteq locks'[p]
        /\ a \in locks'[pool]
    BY <2>1, <2>2 DEF Lock, ObjectsOK
  <2>4. account'[t] = a /\ todo' = todo
    BY <2>1 DEF TurnTo, ThreadsOK
  <2>5. ASSUME NEW u \in Threads \ {t} PROVE ManagerOK(u)' /\ HoldOK(u)'
    BY <1>1, <1>2, <2>3, <2>5
    DEF IHolds, Alone, ManagerOK, HoldOK, In, Managing, Holding, Peeking
  <2>6. ManagerOK(t)' /\ HoldOK(t)'
    BY <1>1, <1>3, <2>2, <2>3, <2>4 DEF IHolds, ManagerOK, HoldOK, Managing, Holding
  <2>7. ASSUME NEW u \in Threads, NEW v \in Threads, u # v PROVE Apart(u, v)'
    BY <1>1, <1>2, <1>3, <2>1, <2>4, <2>7 DEF IHolds, Alone, Apart, HoldOK, Managing, Peeking
  <2>8. ASSUME NEW u \in Threads, NEW v \in Threads PROVE InFront(u, v)'
    BY <1>1, <1>3, <2>4, <2>8 DEF IHolds, Alone, InFront, Managing
  <2> QED
    BY <2>5, <2>6, <2>7, <2>8 DEF IHolds
<1>5. CASE LetIdle(t)
  <2>1. /\ doing[t] \in Peeking /\ doing'[t] \in {"scan", "rescan"}
        /\ Unlock(pool, account[t]) /\ todo'[t] = todo[t] \ {account[t]}
    BY <1>5 DEF LetIdle, PassOver, ThreadsOK, Peeking
  <2>2. pool \in Pools
    BY <2>1, <1>3 DEF IHolds, ManagerOK
  <2>3. ASSUME NEW u \in Threads \ {t} PROVE HoldOK(u)'
    <3>1. doing[u] = "use" => mine[u] \in Pools /\ account[u] \in locks'[mine[u]]
      BY <2>1, <2>2, <2>3 DEF IHolds, Apart, HoldOK, Unlock, Holding, ObjectsOK
    <3> QED
      BY <1>1, <2>3, <3>1 DEF IHolds, Alone, HoldOK, In, Holding
  <2>4. ASSUME NEW u \in Threads \ {t} PROVE ManagerOK(u)'
    BY <1>1, <1>2, <2>4 DEF IHolds, Alone, ManagerOK, Managing, Peeking
  <2>5. ManagerOK(t)' /\ HoldOK(t)'
    BY <1>1, <1>3, <2>1, <2>2 DEF IHolds, ManagerOK, HoldOK, Managing, Holding, Peeking
  <2>6. ASSUME NEW u \in Threads, NEW v \in Threads, u # v PROVE Apart(u, v)'
    BY <1>1, <1>3, <2>1, <2>6 DEF IHolds, Alone, Apart, Managing, Peeking
  <2>7. ASSUME NEW u \in Threads, NEW v \in Threads PROVE InFront(u, v)'
    BY <1>1, <1>3, <2>1, <2>7 DEF IHolds, Alone, InFront, Apart, Managing, Peeking
  <2> QED
    BY <2>3, <2>4, <2>5, <2>6, <2>7 DEF IHolds
<1> QED
  BY <1>4, <1>5

\* The manager goes on.
LEMMA ManagerStep ==
    ASSUME PoolTyped, IHolds, NEW t \in Threads,
           FindOutdated(t) \/ ReloadPool(t) \/ TryIdle(t) \/ LetIdle(t) \/ FindBusy(t)
             \/ InvalidateIdle(t) \/ Build(t) \/ BuildFails(t)
    PROVE  IHolds'
<1> USE DEF PoolTyped
<1>1. CASE FindOutdated(t)
  <2>1. /\ Alone(t) /\ doing'[t] = "scan"
        /\ todo'[t] = IF pool = NoPool THEN {} ELSE In(pool)
    BY <1>1 DEF FindOutdated, Alone, ThreadsOK
  <2> QED
    BY <1>1, <2>1, ScanStarts DEF FindOutdated, poolObjects
<1>2. CASE ReloadPool(t)
  <2>1. Alone(t) /\ doing'[t] = "rescan" /\ todo'[t] = In(pool)
    BY <1>2 DEF ReloadPool, Alone, ThreadsOK, poolHistory
  <2> QED
    BY <1>2, <2>1, ScanStarts DEF ReloadPool, poolObjects
<1>3. CASE TryIdle(t) \/ LetIdle(t)
  BY <1>3, ScanStep
<1>4. CASE FindBusy(t)
  <2>1. pool \in Pools
    BY <1>4 DEF FindBusy, IHolds, ManagerOK, Managing
  <2>2. /\ Alone(t) /\ doing'[t] \in {"idle", "reserve"} /\ todo'[t] = {}
        /\ doing'[t] = "reserve" => mine'[t] = pool
        /\ manager' = Nobody
    BY <1>4 DEF FindBusy, GetPool, Depart, Alone, ThreadsOK
  <2>3. Kept(t) /\ HoldOK(t)'
    BY <1>4, <2>1, <2>2 DEF FindBusy, Kept, HoldOK, Holding, poolObjects
  <2> QED
    BY <1>4, <2>2, <2>3, ScanEnds DEF FindBusy, poolObjects
<1>5. CASE InvalidateIdle(t)
  <2>1. Alone(t) /\ doing'[t] = "idle" /\ todo'[t] = {}
    BY <1>5 DEF InvalidateIdle, Depart, Alone, ThreadsOK
  <2>2. Kept(t) /\ HoldOK(t)'
    BY <1>5, <2>1, CollectKeeps DEF InvalidateIdle, HoldOK, Holding
  <2> QED
    BY <1>5, <2>1, <2>2, ScanEnds DEF InvalidateIdle
<1>6. CASE Build(t)
  <2>1. /\ Alone(t) /\ doing'[t] = "reserve" /\ todo'[t] = {} /\ mine'[t] = pool'
        /\ manager' = Nobody
    BY <1>6, FreePool DEF GetPool, Alone, ThreadsOK
  <2>2. pool' \in Pools /\ pool' \notin Others(t)
    BY <1>6, FreePool
  <2>3. Kept(t)
    BY <1>6, <2>2, FreePool DEF Kept, Others
  <2>4. \A u \in Threads \ {t} : mine[u] \in Pools => locks'[mine[u]] = locks[mine[u]]
    BY <1>6, <2>2, FreePool DEF Others, ObjectsOK
  <2>5. HoldOK(t)'
    BY <2>1, <2>2 DEF HoldOK, Holding
  <2> QED
    BY <1>6, <2>1, <2>3, <2>4, <2>5, ScanEnds DEF Build
<1>7. CASE BuildFails(t)
  <2>1. Alone(t) /\ doing'[t] = "idle" /\ todo'[t] = {}
    BY <1>7 DEF BuildFails, Depart, Alone, ThreadsOK
  <2>2. Kept(t) /\ HoldOK(t)'
    BY <1>7, <2>1 DEF BuildFails, Kept, HoldOK, Holding, poolObjects
  <2> QED
    BY <1>7, <2>1, <2>2, ScanEnds DEF BuildFails, poolObjects
<1> QED
  BY <1>1, <1>2, <1>3, <1>4, <1>5, <1>6, <1>7

\* What a clerk or the clock does touches no lock.
LEMMA OutsideStep ==
    ASSUME IHolds, UNCHANGED <<pool, manager, poolObjects, threadVars, slipped>>
    PROVE  IHolds'
BY DEF IHolds, ManagerOK, HoldOK, Apart, InFront, In, poolObjects, threadVars

LEMMA HoldsStep ==
    ASSUME PoolTyped, IHolds, [PoolNext]_poolVars
    PROVE  IHolds'
<1>1. ASSUME NEW t \in Threads, ThreadStep(t) PROVE IHolds'
  BY <1>1, GenerationStep, ManagerStep DEF ThreadStep
<1>2. ASSUME NEW a \in Accounts, NEW s \in Sessions, NEW e \in BOOLEAN, Edit(a, s, e)
      PROVE  IHolds'
  BY <1>2, OutsideStep DEF Edit
<1>3. CASE Tick \/ UNCHANGED poolVars
  BY <1>3, OutsideStep DEF Tick, poolVars, poolHistory
<1> QED
  BY <1>1, <1>2, <1>3 DEF PoolNext

-----------------------------------------------------------------------------
(* The account pool: sessions are the accounts' own.                        *)

Distinct(f) == \A a, b \in Accounts : f[a] = f[b] => a = b \/ f[a] = NoSession

IUnique ==
    /\ \A a \in Accounts : table[a].enabled => table[a].session # NoSession
    /\ Distinct([a \in Accounts |-> table[a].session])
    /\ \A p \in Pools : Distinct(members[p])

LEMMA UniqueStep ==
    ASSUME PoolTyped, IUnique, [PoolNext]_poolVars
    PROVE  IUnique'
<1> USE DEF PoolTyped
<1>1. Distinct(Empty)
  BY DEF Distinct, Empty
<1>2. Distinct(Serving)
  BY DEF Distinct, Serving, IUnique, TableOK
<1>3. ASSUME UNCHANGED table, \A p \in Pools : members'[p] \in {members[p], Empty, Serving}
      PROVE  IUnique'
  BY <1>1, <1>2, <1>3 DEF IUnique, Distinct
<1>4. ASSUME NEW P, UNCHANGED table, Collect(P) PROVE IUnique'
  BY <1>3, <1>4 DEF Collect
<1>5. ASSUME NEW t \in Threads, ThreadStep(t) PROVE IUnique'
  <2>1. CASE InvalidateIdle(t) \/ Refuse(t) \/ GiveBack(t)
    BY <1>4, <2>1 DEF InvalidateIdle, Refuse, GiveBack
  <2>2. CASE Build(t)
    <3>1. \A p \in Pools : members'[p] \in {members[p], Empty, Serving}
      BY <2>2, FreePool
    <3> QED
      BY <1>3, <2>2, <3>1 DEF Build
  <2>3. CASE UNCHANGED <<table, members>>
    BY <1>3, <2>3
  <2> QED
    BY <1>5, <2>1, <2>2, <2>3
    DEF ThreadStep, FindCurrent, FindOutdated, ReloadPool, TryIdle, LetIdle, FindBusy, BuildFails,
        Reserve, Look, AcquireAccount, LetGo, poolObjects
<1>6. ASSUME NEW a \in Accounts, NEW s \in Sessions, NEW e \in BOOLEAN, Edit(a, s, e)
      PROVE  IUnique'
  <2>1. /\ \A b \in Accounts \ {a} : table[b].session # s /\ table'[b] = table[b]
        /\ table'[a].session = s /\ s # NoSession /\ members' = members
    BY <1>6, PoolAssumption DEF Edit, TableOK, poolObjects
  <2> QED
    BY <2>1 DEF IUnique, Distinct
<1>7. CASE Tick \/ UNCHANGED poolVars
  BY <1>3, <1>7 DEF Tick, poolVars, poolObjects
<1> QED
  BY <1>5, <1>6, <1>7 DEF PoolNext

LEMMA InitHolds == PoolInit => PoolTyped /\ IHolds /\ IUnique
<1> SUFFICES ASSUME PoolInit PROVE PoolTyped /\ IHolds /\ IUnique
  OBVIOUS
<1>1. PoolTyped
  BY InitTyped
<1>2. IHolds
  BY PoolAssumption
  DEF PoolInit, IHolds, ManagerOK, HoldOK, Apart, InFront, Managing, Holding, Peeking
<1>3. IUnique
  BY PoolAssumption DEF PoolInit, IUnique, Distinct, Empty
<1> QED
  BY <1>1, <1>2, <1>3

\* Two generations that were given the current pool, and were there for the scan
\* for idleness to find, never use one session together, for any number of
\* requests, accounts, pools and edits.
THEOREM SessionsAreUsedAlone == PoolSpec => []SoleUse
<1>1. PoolInit => PoolTyped /\ IHolds /\ IUnique
  BY InitHolds
<1>2. PoolTyped /\ IHolds /\ IUnique /\ [PoolNext]_poolVars
        => (PoolTyped /\ IHolds /\ IUnique)'
  BY TypedStep, HoldsStep, UniqueStep
<1>3. PoolTyped /\ IHolds /\ IUnique => SoleUse
  <2> SUFFICES ASSUME PoolTyped, IHolds, IUnique, NEW t \in Threads, NEW u \in Threads, t # u,
                      doing[t] = "use", doing[u] = "use", ~slipped[t], ~slipped[u],
                      members[mine[t]][account[t]] = members[mine[u]][account[u]]
               PROVE  FALSE
    BY DEF SoleUse
  <2>1. mine[t] = pool /\ mine[u] = pool /\ account[t] # account[u]
    BY DEF IHolds, InFront, Apart
  <2>2. pool \in Pools /\ account[t] \in In(pool) /\ account[u] \in In(pool)
    BY <2>1 DEF IHolds, HoldOK, Holding
  <2> QED
    BY <2>1, <2>2 DEF IUnique, Distinct, In
<1> QED
  BY <1>1, <1>2, <1>3, PTL DEF PoolSpec

-----------------------------------------------------------------------------
(* The account pool and the table.                                          *)

INoted ==
    \A t \in Threads : doing[t] \in {"scan", "peek"} /\ ~edited => noted[t] = Signature

\* A row that was changed after the signature of the pool was read is later than
\* that, another one is as in the pool.
IKnown ==
    pool # NoPool /\ ~torn /\ ~overlooked =>
        /\ sig.count = Cardinality(In(pool))
        /\ \A a \in Enabled :
                table[a].stamp <= sig.newest => members[pool][a] = table[a].session

\* The current pool is not collected.
LEMMA KnownKept ==
    ASSUME PoolTyped, INoted, IKnown, UNCHANGED <<table, clock, pool, sig, overlooked, torn>>,
           pool # NoPool => members'[pool] = members[pool]
    PROVE  IKnown'
BY DEF IKnown, In, Enabled

LEMMA NotedKept ==
    ASSUME PoolTyped, INoted, UNCHANGED table, edited => edited',
           \A t \in Threads : doing'[t] \in {"scan", "peek"} =>
                doing[t] \in {"scan", "peek"} /\ noted'[t] = noted[t]
    PROVE  INoted'
BY DEF INoted, Signature, Enabled

\* An edit is later than the signature of the pool, or overlooked.
LEMMA EditStep ==
    ASSUME PoolTyped, IHolds, INoted, IKnown,
           NEW a \in Accounts, NEW s \in Sessions, NEW e \in BOOLEAN, Edit(a, s, e)
    PROVE  INoted' /\ IKnown'
<1>1. INoted'
  <2>1. ASSUME NEW t \in Threads, doing[t] \in {"scan", "peek"} PROVE edited'
    <3>1. manager = t
      BY <2>1 DEF IHolds, ManagerOK, Managing
    <3> QED
      BY <3>1, PoolAssumption DEF Edit
  <2> QED
    BY <2>1 DEF INoted, Edit, threadVars
<1>2. PICK stamp \in 0 .. clock :
        /\ table' = [table EXCEPT ![a] = [session |-> s, enabled |-> e, stamp |-> stamp]]
        /\ overlooked' = (overlooked \/ (pool # NoPool /\ stamp <= sig.newest))
  BY DEF Edit
<1>3. UNCHANGED <<pool, sig, members, torn>>
  BY DEF Edit, poolObjects
<1>4. SUFFICES ASSUME pool # NoPool, ~torn, ~overlooked'
               PROVE  IKnown'
  BY <1>1, <1>3 DEF IKnown
<1>5. ~overlooked /\ ~(stamp <= sig.newest)
  BY <1>2, <1>4
<1>6. /\ sig.count = Cardinality(In(pool))
      /\ \A b \in Enabled :
            table[b].stamp <= sig.newest => members[pool][b] = table[b].session
  BY <1>4, <1>5 DEF IKnown
<1>7. ASSUME NEW b \in Accounts, table'[b].enabled, table'[b].stamp <= sig.newest
      PROVE  members[pool][b] = table'[b].session
  <2>1. b # a
    BY <1>2, <1>5, <1>7 DEF PoolTyped, TableOK
  <2> QED
    BY <1>2, <1>6, <1>7, <2>1 DEF PoolTyped, TableOK, Enabled
<1>8. In(pool)' = In(pool)
  BY <1>3 DEF In
<1>9. Enabled' = {b \in Accounts : table'[b].enabled}
  BY DEF Enabled
<1>10. IKnown'
  BY <1>3, <1>6, <1>7, <1>8, <1>9 DEF IKnown
<1> QED
  BY <1>10

\* A pool built with an undisturbed signature has the accounts it speaks of.
LEMMA BuildStep ==
    ASSUME PoolTyped, IHolds, IUnique, INoted, NEW t \in Threads, Build(t)
    PROVE  INoted' /\ IKnown'
<1>1. doing[t] = "scan" /\ Enabled # {} /\ sig' = noted[t] /\ torn' = edited
      /\ UNCHANGED <<table, clock>>
  BY DEF Build
<1>2. pool' \in Pools /\ GetPool(t, pool')
  BY FreePool
<1>3. INoted'
  <2>1. \A u \in Threads : doing'[u] \notin {"scan", "peek"}
    BY <1>1, <1>2 DEF GetPool, IHolds, ManagerOK, Managing, PoolTyped, ThreadsOK
  <2> QED
    BY <2>1 DEF INoted
<1>4. IKnown'
  <2> SUFFICES ASSUME ~edited PROVE IKnown'
    BY <1>1 DEF IKnown
  <2>1. sig' = Signature
    BY <1>1 DEF INoted
  <2>2. members'[pool'] = Serving
    BY <1>2, FreePool DEF PoolTyped, ObjectsOK
  <2>3. In(pool)' = Enabled
    BY <2>2 DEF In, Serving, Enabled, IUnique
  <2>4. Enabled' = Enabled
    BY <1>1 DEF Enabled
  <2>5. \A a \in Enabled : members'[pool'][a] = table[a].session
    BY <2>2 DEF Serving, Enabled
  <2> QED
    BY <1>1, <2>1, <2>3, <2>4, <2>5, SignatureFacts DEF IKnown, PoolTyped
<1> QED
  BY <1>3, <1>4

LEMMA KnownStep ==
    ASSUME PoolTyped, IHolds, IUnique, INoted, IKnown, [PoolNext]_poolVars
    PROVE  INoted' /\ IKnown'
<1> USE DEF PoolTyped
<1>1. ASSUME NEW t \in Threads, FindOutdated(t) PROVE INoted' /\ IKnown'
  <2>1. IKnown'
    BY <1>1, KnownKept DEF FindOutdated, poolObjects
  <2>2. ASSUME NEW u \in Threads, doing'[u] \in {"scan", "peek"} PROVE u = t
    BY <1>1, <2>2, PoolAssumption
    DEF FindOutdated, IHolds, ManagerOK, Managing, ThreadsOK
  <2>3. noted'[t] = Signature /\ Signature' = Signature
    BY <1>1 DEF FindOutdated, ThreadsOK, Signature, Enabled
  <2> QED
    BY <2>1, <2>2, <2>3 DEF INoted
<1>2. ASSUME NEW t \in Threads, Build(t) PROVE INoted' /\ IKnown'
  BY <1>2, BuildStep
<1>3. ASSUME NEW t \in Threads, InvalidateIdle(t) PROVE INoted' /\ IKnown'
  <2>1. IKnown'
    BY <1>3 DEF InvalidateIdle, IKnown
  <2> QED
    BY <1>3, <2>1, NotedKept DEF InvalidateIdle, Depart, ThreadsOK
<1>4. ASSUME NEW t \in Threads, Refuse(t) \/ GiveBack(t) PROVE INoted' /\ IKnown'
  <2>1. pool # NoPool => members'[pool] = members[pool]
    BY <1>4 DEF Refuse, GiveBack, Collect, ObjectsOK
  <2>2. IKnown'
    BY <1>4, <2>1, KnownKept DEF Refuse, GiveBack
  <2> QED
    BY <1>4, <2>2, NotedKept DEF Refuse, GiveBack, Depart, ThreadsOK
<1>5. ASSUME NEW t \in Threads,
             FindCurrent(t) \/ ReloadPool(t) \/ TryIdle(t) \/ LetIdle(t) \/ FindBusy(t)
               \/ BuildFails(t) \/ Reserve(t) \/ Look(t) \/ AcquireAccount(t) \/ LetGo(t)
      PROVE  INoted' /\ IKnown'
  <2>1. UNCHANGED <<table, clock, pool, sig, members, overlooked, torn, edited>>
    BY <1>5 DEF FindCurrent, ReloadPool, TryIdle, LetIdle, FindBusy, BuildFails, Reserve, Look,
                AcquireAccount, LetGo, poolObjects, poolHistory
  <2>2. \A u \in Threads : doing'[u] \in {"scan", "peek"} =>
            doing[u] \in {"scan", "peek"} /\ noted'[u] = noted[u]
    BY <1>5 DEF FindCurrent, ReloadPool, TryIdle, LetIdle, FindBusy, BuildFails, Reserve, Look,
                AcquireAccount, LetGo, TurnTo, PassOver, GetPool, Depart, ThreadsOK
  <2> QED
    BY <2>1, <2>2, KnownKept, NotedKept
<1>6. ASSUME NEW a \in Accounts, NEW s \in Sessions, NEW e \in BOOLEAN, Edit(a, s, e)
      PROVE  INoted' /\ IKnown'
  BY <1>6, EditStep
<1>7. CASE Tick
  <2>1. INoted'
    BY <1>7, NotedKept DEF Tick, threadVars, poolHistory
  <2> QED
    BY <1>7, <2>1 DEF Tick, IKnown, In, Enabled, TableOK, ObjectsOK, Signatures, poolObjects,
                      poolHistory
<1>8. CASE UNCHANGED poolVars
  <2>1. INoted'
    BY <1>8, NotedKept DEF poolVars, threadVars, poolHistory
  <2> QED
    BY <1>8, <2>1, KnownKept DEF poolVars, poolObjects, poolHistory
<1> QED
  BY <1>1, <1>2, <1>3, <1>4, <1>5, <1>6, <1>7, <1>8 DEF PoolNext, ThreadStep

\* A pool the manager takes to be up to date has the sessions of the enabled
\* accounts, unless an account was edited while it was built, or after that with
\* a second that does not raise the signature, for any accounts, edits and clock.
THEOREM PoolIsUpToDate == PoolSpec => []PoolIsCurrent
<1> DEFINE I == PoolTyped /\ IHolds /\ IUnique /\ INoted /\ IKnown
<1>1. PoolInit => I
  <2> SUFFICES ASSUME PoolInit PROVE INoted /\ IKnown
    BY InitHolds
  <2> QED
    BY PoolAssumption DEF PoolInit, INoted, IKnown
<1>2. I /\ [PoolNext]_poolVars => I'
  BY TypedStep, HoldsStep, UniqueStep, KnownStep
<1>3. I => PoolIsCurrent
  <2> SUFFICES ASSUME I, pool # NoPool, sig = Signature, ~torn, ~overlooked
               PROVE  members[pool] = Serving
    BY DEF PoolIsCurrent
  <2>1. Cardinality(In(pool)) = Cardinality(Enabled)
    BY SignatureFacts DEF IKnown, PoolTyped
  <2>2. \A a \in Enabled : members[pool][a] = table[a].session /\ table[a].session # NoSession
    BY SignatureFacts DEF IKnown, PoolTyped, IUnique, Enabled
  <2>3. Enabled \subseteq In(pool)
    BY <2>2 DEF In, Enabled
  <2>4. IsFiniteSet(In(pool))
    BY PoolAssumption, FS_Subset DEF In
  <2>5. Enabled = In(pool)
    BY <2>1, <2>3, <2>4, FS_Subset
  <2>6. pool \in Pools
    BY DEF PoolTyped, ObjectsOK
  <2>7. \A a \in Accounts : members[pool][a] = Serving[a]
    BY <2>2, <2>5 DEF In, Serving, Enabled
  <2> QED
    BY <2>6, <2>7 DEF Serving, PoolTyped, ObjectsOK
<1> QED
  BY <1>1, <1>2, <1>3, PTL DEF PoolSpec

-----------------------------------------------------------------------------
(* The rows of the sources.                                                 *)

USE DEF dispatchLocals, choiceBudgets, choiceHistory

RowsOK ==
    /\ offers \in [Sources -> Offer]
    /\ meant \in [Sources -> Offer]
    /\ desk \in [Admins -> [source : Sources \union {NoSource}, row : Offer, wish : Wishes]]
    /\ reverted \subseteq Sources

RowsInv == RowsOK /\ DecisionsKept

\* The row of a source, however a writer changes it, is a row.
LEMMA WrittenRow ==
    ASSUME NEW row \in Offer, NEW w \in Wishes
    PROVE  Counted(row) \in Offer /\ Wished(row, w) \in Offer
<1>1. row.live \in BOOLEAN /\ row.uses \in Nat /\ row.active \in BOOLEAN
  BY DEF Offer
<1>2. Counted(row) \in Offer
  BY <1>1 DEF Counted, Offer
<1>3. [row EXCEPT !.active = TRUE] \in Offer /\ [row EXCEPT !.active = FALSE] \in Offer
  BY DEF Offer
<1>4. CASE w = "enable"
  <2>1. Wished(row, w) = [row EXCEPT !.active = TRUE]
    BY <1>4 DEF Wished
  <2> QED
    BY <1>2, <1>3, <2>1
<1>5. CASE w = "disable"
  <2>1. Wished(row, w) = [row EXCEPT !.active = FALSE]
    BY <1>5 DEF Wished
  <2> QED
    BY <1>2, <1>3, <2>1
<1>6. CASE w = "other"
  BY <1>2, <1>6 DEF Wished
<1> QED
  BY <1>4, <1>5, <1>6 DEF Wishes

\* Counting an attempt changes the row and what it should be alike.
LEMMA IncrementKeeps ==
    ASSUME RowsInv, NEW r \in Dispatches, Increment(r), UNCHANGED <<desk, reverted>>
    PROVE  RowsInv'
<1>1. offers' \in [Sources -> Offer] /\ meant' \in [Sources -> Offer]
  BY WrittenRow DEF RowsInv, RowsOK, Increment, Wishes
<1>2. ASSUME NEW p \in Sources \ reverted
      PROVE  offers'[p] = meant'[p]
  BY <1>2 DEF RowsInv, RowsOK, DecisionsKept, Increment
<1> QED
  BY <1>1, <1>2 DEF RowsInv, RowsOK, DecisionsKept

\* No step of a dispatch makes a row differ from what it should be.
LEMMA DispatchKeeps ==
    ASSUME RowsInv, NEW r \in Dispatches, DispatchStep(r)
    PROVE  RowsInv'
<1>1. UNCHANGED <<desk, reverted>>
  BY DEF DispatchStep, Gather, Prefer, Rebuff, Miss, TallyMiss, Answered, KeepAffinity,
         CountSuccess, Perish
<1>2. Increment(r) \/ UNCHANGED <<offers, meant>>
  BY DEF DispatchStep, Gather, Prefer, Rebuff, Miss, TallyMiss, Answered, KeepAffinity,
         CountSuccess, Perish
<1>3. CASE Increment(r)
  BY <1>1, <1>3, IncrementKeeps
<1>4. CASE UNCHANGED <<offers, meant>>
  BY <1>1, <1>4 DEF RowsInv, RowsOK, DecisionsKept
<1> QED
  BY <1>2, <1>3, <1>4

\* An administrator notes down a row as it is.
LEMMA ReadKeeps ==
    ASSUME RowsInv, NEW e \in Admins, NEW p \in Sources, ReadOffer(e, p)
    PROVE  RowsInv'
<1>1. PICK w \in Wishes :
        desk' = [desk EXCEPT ![e] = [source |-> p, row |-> offers[p], wish |-> w]]
  BY DEF ReadOffer
<1>2. desk' \in [Admins -> [source : Sources \union {NoSource}, row : Offer, wish : Wishes]]
  BY <1>1 DEF RowsInv, RowsOK
<1> QED
  BY <1>2 DEF RowsInv, RowsOK, DecisionsKept, ReadOffer

\* A save of the row that is there changes what it means to; any other save
\* leaves its source among the reverted.
LEMMA SaveKeeps ==
    ASSUME RowsInv, NEW e \in Admins, SaveOffer(e)
    PROVE  RowsInv'
<1> DEFINE p == desk[e].source
           w == desk[e].wish
           row == Wished(desk[e].row, w)
<1>1. /\ p \in Sources /\ desk[e].row \in Offer /\ w \in Wishes
      /\ offers' = [offers EXCEPT ![p] = row]
      /\ reverted' = IF offers[p] = desk[e].row THEN reverted ELSE reverted \union {p}
      /\ meant' = [meant EXCEPT ![p] = IF p \in reverted' THEN row ELSE Wished(@, w)]
      /\ desk' = [desk EXCEPT ![e] = NoEdit]
  BY DEF SaveOffer, RowsInv, RowsOK
<1>2. row \in Offer /\ Wished(meant[p], w) \in Offer
  BY <1>1, WrittenRow DEF RowsInv, RowsOK
<1>3. NoEdit \in [source : Sources \union {NoSource}, row : Offer, wish : Wishes]
  BY DEF NoEdit, Offer, Wishes
<1>4. RowsOK'
  BY <1>1, <1>2, <1>3 DEF RowsInv, RowsOK
<1>5. ASSUME NEW q \in Sources \ reverted'
      PROVE  offers'[q] = meant'[q]
  <2>1. q \notin reverted /\ offers[q] = meant[q]
    BY <1>1 DEF RowsInv, DecisionsKept
  <2>2. CASE q = p
    <3>1. offers[p] = desk[e].row
      BY <1>1, <2>2
    <3>2. Wished(meant[p], w) = row
      BY <2>1, <2>2, <3>1
    <3> HIDE DEF p, w, row
    <3> QED
      BY <1>1, <2>2, <3>2 DEF RowsInv, RowsOK
  <2>3. CASE q # p
    <3> HIDE DEF p, w, row
    <3> QED
      BY <1>1, <2>1, <2>3 DEF RowsInv, RowsOK
  <2> QED
    BY <2>2, <2>3
<1> QED
  BY <1>4, <1>5 DEF RowsInv, DecisionsKept

LEMMA BatchKeeps ==
    ASSUME RowsInv, NEW P \in SUBSET Sources, NEW active \in BOOLEAN, BatchStatus(P, active)
    PROVE  RowsInv'
<1>1. \A row \in Offer : [row EXCEPT !.active = active] \in Offer
  BY DEF Offer
<1>2. offers' \in [Sources -> Offer] /\ meant' \in [Sources -> Offer]
  BY <1>1 DEF RowsInv, RowsOK, BatchStatus
<1>3. \A p \in Sources : offers[p] = meant[p] => offers'[p] = meant'[p]
  BY DEF BatchStatus
<1>4. UNCHANGED <<desk, reverted>>
  BY DEF BatchStatus
<1> QED
  BY <1>2, <1>3, <1>4 DEF RowsInv, RowsOK, DecisionsKept

LEMMA DeleteKeeps ==
    ASSUME RowsInv, NEW p \in Sources, DeleteOffer(p)
    PROVE  RowsInv'
<1>1. \A row \in Offer : [row EXCEPT !.live = FALSE] \in Offer
  BY DEF Offer
<1>2. offers' \in [Sources -> Offer] /\ meant' \in [Sources -> Offer]
  BY <1>1 DEF RowsInv, RowsOK, DeleteOffer
<1>3. \A q \in Sources : offers[q] = meant[q] => offers'[q] = meant'[q]
  BY DEF RowsInv, RowsOK, DeleteOffer
<1>4. UNCHANGED <<desk, reverted>>
  BY DEF DeleteOffer
<1> QED
  BY <1>2, <1>3, <1>4 DEF RowsInv, RowsOK, DecisionsKept

LEMMA RowsStep == RowsInv /\ [ChoiceNext]_choiceVars => RowsInv'
<1> SUFFICES ASSUME RowsInv, [ChoiceNext]_choiceVars
             PROVE  RowsInv'
  OBVIOUS
<1>1. CASE \E r \in Dispatches : DispatchStep(r)
  BY <1>1, DispatchKeeps
<1>2. CASE \E d \in Dialogs : SessionExpires(d)
  BY <1>2 DEF SessionExpires, RowsInv, RowsOK, DecisionsKept
<1>3. CASE \E e \in Admins, p \in Sources : ReadOffer(e, p)
  BY <1>3, ReadKeeps
<1>4. CASE \E e \in Admins : SaveOffer(e)
  BY <1>4, SaveKeeps
<1>5. CASE \E P \in SUBSET Sources, active \in BOOLEAN : BatchStatus(P, active)
  BY <1>5, BatchKeeps
<1>6. CASE \E p \in Sources : DeleteOffer(p)
  BY <1>6, DeleteKeeps
<1>7. CASE UNCHANGED choiceVars
  BY <1>7 DEF choiceVars, RowsInv, RowsOK, DecisionsKept
<1> QED
  BY <1>1, <1>2, <1>3, <1>4, <1>5, <1>6, <1>7 DEF ChoiceNext

LEMMA RowsInit == ChoiceInit => RowsInv
BY DEF ChoiceInit, RowsInv, RowsOK, DecisionsKept, Offer, NoEdit, Wishes

\* Administrators' decisions and attempts' counts stay in the rows, and deleted
\* sources stay deleted, unless an edit saved a row that had changed since it was
\* read: DecisionsKept, for any number of writers.
THEOREM DecisionsAreKept == ChoiceSpec => []DecisionsKept
<1>1. RowsInv => DecisionsKept
  BY DEF RowsInv
<1> QED
  BY <1>1, RowsInit, RowsStep, PTL DEF ChoiceSpec

-----------------------------------------------------------------------------
(* Putting some sources first.                                              *)

\* j is not after i in Ahead(S, q).
Precedes(S, q, j, i) ==
    \/ q[j] \in S /\ q[i] \notin S
    \/ (q[j] \in S <=> q[i] \in S) /\ j <= i

Upto(S, q, i) == {j \in DOMAIN q : Precedes(S, q, j, i)}

LEMMA UptoCount ==
    ASSUME NEW S, NEW n \in Nat, NEW q, DOMAIN q = 1 .. n, NEW i \in 1 .. n
    PROVE  /\ IsFiniteSet(Upto(S, q, i))
           /\ Place(S, q, i) = Cardinality(Upto(S, q, i))
           /\ Place(S, q, i) \in 1 .. n
<1>1. IsFiniteSet(1 .. n) /\ Cardinality(1 .. n) = n
  BY FS_Interval
<1>2. Upto(S, q, i) \in SUBSET (1 .. n) /\ i \in Upto(S, q, i)
  BY DEF Upto, Precedes
<1>3. IsFiniteSet(Upto(S, q, i)) /\ Cardinality(Upto(S, q, i)) <= n
  BY <1>1, <1>2, FS_Subset
<1>4. Cardinality(Upto(S, q, i)) \in Nat /\ Cardinality(Upto(S, q, i)) # 0
  BY <1>2, <1>3, FS_CardinalityType, FS_EmptySet
<1>5. Place(S, q, i) = Cardinality(Upto(S, q, i))
  BY DEF Place, Upto, Precedes
<1> QED
  BY <1>3, <1>4, <1>5

\* Of two positions, one comes first, and so do all that come before it.
LEMMA PlaceStrict ==
    ASSUME NEW S, NEW n \in Nat, NEW q, DOMAIN q = 1 .. n,
           NEW i \in 1 .. n, NEW j \in 1 .. n, i # j, Precedes(S, q, j, i)
    PROVE  Place(S, q, j) < Place(S, q, i)
<1>1. Upto(S, q, j) \in SUBSET Upto(S, q, i)
  <2> SUFFICES ASSUME NEW k \in 1 .. n, Precedes(S, q, k, j)
               PROVE  Precedes(S, q, k, i)
    BY DEF Upto
  <2> QED
    BY DEF Precedes
<1>2. i \in Upto(S, q, i) /\ i \notin Upto(S, q, j)
  BY DEF Upto, Precedes
<1>3. Cardinality(Upto(S, q, j)) <= Cardinality(Upto(S, q, i))
      /\ Cardinality(Upto(S, q, j)) # Cardinality(Upto(S, q, i))
  BY <1>1, <1>2, UptoCount, FS_Subset
<1>4. /\ Place(S, q, i) = Cardinality(Upto(S, q, i)) /\ Place(S, q, i) \in 1 .. n
      /\ Place(S, q, j) = Cardinality(Upto(S, q, j)) /\ Place(S, q, j) \in 1 .. n
  BY UptoCount
<1> QED
  BY <1>3, <1>4

LEMMA PlaceInjective ==
    ASSUME NEW S, NEW n \in Nat, NEW q, DOMAIN q = 1 .. n,
           NEW i \in 1 .. n, NEW j \in 1 .. n, Place(S, q, i) = Place(S, q, j)
    PROVE  i = j
<1> SUFFICES ASSUME i # j PROVE FALSE
  OBVIOUS
<1>1. Precedes(S, q, j, i) \/ Precedes(S, q, i, j)
  BY DEF Precedes
<1>2. Place(S, q, i) \in 1 .. n /\ Place(S, q, j) \in 1 .. n
  BY UptoCount
<1>3. Place(S, q, i) < Place(S, q, j) \/ Place(S, q, j) < Place(S, q, i)
  BY <1>1, PlaceStrict
<1> QED
  BY <1>2, <1>3

\* Whoever has place k: there is somebody, as n positions have n different
\* places between 1 and n.
At(S, q, k) == CHOOSE i \in DOMAIN q : Place(S, q, i) = k

LEMMA AtPlace ==
    ASSUME NEW S, NEW n \in Nat, NEW q, DOMAIN q = 1 .. n
    PROVE  /\ \A k \in 1 .. n : At(S, q, k) \in 1 .. n /\ Place(S, q, At(S, q, k)) = k
           /\ \A i \in 1 .. n : Place(S, q, i) \in 1 .. n /\ At(S, q, Place(S, q, i)) = i
           /\ Ahead(S, q) = [k \in 1 .. n |-> q[At(S, q, k)]]
<1>0. DOMAIN q = 1 .. n
  OBVIOUS
<1>1. ASSUME NEW k \in 1 .. n
      PROVE  At(S, q, k) \in 1 .. n /\ Place(S, q, At(S, q, k)) = k
  <2>1. \E i \in 1 .. n : Place(S, q, i) = k
    <3> DEFINE f == [i \in 1 .. n |-> Place(S, q, i)]
    <3>1. \A i \in 1 .. n : Place(S, q, i) \in 1 .. n
      BY UptoCount
    <3>2. \A i, j \in 1 .. n : Place(S, q, i) = Place(S, q, j) => i = j
      BY PlaceInjective
    <3>3. f \in Injection(1 .. n, 1 .. n)
      BY <3>1, <3>2 DEF Injection, IsInjective
    <3>4. f \in Surjection(1 .. n, 1 .. n)
      BY <3>3, FS_Interval, FS_Injection
    <3> QED
      BY <3>4 DEF Surjection
  <2>2. \E i \in DOMAIN q : Place(S, q, i) = k
    BY <1>0, <2>1
  <2>3. At(S, q, k) \in DOMAIN q /\ Place(S, q, At(S, q, k)) = k
    BY <2>2, Zenon DEF At
  <2> QED
    BY <1>0, <2>3, Zenon
<1>2. ASSUME NEW i \in 1 .. n
      PROVE  Place(S, q, i) \in 1 .. n /\ At(S, q, Place(S, q, i)) = i
  <2>1. Place(S, q, i) \in 1 .. n
    BY UptoCount
  <2>2. /\ At(S, q, Place(S, q, i)) \in 1 .. n
        /\ Place(S, q, At(S, q, Place(S, q, i))) = Place(S, q, i)
    BY <1>1, <2>1
  <2> QED
    BY <2>1, <2>2, PlaceInjective
<1>3. Ahead(S, q) = [k \in 1 .. n |-> q[At(S, q, k)]]
  BY <1>0, Zenon DEF Ahead, At
<1> QED
  BY <1>1, <1>2, <1>3

\* Ahead only reorders.
LEMMA AheadReorders ==
    ASSUME NEW S, NEW q \in Seq(Sources)
    PROVE  /\ Ahead(S, q) \in Seq(Sources)
           /\ Len(Ahead(S, q)) = Len(q)
           /\ Members(Ahead(S, q)) = Members(q)
<1>1. PICK n \in Nat : n = Len(q) /\ q \in [1 .. n -> Sources] /\ DOMAIN q = 1 .. n
  OBVIOUS
<1>2. /\ \A k \in 1 .. n : At(S, q, k) \in 1 .. n
      /\ \A i \in 1 .. n : Place(S, q, i) \in 1 .. n /\ At(S, q, Place(S, q, i)) = i
      /\ Ahead(S, q) = [k \in 1 .. n |-> q[At(S, q, k)]]
  <2>1. n \in Nat /\ DOMAIN q = 1 .. n
    BY <1>1
  <2>2. \A k \in 1 .. n : At(S, q, k) \in 1 .. n
    BY <2>1, AtPlace
  <2>3. \A i \in 1 .. n : Place(S, q, i) \in 1 .. n /\ At(S, q, Place(S, q, i)) = i
    BY <2>1, AtPlace
  <2>4. Ahead(S, q) = [k \in 1 .. n |-> q[At(S, q, k)]]
    BY <2>1, AtPlace
  <2> QED
    BY <2>2, <2>3, <2>4
<1>3. Ahead(S, q) \in [1 .. n -> Sources]
  BY <1>1, <1>2
<1>4. Ahead(S, q) \in Seq(Sources) /\ Len(Ahead(S, q)) = n
  BY <1>3
<1>5. \A k \in 1 .. n : Ahead(S, q)[k] \in Members(q)
  BY <1>1, <1>2 DEF Members
<1>6. \A i \in 1 .. n : q[i] = Ahead(S, q)[Place(S, q, i)]
  BY <1>2
<1>7. DOMAIN Ahead(S, q) = 1 .. n
  BY <1>3
<1>8. Members(Ahead(S, q)) \subseteq Members(q)
  BY <1>5, <1>7 DEF Members
<1>9. Members(q) \subseteq Members(Ahead(S, q))
  BY <1>1, <1>2, <1>6, <1>7 DEF Members
<1> QED
  BY <1>1, <1>4, <1>8, <1>9

\* A source that is put first is first, if it is there.
LEMMA AheadFirst ==
    ASSUME NEW q \in Seq(Sources), NEW p \in Members(q)
    PROVE  Ahead({p}, q)[1] = p
<1>1. PICK n \in Nat : q \in [1 .. n -> Sources] /\ DOMAIN q = 1 .. n
  OBVIOUS
<1>2. PICK i \in 1 .. n : q[i] = p
  BY <1>1 DEF Members
<1> DEFINE j == At({p}, q, 1)
<1>3. 1 \in 1 .. n
  BY <1>1, <1>2
<1>4. j \in 1 .. n /\ Place({p}, q, j) = 1 /\ Ahead({p}, q)[1] = q[j]
  BY <1>1, <1>3, AtPlace
<1> HIDE DEF j
<1> SUFFICES ASSUME q[j] # p PROVE FALSE
  BY <1>4
<1>5. Precedes({p}, q, i, j) /\ i # j
  BY <1>2 DEF Precedes
<1>6. Place({p}, q, i) < Place({p}, q, j)
  BY <1>1, <1>2, <1>4, <1>5, PlaceStrict
<1>7. Place({p}, q, i) \in 1 .. n
  BY <1>1, <1>2, UptoCount
<1> QED
  BY <1>4, <1>6, <1>7

-----------------------------------------------------------------------------
(* The dispatches: types.                                                   *)

\* What ChoiceTypeOK says of one dispatch; one that is over has tried nothing.
DispatchTyped(r) ==
    /\ leg[r] \in Legs
    /\ dial[r] \in Dialogs \union {NoDialog}
    /\ order[r] \in Seq(Sources)
    /\ tried[r] \in Nat
    /\ leg[r] = "idle" => tried[r] = 0
    /\ leg[r] # "idle" => tried[r] < Len(order[r])
    /\ usable[r] \subseteq Sources

LocalsTyped ==
    /\ leg = [r \in Dispatches |-> leg[r]]
    /\ dial = [r \in Dispatches |-> dial[r]]
    /\ order = [r \in Dispatches |-> order[r]]
    /\ tried = [r \in Dispatches |-> tried[r]]
    /\ usable = [r \in Dispatches |-> usable[r]]
    /\ \A r \in Dispatches : DispatchTyped(r)

SessionsTyped ==
    /\ affinity \in [Dialogs -> Sources \union {NoSource}]
    /\ last \in [Dialogs -> Sources \union {NoSource}]
    /\ adrift \subseteq Dialogs
    /\ used \in Nat /\ changes \in Nat /\ lapses \in Nat

ChoiceTyped == RowsInv /\ LocalsTyped /\ SessionsTyped

\* A dispatch that was under way has a current source, one of its order.
LEMMA CurrentSource ==
    ASSUME LocalsTyped, NEW r \in Dispatches, leg[r] # "idle"
    PROVE  Current(r) \in Sources /\ Current(r) \in Members(order[r])
<1>1. /\ order[r] \in Seq(Sources) /\ tried[r] \in Nat /\ tried[r] < Len(order[r])
  BY DEF LocalsTyped, DispatchTyped
<1>2. tried[r] + 1 \in DOMAIN order[r]
  BY <1>1
<1> QED
  BY <1>1, <1>2 DEF Current, Members

\* The other dispatches are as they were.
LEMMA OneTyped ==
    ASSUME LocalsTyped, NEW r \in Dispatches, DispatchTyped(r)',
           NEW l, leg' = [leg EXCEPT ![r] = l],
           NEW d, dial' = [dial EXCEPT ![r] = d],
           NEW o, order' = [order EXCEPT ![r] = o],
           NEW n, tried' = [tried EXCEPT ![r] = n],
           NEW S, usable' = [usable EXCEPT ![r] = S]
    PROVE  LocalsTyped'
<1>1. ASSUME NEW u \in Dispatches, u # r PROVE DispatchTyped(u)'
  BY <1>1 DEF LocalsTyped, DispatchTyped
<1> QED
  BY <1>1 DEF LocalsTyped

LEMMA GoTyped ==
    ASSUME LocalsTyped, NEW r \in Dispatches, leg[r] # "idle",
           NEW l \in Legs, l # "idle", Go(r, l)
    PROVE  LocalsTyped'
<1>1. ASSUME NEW u \in Dispatches PROVE DispatchTyped(u)'
  BY <1>1 DEF LocalsTyped, DispatchTyped, Go
<1> QED
  BY <1>1 DEF LocalsTyped, Go

LEMMA RestTyped ==
    ASSUME LocalsTyped, NEW r \in Dispatches, Rest(r)
    PROVE  LocalsTyped'
<1>1. <<>> \in Seq(Sources)
  OBVIOUS
<1>2. DispatchTyped(r)'
  BY <1>1 DEF LocalsTyped, DispatchTyped, Rest, Legs
<1> QED
  BY <1>2, OneTyped DEF Rest

LEMMA TryNextTyped ==
    ASSUME LocalsTyped, NEW r \in Dispatches, leg[r] # "idle", TryNext(r)
    PROVE  LocalsTyped'
<1>1. CASE Rest(r)
  BY <1>1, RestTyped
<1>2. CASE /\ tried[r] + 1 < Len(order[r])
           /\ leg' = [leg EXCEPT ![r] = "try"]
           /\ tried' = [tried EXCEPT ![r] = @ + 1]
           /\ UNCHANGED <<dial, order, usable>>
  <2>1. ASSUME NEW u \in Dispatches PROVE DispatchTyped(u)'
    BY <1>2, <2>1 DEF LocalsTyped, DispatchTyped, Legs
  <2> QED
    BY <1>2, <2>1 DEF LocalsTyped
<1> QED
  BY <1>1, <1>2 DEF TryNext

\* What the rules make of q is q in another order.
LEMMA RulesReorder ==
    ASSUME NEW q \in Seq(Sources), NEW byTag \in TagFilter(q),
           NEW byCanary \in CanaryRouting(byTag), NEW s \in ExperimentSplit(byCanary)
    PROVE  s \in Seq(Sources) /\ Len(s) = Len(q) /\ Members(s) = Members(q)
<1>1. byTag \in Seq(Sources) /\ Len(byTag) = Len(q) /\ Members(byTag) = Members(q)
  BY AheadReorders DEF TagFilter
<1>2. /\ byCanary \in Seq(Sources)
      /\ Len(byCanary) = Len(q)
      /\ Members(byCanary) = Members(q)
  BY <1>1, AheadReorders DEF CanaryRouting
<1> QED
  BY <1>2, AheadReorders DEF ExperimentSplit

\* What a dispatch sets out with.
LEMMA GatherFacts ==
    ASSUME RowsInv, LocalsTyped, NEW r \in Dispatches, NEW d \in Dialogs \union {NoDialog},
           Gather(r, d)
    PROVE  \E s \in Seq(Sources), S \in SUBSET Sources :
             /\ order' = [order EXCEPT ![r] = s]
             /\ usable' = [usable EXCEPT ![r] = S]
             /\ Len(s) > 0 /\ Len(s) = Cardinality(Members(s))
             /\ Members(s) \ reverted = S \ reverted
<1>1. PICK shut \in SUBSET Sources :
        /\ Fit(offers) \ shut # {}
        /\ usable' = [usable EXCEPT ![r] = Fit(meant) \ shut]
        /\ \E q \in Orders(Fit(offers) \ shut) :
            \E byTag \in TagFilter(q) : \E byCanary \in CanaryRouting(byTag) :
                order' \in {[order EXCEPT ![r] = s] : s \in ExperimentSplit(byCanary)}
  BY DEF Gather
<1> DEFINE C == Fit(offers) \ shut
<1>2. PICK q \in Orders(C) :
        \E byTag \in TagFilter(q) : \E byCanary \in CanaryRouting(byTag) :
            order' \in {[order EXCEPT ![r] = s] : s \in ExperimentSplit(byCanary)}
  BY <1>1
<1>3. PICK byTag \in TagFilter(q) : \E byCanary \in CanaryRouting(byTag) :
            order' \in {[order EXCEPT ![r] = s] : s \in ExperimentSplit(byCanary)}
  BY <1>2
<1>c. PICK byCanary \in CanaryRouting(byTag) :
            order' \in {[order EXCEPT ![r] = s] : s \in ExperimentSplit(byCanary)}
  BY <1>3
<1>4. PICK s \in ExperimentSplit(byCanary) : order' = [order EXCEPT ![r] = s]
  BY <1>c
<1>5. C \in SUBSET Sources /\ IsFiniteSet(C) /\ Cardinality(C) \in Nat /\ Cardinality(C) # 0
  BY <1>1, ChoiceAssumption, FS_Subset, FS_CardinalityType, FS_EmptySet DEF Fit
<1>6. q \in Seq(Sources) /\ Len(q) = Cardinality(C) /\ Members(q) = C
  <2> HIDE DEF C
  <2>1. q \in [1 .. Cardinality(C) -> C] /\ Members(q) = C
    BY DEF Orders
  <2> QED
    BY <1>5, <2>1
<1>7. s \in Seq(Sources) /\ Len(s) = Len(q) /\ Members(s) = Members(q)
  BY <1>6, RulesReorder
<1>8. C \ reverted = (Fit(meant) \ shut) \ reverted
  BY DEF RowsInv, DecisionsKept, Fit
<1>9. Fit(meant) \ shut \in SUBSET Sources
  BY DEF Fit
<1>10. Len(s) > 0 /\ Len(s) = Cardinality(Members(s)) /\ Members(s) = C
  <2> HIDE DEF C
  <2> QED
    BY <1>5, <1>6, <1>7
<1>11. Members(s) \ reverted = (Fit(meant) \ shut) \ reverted
  BY <1>8, <1>10
<1> DEFINE S == Fit(meant) \ shut
<1>12. S \in SUBSET Sources /\ usable' = [usable EXCEPT ![r] = S]
      /\ Members(s) \ reverted = S \ reverted
  BY <1>1, <1>9, <1>11
<1> HIDE DEF S
<1> QED
  BY <1>4, <1>7, <1>10, <1>12, <1>6

LEMMA PreferFacts ==
    ASSUME LocalsTyped, NEW r \in Dispatches, Prefer(r)
    PROVE  /\ \E p : order' = [order EXCEPT ![r] = Ahead({p}, @)]
           /\ order'[r] \in Seq(Sources)
           /\ Len(order'[r]) = Len(order[r])
           /\ Members(order'[r]) = Members(order[r])
<1>1. PICK p : order' = [order EXCEPT ![r] = Ahead({p}, @)]
  BY DEF Prefer
<1>2. order[r] \in Seq(Sources) /\ order'[r] = Ahead({p}, order[r])
  BY <1>1 DEF LocalsTyped, DispatchTyped
<1> QED
  BY <1>1, <1>2, AheadReorders

\* A step of one dispatch leaves the locals of the others alone.
LEMMA OthersStay ==
    ASSUME RowsInv, LocalsTyped, NEW r \in Dispatches, DispatchStep(r),
           NEW u \in Dispatches, u # r
    PROVE  /\ leg'[u] = leg[u] /\ dial'[u] = dial[u] /\ tried'[u] = tried[u]
           /\ order'[u] = order[u] /\ usable'[u] = usable[u]
<1>1. ASSUME NEW d \in Dialogs \union {NoDialog}, Gather(r, d)
      PROVE  order'[u] = order[u] /\ usable'[u] = usable[u] /\ leg'[u] = leg[u]
             /\ dial'[u] = dial[u] /\ tried'[u] = tried[u]
  <2>1. /\ \E s : order' = [order EXCEPT ![r] = s]
        /\ \E S : usable' = [usable EXCEPT ![r] = S]
    BY <1>1, GatherFacts
  <2> QED
    BY <1>1, <2>1 DEF Gather, LocalsTyped
<1>2. CASE Prefer(r)
  <2>1. \E p : order' = [order EXCEPT ![r] = Ahead({p}, @)]
    BY <1>2, PreferFacts
  <2> QED
    BY <1>2, <2>1 DEF Prefer, LocalsTyped
<1>3. CASE Rebuff(r) \/ TallyMiss(r) \/ CountSuccess(r) \/ Perish(r)
  BY <1>3 DEF Rebuff, TallyMiss, CountSuccess, Perish, TryNext, Rest, LocalsTyped
<1>4. CASE Miss(r) \/ Answered(r) \/ KeepAffinity(r)
  BY <1>4 DEF Miss, Answered, KeepAffinity, Go, LocalsTyped
<1> QED
  BY <1>1, <1>2, <1>3, <1>4 DEF DispatchStep

LEMMA LapseType ==
    ASSUME lapses \in Nat, NEW happens \in BOOLEAN, Lapse(happens)
    PROVE  lapses' \in Nat
BY DEF Lapse

\* A dispatch keeps its locals in their types.
LEMMA DispatchTypedStep ==
    ASSUME RowsInv, LocalsTyped, NEW r \in Dispatches, DispatchStep(r)
    PROVE  LocalsTyped'
<1>1. ASSUME NEW d \in Dialogs \union {NoDialog}, Gather(r, d)
      PROVE  LocalsTyped'
  <2>1. PICK s \in Seq(Sources), S \in SUBSET Sources :
          /\ order' = [order EXCEPT ![r] = s]
          /\ usable' = [usable EXCEPT ![r] = S]
          /\ Len(s) > 0
    BY <1>1, GatherFacts
  <2>2. /\ leg' = [leg EXCEPT ![r] = "ranked"]
        /\ dial' = [dial EXCEPT ![r] = d]
        /\ tried' = tried /\ leg[r] = "idle"
    BY <1>1 DEF Gather
  <2>3. /\ leg'[r] = "ranked" /\ dial'[r] = d /\ order'[r] = s /\ usable'[r] = S
        /\ tried'[r] = 0
    BY <2>1, <2>2 DEF LocalsTyped, DispatchTyped
  <2>4. DispatchTyped(r)'
    BY <2>1, <2>3 DEF DispatchTyped, Legs
  <2>5. ASSUME NEW u \in Dispatches, u # r PROVE DispatchTyped(u)'
    BY <2>1, <2>2, <2>5 DEF LocalsTyped, DispatchTyped
  <2> QED
    BY <2>1, <2>2, <2>4, <2>5 DEF LocalsTyped
<1>2. CASE Prefer(r)
  <2>1. /\ leg' = [leg EXCEPT ![r] = "try"] /\ leg[r] = "ranked"
        /\ UNCHANGED <<dial, tried, usable>>
    BY <1>2 DEF Prefer
  <2>2. PICK p : order' = [order EXCEPT ![r] = Ahead({p}, @)]
    BY <1>2, PreferFacts
  <2>3. order'[r] \in Seq(Sources) /\ Len(order'[r]) = Len(order[r])
    BY <1>2, PreferFacts
  <2>4. DispatchTyped(r)'
    BY <2>1, <2>3 DEF LocalsTyped, DispatchTyped, Legs
  <2>5. ASSUME NEW u \in Dispatches, u # r PROVE DispatchTyped(u)'
    BY <2>1, <2>2, <2>5 DEF LocalsTyped, DispatchTyped
  <2> QED
    BY <2>1, <2>2, <2>4, <2>5 DEF LocalsTyped
<1>3. CASE Rebuff(r) \/ TallyMiss(r)
  BY <1>3, TryNextTyped DEF Rebuff, TallyMiss
<1>4. CASE Miss(r)
  BY <1>4, GoTyped DEF Miss, Legs
<1>5. CASE Answered(r)
  BY <1>5, GoTyped DEF Answered, Legs
<1>6. CASE KeepAffinity(r)
  BY <1>6, GoTyped DEF KeepAffinity, Legs
<1>7. CASE CountSuccess(r) \/ Perish(r)
  BY <1>7, RestTyped DEF CountSuccess, Perish
<1> QED
  BY <1>1, <1>2, <1>3, <1>4, <1>5, <1>6, <1>7 DEF DispatchStep

LEMMA SessionsTypedStep ==
    ASSUME LocalsTyped, SessionsTyped, NEW r \in Dispatches, DispatchStep(r)
    PROVE  SessionsTyped'
<1> USE DEF SessionsTyped
<1>d. dial[r] \in Dialogs \union {NoDialog}
  BY DEF LocalsTyped, DispatchTyped
<1>1. CASE \E d \in Dialogs \union {NoDialog} : Gather(r, d)
  BY <1>1 DEF Gather
<1>2. CASE Prefer(r)
  BY <1>2, <1>d, LapseType DEF Prefer
<1>3. CASE Rebuff(r) \/ TallyMiss(r) \/ Miss(r) \/ CountSuccess(r)
  BY <1>3 DEF Rebuff, TallyMiss, Miss, CountSuccess
<1>4. CASE Answered(r)
  <2>1. Current(r) \in Sources
    BY <1>4, CurrentSource DEF Answered
  <2> QED
    BY <1>4, <1>d, <2>1 DEF Answered
<1>5. CASE KeepAffinity(r)
  <2>1. Current(r) \in Sources
    BY <1>5, CurrentSource DEF KeepAffinity
  <2> QED
    BY <1>5, <1>d, <2>1, LapseType DEF KeepAffinity
<1>6. CASE Perish(r)
  BY <1>6, <1>d, LapseType DEF Perish
<1> QED
  BY <1>1, <1>2, <1>3, <1>4, <1>5, <1>6 DEF DispatchStep

LEMMA ChoiceTypedInit == ChoiceInit => ChoiceTyped
<1> SUFFICES ASSUME ChoiceInit PROVE LocalsTyped /\ SessionsTyped
  BY RowsInit DEF ChoiceTyped
<1>1. <<>> \in Seq(Sources)
  OBVIOUS
<1>2. LocalsTyped
  BY <1>1 DEF ChoiceInit, LocalsTyped, DispatchTyped, Legs
<1>3. SessionsTyped
  BY DEF ChoiceInit, SessionsTyped
<1> QED
  BY <1>2, <1>3

LEMMA ChoiceTypedStep == ChoiceTyped /\ [ChoiceNext]_choiceVars => ChoiceTyped'
<1> SUFFICES ASSUME RowsInv, LocalsTyped, SessionsTyped, [ChoiceNext]_choiceVars
             PROVE  LocalsTyped' /\ SessionsTyped'
  BY RowsStep DEF ChoiceTyped
<1>1. CASE \E r \in Dispatches : DispatchStep(r)
  BY <1>1, DispatchTypedStep, SessionsTypedStep
<1>2. ASSUME UNCHANGED <<leg, dial, order, tried, usable>>
      PROVE  LocalsTyped'
  BY <1>2 DEF LocalsTyped, DispatchTyped
<1>3. ASSUME NEW d \in Dialogs, SessionExpires(d)
      PROVE  LocalsTyped' /\ SessionsTyped'
  BY <1>2, <1>3, LapseType DEF SessionExpires, SessionsTyped
<1>4. ASSUME UNCHANGED <<affinity, last, adrift, used, lapses>>,
             Change \/ UNCHANGED changes
      PROVE  SessionsTyped'
  BY <1>4 DEF SessionsTyped, Change
<1> QED
  BY <1>1, <1>2, <1>3, <1>4
  DEF ChoiceNext, SessionExpires, ReadOffer, SaveOffer, BatchStatus, DeleteOffer, choiceVars

\* Sources, dispatches and sessions keep their types, and a dispatch under way has
\* a source to turn to: ChoiceTypeOK, for any number of everything.
THEOREM ChoiceTypeInvariant == ChoiceSpec => []ChoiceTypeOK
<1>1. ChoiceTyped => ChoiceTypeOK
  BY DEF ChoiceTyped, RowsInv, RowsOK, LocalsTyped, DispatchTyped, SessionsTyped,
         ChoiceTypeOK
<1> QED
  BY <1>1, ChoiceTypedInit, ChoiceTypedStep, PTL DEF ChoiceSpec

-----------------------------------------------------------------------------
(* The dispatches: no source is lost.                                       *)

\* ChainIsWhole for one dispatch.
Whole(r) ==
    leg[r] # "idle" =>
        /\ Len(order[r]) = Cardinality(Members(order[r]))
        /\ Members(order[r]) \ reverted = usable[r] \ reverted

\* A dispatch whose candidates stay, while more rows may be reverted.
LEMMA SameWhole ==
    ASSUME NEW r, Whole(r), leg[r] # "idle" \/ leg'[r] = "idle", usable'[r] = usable[r],
           Len(order'[r]) = Len(order[r]), Members(order'[r]) = Members(order[r]),
           reverted \subseteq reverted'
    PROVE  Whole(r)'
BY DEF Whole

LEMMA DispatchWhole ==
    ASSUME ChoiceTyped, ChainIsWhole, NEW r \in Dispatches, DispatchStep(r),
           NEW u \in Dispatches
    PROVE  Whole(u)'
<1>t. LocalsTyped /\ RowsInv /\ Whole(u) /\ Whole(r)
  BY DEF ChoiceTyped, ChainIsWhole, Whole
<1>v. reverted' = reverted
  BY DEF DispatchStep, Gather, Prefer, Rebuff, Miss, TallyMiss, Answered, KeepAffinity,
         CountSuccess, Perish
<1>1. CASE u # r
  <2>1. leg'[u] = leg[u] /\ order'[u] = order[u] /\ usable'[u] = usable[u]
    BY <1>1, <1>t, OthersStay
  <2> QED
    BY <1>t, <1>v, <2>1 DEF Whole
<1>2. CASE u = r
  <2>1. ASSUME NEW d \in Dialogs \union {NoDialog}, Gather(r, d)
        PROVE  Whole(r)'
    <3>1. PICK s \in Seq(Sources), S \in SUBSET Sources :
            /\ order' = [order EXCEPT ![r] = s]
            /\ usable' = [usable EXCEPT ![r] = S]
            /\ Len(s) = Cardinality(Members(s))
            /\ Members(s) \ reverted = S \ reverted
      BY <1>t, <2>1, GatherFacts
    <3>2. order'[r] = s /\ usable'[r] = S
      BY <1>t, <3>1 DEF LocalsTyped
    <3> QED
      BY <1>v, <3>1, <3>2 DEF Whole
  <2>2. CASE Prefer(r)
    <3>1. leg[r] # "idle" /\ usable' = usable
      BY <2>2 DEF Prefer
    <3> QED
      BY <1>2, <1>t, <1>v, <2>2, <3>1, PreferFacts, SameWhole
  <2>3. CASE Rest(r)
    BY <1>2, <1>t, <2>3 DEF Rest, Whole, LocalsTyped
  <2>4. CASE TryNext(r) /\ ~Rest(r) /\ leg[r] # "idle"
    BY <1>2, <1>t, <1>v, <2>4 DEF TryNext, Whole
  <2>5. CASE Miss(r) \/ Answered(r) \/ KeepAffinity(r)
    BY <1>2, <1>t, <1>v, <2>5 DEF Miss, Answered, KeepAffinity, Go, Whole
  <2> QED
    BY <1>2, <2>1, <2>2, <2>3, <2>4, <2>5
    DEF DispatchStep, Rebuff, TallyMiss, CountSuccess, Perish
<1> QED
  BY <1>1, <1>2

\* The order of a dispatch has each source that is fit for it once, and no other:
\* the rules only reorder, and the rows say what was decided, unless reverted.
THEOREM ChainsAreWhole == ChoiceSpec => []ChainIsWhole
<1>1. ChoiceInit => ChainIsWhole
  BY DEF ChoiceInit, ChainIsWhole
<1>2. ChoiceTyped /\ ChainIsWhole /\ [ChoiceNext]_choiceVars => ChainIsWhole'
  <2> SUFFICES ASSUME ChoiceTyped, ChainIsWhole, [ChoiceNext]_choiceVars,
                      NEW r \in Dispatches
               PROVE  Whole(r)'
    BY DEF ChainIsWhole, Whole
  <2>1. CASE \E u \in Dispatches : DispatchStep(u)
    BY <2>1, DispatchWhole
  <2>2. CASE UNCHANGED <<leg, order, usable>> /\ reverted \subseteq reverted'
    BY <2>2 DEF ChainIsWhole, Whole
  <2>3. ASSUME NEW e \in Admins, SaveOffer(e)
        PROVE  UNCHANGED <<leg, order, usable>> /\ reverted \subseteq reverted'
    BY <2>3 DEF SaveOffer
  <2> QED
    BY <2>1, <2>2, <2>3
    DEF ChoiceNext, SessionExpires, ReadOffer, BatchStatus, DeleteOffer, choiceVars
<1> QED
  BY <1>1, <1>2, ChoiceTypedInit, ChoiceTypedStep, PTL DEF ChoiceSpec

-----------------------------------------------------------------------------
(* The dispatches: sessions stick.                                          *)

Busy == {"try", "tally", "keep"}
Serves(r, d, legs) == dial[r] = d /\ leg[r] \in legs

\* For a session that is not adrift: whoever writes its key is alone and writes
\* the source that answered last; when nobody does, the key says so; and whoever
\* has read the key begins with that source.
SessionInv(d) ==
    /\ \A r, u \in Dispatches : Serves(r, d, {"keep"}) /\ Serves(u, d, Busy) => r = u
    /\ \A r \in Dispatches : Serves(r, d, {"keep"}) => Current(r) = last[d]
    /\ (\A r \in Dispatches : ~Serves(r, d, {"keep"})) => affinity[d] = last[d]
    /\ \A r \in Dispatches :
         Serves(r, d, {"try"}) /\ tried[r] = 0 /\ last[d] \in Members(order[r])
             => order[r][1] = last[d]

StickInv == \A d \in Dialogs \ adrift : SessionInv(d)

Same(u) ==
    leg'[u] = leg[u] /\ dial'[u] = dial[u] /\ tried'[u] = tried[u] /\ order'[u] = order[u]

\* A step of r that has to do with neither the key of d nor its last answer.
LEMMA QuietKeeps ==
    ASSUME NEW d \in Dialogs, SessionInv(d), NEW r \in Dispatches,
           \A u \in Dispatches : u # r => Same(u),
           ~Serves(r, d, {"keep"}), ~Serves(r, d, {"keep"})',
           Serves(r, d, Busy)' => Serves(r, d, Busy),
           ~(Serves(r, d, {"try"})' /\ tried'[r] = 0),
           affinity'[d] = affinity[d], last'[d] = last[d]
    PROVE  SessionInv(d)'
<1>1. \A u \in Dispatches : u # r =>
        /\ \A L : Serves(u, d, L)' <=> Serves(u, d, L)
        /\ Current(u)' = Current(u)
        /\ tried'[u] = tried[u] /\ order'[u] = order[u]
  BY DEF Same, Serves, Current
<1>2. \A t, u \in Dispatches : Serves(t, d, {"keep"})' /\ Serves(u, d, Busy)' => t = u
  BY <1>1 DEF SessionInv
<1>3. \A u \in Dispatches : Serves(u, d, {"keep"})' => Current(u)' = last[d]
  BY <1>1 DEF SessionInv
<1>4. (\A u \in Dispatches : ~Serves(u, d, {"keep"})') => affinity[d] = last[d]
  BY <1>1 DEF SessionInv
<1>5. \A u \in Dispatches :
        Serves(u, d, {"try"})' /\ tried'[u] = 0 /\ last[d] \in Members(order'[u])
            => order'[u][1] = last[d]
  BY <1>1 DEF SessionInv
<1>6. SessionInv(d)' <=>
        /\ \A t, u \in Dispatches : Serves(t, d, {"keep"})' /\ Serves(u, d, Busy)' => t = u
        /\ \A u \in Dispatches : Serves(u, d, {"keep"})' => Current(u)' = last'[d]
        /\ (\A u \in Dispatches : ~Serves(u, d, {"keep"})') => affinity'[d] = last'[d]
        /\ \A u \in Dispatches :
             Serves(u, d, {"try"})' /\ tried'[u] = 0 /\ last'[d] \in Members(order[u])'
                 => order'[u][1] = last'[d]
  BY DEF SessionInv
<1> QED
  BY <1>2, <1>3, <1>4, <1>5, <1>6 DEF Members

\* The key is read: by (b) it names the source that answered last.
LEMMA PreferSticks ==
    ASSUME ChoiceTyped, NEW r \in Dispatches, Prefer(r), NEW d \in Dialogs,
           d \notin adrift', dial[r] = d, SessionInv(d),
           \A u \in Dispatches : u # r => Same(u)
    PROVE  SessionInv(d)'
<1>n. d # NoDialog
  BY ChoiceAssumption
<1>1. /\ leg[r] = "ranked" /\ leg' = [leg EXCEPT ![r] = "try"]
      /\ UNCHANGED <<affinity, dial, tried, last>>
  BY DEF Prefer
<1>2. PICK lost \in BOOLEAN :
        /\ order' = [order EXCEPT ![r] =
                Ahead({IF d = NoDialog \/ lost THEN NoSource ELSE affinity[d]}, @)]
        /\ adrift' = IF d # NoDialog /\ (lost \/ Beside(r, d, {"keep"}))
                     THEN adrift \union {d} ELSE adrift
  BY DEF Prefer
<1>3. ~lost /\ ~Beside(r, d, {"keep"})
  BY <1>2, <1>n
<1>4. \A u \in Dispatches : ~Serves(u, d, {"keep"})
  BY <1>1, <1>3 DEF Beside, Serves
<1>5. affinity[d] = last[d]
  BY <1>4 DEF SessionInv
<1>6. order[r] \in Seq(Sources) /\ order'[r] = Ahead({last[d]}, order[r])
  BY <1>2, <1>3, <1>5, <1>n DEF ChoiceTyped, LocalsTyped, DispatchTyped
<1>7. last[d] \in Members(order'[r]) => order'[r][1] = last[d]
  BY <1>6, AheadFirst, AheadReorders
<1>8. leg'[r] = "try"
  BY <1>1 DEF ChoiceTyped, LocalsTyped
<1>9. \A u \in Dispatches : ~Serves(u, d, {"keep"})'
  BY <1>4, <1>8 DEF Same, Serves
<1>10. \A u \in Dispatches :
         (/\ u # r /\ Serves(u, d, {"try"})' /\ tried'[u] = 0
          /\ last[d] \in Members(order'[u]))
             => order'[u][1] = last[d]
  BY DEF Same, Serves, SessionInv
<1> QED
  BY <1>1, <1>5, <1>7, <1>9, <1>10 DEF SessionInv, Members

\* The source answers: no other request of the session is at work.
LEMMA AnswerSticks ==
    ASSUME ChoiceTyped, NEW r \in Dispatches, Answered(r), NEW d \in Dialogs,
           d \notin adrift', dial[r] = d,
           \A u \in Dispatches : u # r => Same(u)
    PROVE  SessionInv(d)'
<1>n. d # NoDialog
  BY ChoiceAssumption
<1>1. /\ leg' = [leg EXCEPT ![r] = "keep"] /\ UNCHANGED <<dial, order, tried>>
      /\ last' = [last EXCEPT ![d] = Current(r)]
      /\ ~Beside(r, d, Busy)
  BY <1>n DEF Answered, Go, Busy
<1>2. leg'[r] = "keep" /\ last'[d] = Current(r) /\ Current(r)' = Current(r)
  BY <1>1 DEF ChoiceTyped, LocalsTyped, SessionsTyped, Current
<1>3. \A u \in Dispatches : u # r => ~Serves(u, d, Busy)'
  BY <1>1 DEF Same, Serves, Beside
<1>4. \A u \in Dispatches : u # r => ~Serves(u, d, {"keep"})' /\ ~Serves(u, d, {"try"})'
  BY <1>3 DEF Serves, Busy
<1>5. Serves(r, d, {"keep"})' /\ ~Serves(r, d, {"try"})'
  BY <1>1, <1>2 DEF Serves
<1> QED
  BY <1>2, <1>3, <1>4, <1>5 DEF SessionInv

\* The key is written: it names the source that answered last again.
LEMMA KeepSticks ==
    ASSUME ChoiceTyped, StickInv, NEW r \in Dispatches, KeepAffinity(r), NEW d \in Dialogs,
           d \notin adrift', dial[r] = d,
           \A u \in Dispatches : u # r => Same(u)
    PROVE  SessionInv(d)'
<1>n. d # NoDialog
  BY ChoiceAssumption
<1>1. /\ leg[r] = "keep" /\ leg' = [leg EXCEPT ![r] = "count"]
      /\ UNCHANGED <<dial, order, tried, last>>
  BY DEF KeepAffinity, Go
<1>2. PICK lost \in BOOLEAN :
        /\ affinity' = IF lost THEN affinity ELSE [affinity EXCEPT ![d] = Current(r)]
        /\ adrift' = IF lost THEN adrift \union {d}
                     ELSE IF last[d] = Current(r) /\ ~Beside(r, d, {"try", "tally", "keep"})
                     THEN adrift \ {d} ELSE adrift
  BY <1>n DEF KeepAffinity
<1>3. ~lost /\ affinity'[d] = Current(r)
  BY <1>2 DEF ChoiceTyped, SessionsTyped
<1>4. leg'[r] = "count" /\ ~Serves(r, d, Busy)'
  BY <1>1 DEF ChoiceTyped, LocalsTyped, Serves, Busy
<1>5. last[d] = Current(r) /\ \A u \in Dispatches : u # r => ~Serves(u, d, Busy)
  <2>1. CASE d \in adrift
    BY <1>2, <1>3, <2>1 DEF Beside, Serves, Busy
  <2>2. CASE d \notin adrift
    BY <1>1, <2>2 DEF StickInv, SessionInv, Serves, Busy
  <2> QED
    BY <2>1, <2>2
<1>6. \A u \in Dispatches : ~Serves(u, d, Busy)'
  BY <1>4, <1>5 DEF Same, Serves
<1>7. \A u \in Dispatches : ~Serves(u, d, {"keep"})' /\ ~Serves(u, d, {"try"})'
  BY <1>6 DEF Serves, Busy
<1> QED
  BY <1>1, <1>3, <1>5, <1>6, <1>7 DEF SessionInv

LEMMA DispatchSticks ==
    ASSUME ChoiceTyped, StickInv, NEW r \in Dispatches, DispatchStep(r), NEW d \in Dialogs,
           d \notin adrift'
    PROVE  SessionInv(d)'
<1>t. LocalsTyped /\ RowsInv /\ SessionsTyped
  BY DEF ChoiceTyped
<1>n. d # NoDialog
  BY ChoiceAssumption
<1>o. \A u \in Dispatches : u # r => Same(u)
  BY <1>t, OthersStay DEF Same
<1>1. ASSUME NEW e \in Dialogs \union {NoDialog}, Gather(r, e)
      PROVE  SessionInv(d)'
  <2>1. leg[r] = "idle" /\ leg'[r] = "ranked" /\ UNCHANGED <<affinity, last, adrift>>
    BY <1>1, <1>t DEF Gather, LocalsTyped
  <2>2. ~Serves(r, d, {"keep"}) /\ ~Serves(r, d, Busy)' /\ ~Serves(r, d, {"keep"})'
        /\ ~Serves(r, d, {"try"})'
    BY <2>1 DEF Serves, Busy
  <2>3. SessionInv(d)
    BY <2>1 DEF StickInv
  <2> QED
    BY <1>o, <2>1, <2>2, <2>3, QuietKeeps
<1>2. CASE Prefer(r)
  <2>1. leg[r] = "ranked" /\ leg'[r] = "try" /\ dial' = dial /\ UNCHANGED <<affinity, last>>
    BY <1>2, <1>t DEF Prefer, LocalsTyped
  <2>2. SessionInv(d)
    BY <1>2 DEF Prefer, StickInv
  <2>3. CASE dial[r] = d
    BY <1>2, <1>o, <2>2, <2>3, PreferSticks
  <2>4. CASE dial[r] # d
    <3>1. ~Serves(r, d, {"keep"}) /\ ~Serves(r, d, Busy)' /\ ~Serves(r, d, {"keep"})'
          /\ ~Serves(r, d, {"try"})'
      BY <2>1, <2>4 DEF Serves
    <3> QED
      BY <1>o, <2>1, <2>2, <3>1, QuietKeeps
  <2> QED
    BY <2>3, <2>4
<1>3. CASE Rebuff(r) \/ TallyMiss(r)
  <2>1. leg[r] \in {"try", "tally"} /\ TryNext(r) /\ UNCHANGED <<affinity, last, adrift>>
    BY <1>3 DEF Rebuff, TallyMiss
  <2>2. SessionInv(d)
    BY <2>1 DEF StickInv
  <2>3. \/ leg'[r] = "idle"
        \/ leg'[r] = "try" /\ tried'[r] = tried[r] + 1 /\ dial' = dial
    BY <1>t, <2>1 DEF TryNext, Rest, LocalsTyped
  <2>4. tried[r] \in Nat
    BY <1>t DEF LocalsTyped, DispatchTyped
  <2>5. /\ ~Serves(r, d, {"keep"}) /\ ~Serves(r, d, {"keep"})'
        /\ Serves(r, d, Busy)' => Serves(r, d, Busy)
        /\ ~(Serves(r, d, {"try"})' /\ tried'[r] = 0)
    BY <2>1, <2>3, <2>4 DEF Serves, Busy
  <2> QED
    BY <1>o, <2>1, <2>2, <2>5, QuietKeeps
<1>4. CASE Miss(r)
  <2>1. leg[r] = "try" /\ leg'[r] = "tally" /\ dial' = dial
        /\ UNCHANGED <<affinity, last, adrift>>
    BY <1>4, <1>t DEF Miss, Go, LocalsTyped
  <2>2. SessionInv(d)
    BY <2>1 DEF StickInv
  <2>3. /\ ~Serves(r, d, {"keep"}) /\ ~Serves(r, d, {"keep"})'
        /\ Serves(r, d, Busy)' => Serves(r, d, Busy)
        /\ ~Serves(r, d, {"try"})'
    BY <2>1 DEF Serves, Busy
  <2> QED
    BY <1>o, <2>1, <2>2, <2>3, QuietKeeps
<1>5. CASE Answered(r)
  <2>1. CASE dial[r] = d
    BY <1>5, <1>o, <2>1, AnswerSticks
  <2>2. CASE dial[r] # d
    <3>1. dial' = dial /\ affinity' = affinity /\ last'[d] = last[d]
      BY <1>5, <1>t, <2>2 DEF Answered, Go, SessionsTyped
    <3>2. SessionInv(d)
      BY <1>5 DEF Answered, StickInv
    <3>3. ~Serves(r, d, {"keep"}) /\ ~Serves(r, d, Busy)' /\ ~Serves(r, d, {"keep"})'
          /\ ~Serves(r, d, {"try"})'
      BY <2>2, <3>1 DEF Serves
    <3> QED
      BY <1>o, <3>1, <3>2, <3>3, QuietKeeps
  <2> QED
    BY <2>1, <2>2
<1>6. CASE KeepAffinity(r)
  <2>1. CASE dial[r] = d
    BY <1>6, <1>o, <2>1, KeepSticks
  <2>2. CASE dial[r] # d
    <3>1. dial' = dial /\ last' = last /\ affinity'[d] = affinity[d]
      BY <1>6, <1>t, <2>2 DEF KeepAffinity, Go, SessionsTyped
    <3>2. d \notin adrift
      BY <1>6, <2>2 DEF KeepAffinity
    <3>3. SessionInv(d)
      BY <3>2 DEF StickInv
    <3>4. ~Serves(r, d, {"keep"}) /\ ~Serves(r, d, Busy)' /\ ~Serves(r, d, {"keep"})'
          /\ ~Serves(r, d, {"try"})'
      BY <2>2, <3>1 DEF Serves
    <3> QED
      BY <1>o, <3>1, <3>3, <3>4, QuietKeeps
  <2> QED
    BY <2>1, <2>2
<1>7. CASE CountSuccess(r) \/ Perish(r)
  <2>1. leg'[r] = "idle" /\ UNCHANGED <<affinity, last>> /\ d \notin adrift
    BY <1>7, <1>t DEF CountSuccess, Perish, Rest, LocalsTyped
  <2>2. ~Serves(r, d, {"keep"})
    BY <1>7, <1>n DEF CountSuccess, Perish, Serves
  <2>3. ~Serves(r, d, Busy)' /\ ~Serves(r, d, {"keep"})' /\ ~Serves(r, d, {"try"})'
    BY <2>1 DEF Serves, Busy
  <2>4. SessionInv(d)
    BY <2>1 DEF StickInv
  <2> QED
    BY <1>o, <2>1, <2>2, <2>3, <2>4, QuietKeeps
<1> QED
  BY <1>1, <1>2, <1>3, <1>4, <1>5, <1>6, <1>7 DEF DispatchStep

\* A session goes on with the source that answered it last, however the rules
\* reorder the candidates, as long as its key was neither lost nor written by
\* overlapping requests: SessionSticks, for any number of dispatches.
THEOREM SessionsStick == ChoiceSpec => []SessionSticks
<1>1. ChoiceInit => StickInv
  BY DEF ChoiceInit, StickInv, SessionInv, Serves
<1>2. ChoiceTyped /\ StickInv /\ [ChoiceNext]_choiceVars => StickInv'
  <2> SUFFICES ASSUME ChoiceTyped, StickInv, [ChoiceNext]_choiceVars,
                      NEW d \in Dialogs, d \notin adrift'
               PROVE  SessionInv(d)'
    BY DEF StickInv
  <2>1. CASE \E r \in Dispatches : DispatchStep(r)
    BY <2>1, DispatchSticks
  <2>2. ASSUME UNCHANGED <<leg, dial, order, tried, last>>, affinity'[d] = affinity[d],
               d \notin adrift
        PROVE  SessionInv(d)'
    BY <2>2 DEF StickInv, SessionInv, Serves, Current, Members
  <2>3. ASSUME NEW e \in Dialogs, SessionExpires(e)
        PROVE  SessionInv(d)'
    <3>1. affinity'[d] = affinity[d] /\ d \notin adrift
      BY <2>3 DEF SessionExpires, ChoiceTyped, SessionsTyped
    <3> QED
      BY <2>2, <2>3, <3>1 DEF SessionExpires
  <2> QED
    BY <2>1, <2>2, <2>3
    DEF ChoiceNext, ReadOffer, SaveOffer, BatchStatus, DeleteOffer, choiceVars
<1>3. ChoiceTyped /\ StickInv => SessionSticks
  <2> SUFFICES ASSUME ChoiceTyped, StickInv, NEW r \in Dispatches, leg[r] = "try",
                      tried[r] = 0, dial[r] # NoDialog, dial[r] \notin adrift,
                      last[dial[r]] \in Members(order[r])
               PROVE  Current(r) = last[dial[r]]
    BY DEF SessionSticks
  <2>1. dial[r] \in Dialogs
    BY DEF ChoiceTyped, LocalsTyped, DispatchTyped
  <2> QED
    BY <2>1 DEF StickInv, SessionInv, Serves, Current
<1> QED
  BY <1>1, <1>2, <1>3, ChoiceTypedInit, ChoiceTypedStep, PTL DEF ChoiceSpec
=============================================================================
