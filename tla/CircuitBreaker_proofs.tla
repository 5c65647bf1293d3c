----------------------- MODULE CircuitBreaker_proofs -----------------------
(***************************************************************************)
(* What CircuitBreaker guarantees for any number of requests, operators,   *)
(* lost commands and deaths, and all thresholds.                           *)
(***************************************************************************)
EXTENDS CircuitBreaker, TLAPS

USE DEF keys, locals, breakerHistory

(***************************************************************************)
(* Types: what callers remember, then what is stored.                      *)
(***************************************************************************)
Counters == [requests : 0 .. HalfOpenMax, successes : 0 .. SuccessesToClose]

CallersOK ==
    /\ at \in [Callers -> Places]
    /\ task \in [Callers -> {"admit", "success", "failure"}]
    /\ saw \in [Callers -> Circuits]
    /\ read \in [Callers -> Counters]
    /\ \A c \in Callers : at[c] = "count" => read[c].requests < HalfOpenMax
    /\ gone \in [Callers -> BOOLEAN]
    /\ backed \in [Callers -> BOOLEAN]

StoredOK ==
    /\ circuit \in Circuits
    /\ window \in BOOLEAN
    /\ failures \in 0 .. Threshold
    /\ probes \in Counters
    /\ row \in BOOLEAN

HistoryOK ==
    /\ disturbances \in Nat
    /\ admitted \in Nat
    /\ {tainted, outdated, kept, rushed, warranted} \subseteq BOOLEAN

LEMMA Parts == BreakerTypeOK <=> CallersOK /\ StoredOK /\ HistoryOK
BY DEF BreakerTypeOK, CallersOK, StoredOK, HistoryOK, Counters

LEMMA ZeroType == Zero \in Counters
BY BreakerAssumption DEF Zero, Counter, Counters

LEMMA FinishType ==
    ASSUME CallersOK, NEW c \in Callers, Finish(c)
    PROVE  CallersOK'
BY ZeroType DEF CallersOK, Finish, Places, Circuits

LEMMA GoOnType ==
    ASSUME CallersOK, NEW c \in Callers, NEW p \in Places \ {"count"}, GoOn(c, p)
    PROVE  CallersOK'
BY DEF CallersOK, GoOn, Goto

LEMMA SettleType ==
    ASSUME CallersOK, NEW c \in Callers, NEW s \in Circuits, Settle(c, s)
    PROVE  CallersOK'
<1>1. After(task[c], s) \in Places \ {"count"}
  BY DEF After, Places, CallersOK
<1>2. CASE After(task[c], s) = "idle"
  BY <1>2, FinishType DEF Settle
<1>3. CASE After(task[c], s) # "idle"
  BY <1>1, <1>3 DEF Settle, CallersOK, Goto, Circuits
<1> QED
  BY <1>2, <1>3

LEMMA DisturbType ==
    ASSUME disturbances \in Nat
    PROVE  /\ Disturb => disturbances' \in Nat
           /\ \A lost \in BOOLEAN : MaybeLost(lost) => disturbances' \in Nat
BY DEF Disturb, MaybeLost

LEMMA ForgetType ==
    ASSUME ForgetProbes
    PROVE  /\ probes' \in Counters
           /\ admitted' \in Nat
           /\ tainted' \in BOOLEAN
BY ZeroType DEF ForgetProbes

\* The type invariant: callers are at a command of the breaker, no counter
\* exceeds its limit, and who is about to count a probe has read a free place.
THEOREM TypeInvariant == BreakerSpec => []BreakerTypeOK
<1>1. BreakerInit => BreakerTypeOK
  <2> SUFFICES ASSUME BreakerInit
               PROVE  CallersOK /\ StoredOK /\ HistoryOK
    BY Parts
  <2>1. CallersOK
    BY ZeroType DEF BreakerInit, CallersOK, Places, Circuits
  <2>2. StoredOK
    <3>1. failures \in 0 .. Threshold
      BY BreakerAssumption DEF BreakerInit
    <3> QED
      BY <3>1, ZeroType DEF BreakerInit, StoredOK, Circuits
  <2>3. HistoryOK
    BY DEF BreakerInit, HistoryOK
  <2> QED
    BY <2>1, <2>2, <2>3
<1>2. BreakerTypeOK /\ [BreakerNext]_breakerVars => BreakerTypeOK'
  <2> SUFFICES ASSUME CallersOK, StoredOK, HistoryOK, [BreakerNext]_breakerVars
               PROVE  CallersOK' /\ StoredOK' /\ HistoryOK'
    BY DEF BreakerTypeOK, CallersOK, StoredOK, HistoryOK, Counters
  <2> USE DEF StoredOK, HistoryOK
  <2>1. ASSUME NEW c \in Callers, GetCircuitState(c)
        PROVE  CallersOK' /\ StoredOK' /\ HistoryOK'
    <3>1. CASE ReadState(c)
      BY <3>1, SettleType, GoOnType, DisturbType DEF ReadState, Places, Circuits
    <3>2. CASE LookWindow(c)
      BY <3>2, SettleType, GoOnType, DisturbType DEF LookWindow, Places, Circuits
    <3>3. CASE TurnHalfOpen(c)
      BY <3>3, SettleType, DisturbType DEF TurnHalfOpen, Circuits
    <3> QED
      BY <2>1, <3>1, <3>2, <3>3 DEF GetCircuitState
  <2>2. ASSUME NEW c \in Callers, CanExecute(c)
        PROVE  CallersOK' /\ StoredOK' /\ HistoryOK'
    <3>1. CASE ReadProbes(c)
      <4>1. PICK lost \in BOOLEAN :
              /\ LET counter == IF lost THEN Zero ELSE probes IN
                 IF counter.requests >= HalfOpenMax
                 THEN Finish(c)
                 ELSE /\ Goto(c, "count")
                      /\ read' = [read EXCEPT ![c] = counter]
                      /\ UNCHANGED <<task, saw, gone, backed>>
              /\ MaybeLost(lost)
        BY <3>1 DEF ReadProbes
      <4> DEFINE counter == IF lost THEN Zero ELSE probes
      <4>2. counter \in Counters
        BY ZeroType
      <4>3. CASE counter.requests >= HalfOpenMax
        BY <4>1, <4>3, <3>1, FinishType, DisturbType DEF ReadProbes, CallersOK
      <4>4. CASE ~(counter.requests >= HalfOpenMax)
        <5>1. counter.requests < HalfOpenMax
          BY <4>2, <4>4, BreakerAssumption DEF Counters
        <5>2. CallersOK'
          BY <4>1, <4>2, <4>4, <5>1 DEF CallersOK, Goto, Places
        <5> QED
          BY <4>1, <5>2, <3>1, DisturbType DEF ReadProbes, CallersOK
      <4> QED
        BY <4>3, <4>4
    <3>2. CASE CountProbe(c)
      <4>1. CallersOK'
        BY <3>2, ZeroType DEF CountProbe, CallersOK, Goto, Places
      <4>2. Counter(read[c].requests + 1, read[c].successes) \in Counters
        BY <3>2, BreakerAssumption DEF CountProbe, CallersOK, Counter, Counters
      <4>3. probes' \in Counters /\ disturbances' \in Nat
        BY <3>2, <4>2, DisturbType DEF CountProbe
      <4>4. tainted' \in BOOLEAN /\ admitted' \in {0, admitted + 1}
        BY <3>2 DEF CountProbe
      <4> QED
        BY <3>2, <4>1, <4>3, <4>4 DEF CountProbe
    <3> QED
      BY <2>2, <3>1, <3>2 DEF CanExecute
  <2>3. ASSUME NEW c \in Callers, RefuseRate(c) \/ Attempt(c)
        PROVE  CallersOK' /\ StoredOK' /\ HistoryOK'
    <3>1. CASE RefuseRate(c)
      BY <3>1, FinishType DEF RefuseRate
    <3>2. CASE Attempt(c)
      BY <3>2 DEF Attempt, CallersOK, Goto, Places
    <3> QED
      BY <2>3, <3>1, <3>2
  <2>4. ASSUME NEW c \in Callers, RecordFailure(c)
        PROVE  CallersOK' /\ StoredOK' /\ HistoryOK'
    <3>1. CASE IncrementFailures(c)
      <4>1. UpTo(Threshold, failures) \in 0 .. Threshold
        BY BreakerAssumption DEF UpTo
      <4>2. ASSUME saw' = [saw EXCEPT ![c] = "closed"],
                   backed' = [backed EXCEPT ![c] = ~gone[c]],
                   NEW p \in {"weigh", "drop"}, Goto(c, p),
                   UNCHANGED <<task, read, gone>>
            PROVE  CallersOK'
        <5>1. backed' \in [Callers -> BOOLEAN]
          BY <4>2 DEF CallersOK
        <5> QED
          BY <4>2, <5>1 DEF CallersOK, Goto, Places, Circuits
      <4>3. CallersOK'
        BY <3>1, <4>2, FinishType DEF IncrementFailures
      <4> QED
        BY <3>1, <4>1, <4>3, DisturbType DEF IncrementFailures
    <3>2. CASE Weigh(c)
      BY <3>2, FinishType, GoOnType, DisturbType DEF Weigh, GoOnOrFinish, Places
    <3>3. CASE DropProbes(c)
      <4>1. CallersOK'
        BY <3>3, FinishType, GoOnType DEF DropProbes, GoOnOrFinish, Places
      <4> QED
        BY <3>3, <4>1, ForgetType, DisturbType DEF DropProbes
    <3>4. CASE OpenState(c)
      <4>1. CallersOK'
        BY <3>4, FinishType, GoOnType DEF OpenState, Places
      <4>2. rushed' \in BOOLEAN
        BY <3>4 DEF OpenState
      <4>3. warranted' \in BOOLEAN
        BY <3>4 DEF OpenState, CallersOK
      <4> QED
        BY <3>4, <4>1, <4>2, <4>3, DisturbType DEF OpenState, Circuits
    <3>5. CASE OpenUntil(c)
      BY <3>5, FinishType, GoOnType, DisturbType DEF OpenUntil, Places
    <3>6. CASE OpenRow(c)
      BY <3>6, FinishType, DisturbType DEF OpenRow
    <3> QED
      BY <2>4, <3>1, <3>2, <3>3, <3>4, <3>5, <3>6 DEF RecordFailure
  <2>5. ASSUME NEW c \in Callers, RecordSuccess(c)
        PROVE  CallersOK' /\ StoredOK' /\ HistoryOK'
    <3>1. CASE ClearFailures(c)
      BY <3>1, FinishType, DisturbType, BreakerAssumption DEF ClearFailures
    <3>2. CASE ReadWins(c)
      BY <3>2, ZeroType, DisturbType DEF ReadWins, CallersOK, Goto, Places
    <3>3. CASE CountWin(c)
      <4>1. CallersOK'
        BY <3>3, FinishType, GoOnType DEF CountWin, Places
      <4>2. ASSUME ~(read[c].successes + 1 >= SuccessesToClose)
            PROVE  Counter(read[c].requests, read[c].successes + 1) \in Counters
        BY <4>2, BreakerAssumption DEF CallersOK, Counter, Counters
      <4>3. probes' \in Counters
        <5>1. CASE read[c].successes + 1 >= SuccessesToClose
          BY <3>3, <5>1, ForgetType DEF CountWin
        <5>2. CASE ~(read[c].successes + 1 >= SuccessesToClose)
          BY <3>3, <5>2, <4>2 DEF CountWin
        <5> QED
          BY <5>1, <5>2
      <4>4. tainted' \in BOOLEAN /\ admitted' \in Nat
        BY <3>3, ForgetType DEF CountWin
      <4> QED
        BY <3>3, <4>1, <4>3, <4>4, DisturbType DEF CountWin
    <3>4. CASE CloseState(c)
      <4>1. CallersOK'
        BY <3>4, FinishType, GoOnType DEF CloseState, Places
      <4>2. outdated' \in BOOLEAN
        <5> DEFINE some == failures > 0
        <5>1. outdated' = some \/ outdated' = outdated
          BY <3>4 DEF CloseState
        <5>2. some \in BOOLEAN
          OBVIOUS
        <5> HIDE DEF some
        <5> QED
          BY <5>1, <5>2
      <4>3. circuit' \in Circuits /\ disturbances' \in Nat
        BY <3>4, DisturbType DEF CloseState, Circuits
      <4>4. StoredOK'
        BY <3>4, <4>3 DEF CloseState
      <4>5. HistoryOK'
        <5>1. admitted' \in Nat
          BY <3>4 DEF CloseState
        <5>2. UNCHANGED tainted /\ UNCHANGED kept /\ UNCHANGED rushed /\ UNCHANGED warranted
          BY <3>4 DEF CloseState
        <5>3. {tainted, outdated, kept, rushed, warranted}' \subseteq BOOLEAN
          BY <4>2, <5>2
        <5> QED
          BY <4>3, <5>1, <5>3
      <4> QED
        BY <4>1, <4>4, <4>5
    <3>5. CASE CloseUntil(c)
      BY <3>5, GoOnType, DisturbType DEF CloseUntil, Places
    <3>6. CASE CloseCount(c)
      BY <3>6, GoOnType, DisturbType, BreakerAssumption DEF CloseCount, Places
    <3>7. CASE CloseRow(c)
      BY <3>7, FinishType, DisturbType DEF CloseRow
    <3> QED
      BY <2>5, <3>1, <3>2, <3>3, <3>4, <3>5, <3>6, <3>7 DEF RecordSuccess
  <2>6. ASSUME NEW c \in Callers, ClientLeaves(c) \/ Die(c)
        PROVE  CallersOK' /\ StoredOK' /\ HistoryOK'
    <3>1. CASE ClientLeaves(c)
      BY <3>1 DEF ClientLeaves, CallersOK
    <3>2. CASE Die(c)
      BY <3>2, FinishType, DisturbType DEF Die
    <3> QED
      BY <2>6, <3>1, <3>2
  <2>7. ASSUME NEW r \in Requests, Arrive(r)
        PROVE  CallersOK' /\ StoredOK' /\ HistoryOK'
    BY <2>7 DEF Arrive, CallersOK, Goto, Places, Callers
  <2>8. ASSUME NEW o \in Operators, ForceOpen(o) \/ ForceClose(o)
        PROVE  CallersOK' /\ StoredOK' /\ HistoryOK'
    <3>1. CallersOK'
      <4>1. CASE ForceOpen(o)
        BY <4>1 DEF ForceOpen, CallersOK, Goto, Places, Callers
      <4>2. CASE ForceClose(o)
        BY <4>2, GoOnType DEF ForceClose, Places, Callers
      <4> QED
        BY <2>8, <4>1, <4>2
    <3> QED
      BY <2>8, <3>1, ForgetType, DisturbType DEF ForceOpen, ForceClose
  <2>9. CASE BreakerTime
    <3>1. CallersOK'
      BY <2>9 DEF BreakerTime, WindowPasses, RowPasses, ProbesExpire, CallersOK
    <3> QED
      BY <2>9, <3>1, ForgetType DEF BreakerTime, WindowPasses, RowPasses, ProbesExpire
  <2>10. CASE UNCHANGED breakerVars
    BY <2>10 DEF breakerVars, CallersOK
  <2> QED
    BY <2>1, <2>2, <2>3, <2>4, <2>5, <2>6, <2>7, <2>8, <2>9, <2>10
    DEF BreakerNext, CallerStep
<1> QED
  BY <1>1, <1>2, Parts, PTL DEF BreakerSpec

(***************************************************************************)
(* The half-open counter.                                                  *)
(***************************************************************************)

\* The half-open counter is right unless an overlap or a lost command is on
\* record: who counts without one has read what is stored.
THEOREM ProbesAreCounted == BreakerSpec => []ProbesCounted
<1>1. BreakerInit => ProbesCounted
  BY BreakerAssumption DEF BreakerInit, ProbesCounted, Zero, Counter
<1>2. BreakerTypeOK /\ ProbesCounted /\ [BreakerNext]_breakerVars => ProbesCounted'
  <2> SUFFICES ASSUME CallersOK, StoredOK, HistoryOK, ProbesCounted, [BreakerNext]_breakerVars
               PROVE  ProbesCounted'
    BY Parts
  <2> USE DEF ProbesCounted
  <2>1. ASSUME ForgetProbes
        PROVE  ProbesCounted'
    BY <2>1, BreakerAssumption DEF ForgetProbes, Zero, Counter
  <2>2. ASSUME UNCHANGED <<probes, admitted, tainted>>
        PROVE  ProbesCounted'
    BY <2>2
  <2>3. ASSUME NEW c \in Callers, CountProbe(c)
        PROVE  ProbesCounted'
    <3>1. PICK lost \in BOOLEAN :
            /\ probes' = IF lost THEN probes
                         ELSE Counter(read[c].requests + 1, read[c].successes)
            /\ tainted' = (tainted \/ lost \/ probes # read[c])
      BY <2>3 DEF CountProbe
    <3>2. CASE tainted'
      BY <3>2
    <3>3. CASE ~tainted'
      <4>1. ~tainted /\ ~lost /\ probes = read[c]
        BY <3>1, <3>3 DEF HistoryOK
      <4>2. probes.requests < HalfOpenMax /\ probes.requests = admitted
        BY <2>3, <4>1 DEF CountProbe, CallersOK
      <4>3. probes'.requests = probes.requests + 1
        BY <3>1, <4>1 DEF Counter
      <4>4. admitted' = admitted + 1
        BY <2>3, <3>3 DEF CountProbe
      <4> QED
        BY <4>2, <4>3, <4>4, BreakerAssumption DEF HistoryOK
    <3> QED
      BY <3>2, <3>3
  <2>4. ASSUME NEW c \in Callers, CountWin(c)
        PROVE  ProbesCounted'
    <3>1. CASE read[c].successes + 1 >= SuccessesToClose
      BY <2>1, <2>2, <2>4, <3>1 DEF CountWin
    <3>2. CASE ~(read[c].successes + 1 >= SuccessesToClose)
      <4>1. PICK lost \in BOOLEAN :
              /\ probes' = IF lost THEN probes
                           ELSE Counter(read[c].requests, read[c].successes + 1)
              /\ tainted' = (tainted \/ (~lost /\ probes # read[c]))
              /\ UNCHANGED admitted
        BY <2>4, <3>2 DEF CountWin
      <4>2. CASE tainted' \/ lost
        BY <4>1, <4>2 DEF HistoryOK
      <4>3. CASE ~tainted' /\ ~lost
        <5>1. probes = read[c] /\ ~tainted
          BY <4>1, <4>3 DEF HistoryOK
        <5>2. probes'.requests = probes.requests
          BY <4>1, <4>3, <5>1 DEF Counter
        <5> QED
          BY <4>1, <5>1, <5>2
      <4> QED
        BY <4>2, <4>3
    <3> QED
      BY <3>1, <3>2
  <2>5. ASSUME NEW c \in Callers, GetCircuitState(c) \/ RefuseRate(c) \/ Attempt(c)
        PROVE  ProbesCounted'
    BY <2>2, <2>5
    DEF GetCircuitState, ReadState, LookWindow, TurnHalfOpen, RefuseRate, Attempt
  <2>6. ASSUME NEW c \in Callers, ReadProbes(c) \/ ClientLeaves(c) \/ Die(c)
        PROVE  ProbesCounted'
    BY <2>2, <2>6 DEF ReadProbes, ClientLeaves, Die
  <2>7. ASSUME NEW c \in Callers, RecordFailure(c)
        PROVE  ProbesCounted'
    BY <2>1, <2>2, <2>7
    DEF RecordFailure, IncrementFailures, Weigh, DropProbes, OpenState, OpenUntil, OpenRow
  <2>8. ASSUME NEW c \in Callers, ReadWins(c) \/ ClearFailures(c) \/ CloseState(c)
                                    \/ CloseUntil(c) \/ CloseCount(c) \/ CloseRow(c)
        PROVE  ProbesCounted'
    BY <2>2, <2>8 DEF ReadWins, ClearFailures, CloseState, CloseUntil, CloseCount, CloseRow
  <2>9. ASSUME NEW c \in Callers, Arrive(c) \/ ForceOpen(c) \/ ForceClose(c)
        PROVE  ProbesCounted'
    BY <2>1, <2>2, <2>9 DEF Arrive, ForceOpen, ForceClose
  <2>10. CASE BreakerTime
    BY <2>1, <2>2, <2>10 DEF BreakerTime, WindowPasses, RowPasses, ProbesExpire
  <2>11. CASE UNCHANGED breakerVars
    BY <2>2, <2>11 DEF breakerVars
  <2> QED
    BY <2>3, <2>4, <2>5, <2>6, <2>7, <2>8, <2>9, <2>10, <2>11
    DEF BreakerNext, CallerStep, CanExecute, RecordSuccess, Callers
<1> QED
  BY <1>1, <1>2, TypeInvariant, PTL DEF BreakerSpec

(***************************************************************************)
(* The failure count.                                                      *)
(***************************************************************************)

\* A caller that is not clearing the count moves, and neither outdates the
\* count nor takes back that one was kept.
LEMMA OthersClear ==
    ASSUME CallersOK, CountIsFresh, NEW c \in Callers, NEW p \in Places, Goto(c, p),
           c \notin Clearing, outdated' => outdated, kept => kept'
    PROVE  CountIsFresh'
<1>1. Clearing \subseteq Clearing'
  BY DEF CallersOK, Goto, Clearing
<1> QED
  BY <1>1 DEF CountIsFresh

LEMMA FinishGoes ==
    ASSUME NEW c \in Callers, Finish(c)
    PROVE  Goto(c, "idle")
BY DEF Finish, Goto

LEMMA SettleGoes ==
    ASSUME CallersOK, NEW c \in Callers, NEW s \in Circuits, Settle(c, s)
    PROVE  \E p \in {"idle", "admitted", "probe", "clear", "good", "tally"} : Goto(c, p)
<1>1. After(task[c], s) \in {"idle", "admitted", "probe", "clear", "good", "tally"}
  BY DEF After
<1> QED
  BY <1>1, FinishGoes DEF Settle

LEMMA ReadStateGoes ==
    ASSUME CallersOK, StoredOK, NEW c \in Callers, GetCircuitState(c)
    PROVE  \E p \in {"idle", "admitted", "probe", "clear", "good", "tally", "exists", "half"} :
              Goto(c, p)
<1>1. \/ \E s \in Circuits : Settle(c, s)
      \/ GoOn(c, "exists") \/ GoOn(c, "half")
  <2>1. CASE ReadState(c)
    BY <2>1 DEF ReadState, StoredOK, Circuits
  <2>2. CASE LookWindow(c)
    BY <2>2 DEF LookWindow, Circuits
  <2>3. CASE TurnHalfOpen(c)
    BY <2>3 DEF TurnHalfOpen, Circuits
  <2> QED
    BY <2>1, <2>2, <2>3 DEF GetCircuitState
<1>2. ASSUME NEW s \in Circuits, Settle(c, s)
      PROVE  \E p \in {"idle", "admitted", "probe", "clear", "good", "tally"} : Goto(c, p)
  BY <1>2, SettleGoes
<1> QED
  BY <1>1, <1>2 DEF GoOn

LEMMA FailureGoes ==
    ASSUME NEW c \in Callers, RecordFailure(c)
    PROVE  \E p \in {"idle", "weigh", "drop", "openState", "openUntil", "openRow"} : Goto(c, p)
BY FinishGoes
DEF RecordFailure, IncrementFailures, Weigh, DropProbes, OpenState, OpenUntil, OpenRow,
    GoOn, GoOnOrFinish

\* Failures from before a closing are counted only while somebody is still
\* about to clear them, or was kept from it.
THEOREM CountFresh == BreakerSpec => []CountIsFresh
<1>1. BreakerInit => CountIsFresh
  BY DEF BreakerInit, CountIsFresh
<1>2. BreakerTypeOK /\ CountIsFresh /\ [BreakerNext]_breakerVars => CountIsFresh'
  <2> SUFFICES ASSUME CallersOK, StoredOK, HistoryOK, CountIsFresh, [BreakerNext]_breakerVars
               PROVE  CountIsFresh'
    BY Parts
  <2>1. ASSUME NEW c \in Callers, GetCircuitState(c)
        PROVE  CountIsFresh'
    <3>1. c \notin Clearing
      BY <2>1 DEF GetCircuitState, ReadState, LookWindow, TurnHalfOpen, Clearing
    <3>2. UNCHANGED <<outdated, kept>>
      BY <2>1 DEF GetCircuitState, ReadState, LookWindow, TurnHalfOpen
    <3> QED
      BY <2>1, <3>1, <3>2, ReadStateGoes, OthersClear DEF Places
  <2>2. ASSUME NEW c \in Callers, RecordFailure(c)
        PROVE  CountIsFresh'
    <3>1. c \notin Clearing
      BY <2>2 DEF RecordFailure, IncrementFailures, Weigh, DropProbes, OpenState, OpenUntil,
                  OpenRow, Clearing
    <3>2. UNCHANGED <<outdated, kept>>
      BY <2>2 DEF RecordFailure, IncrementFailures, Weigh, DropProbes, OpenState, OpenUntil,
                  OpenRow, ForgetProbes
    <3> QED
      BY <2>2, <3>1, <3>2, FailureGoes, OthersClear DEF Places
  <2>3. ASSUME NEW c \in Callers, CanExecute(c) \/ RefuseRate(c) \/ Attempt(c)
        PROVE  CountIsFresh'
    <3>1. c \notin Clearing
      BY <2>3 DEF CanExecute, ReadProbes, CountProbe, RefuseRate, Attempt, Clearing
    <3>2. UNCHANGED <<outdated, kept>>
      BY <2>3 DEF CanExecute, ReadProbes, CountProbe, RefuseRate, Attempt
    <3>3. \E p \in {"idle", "count", "admitted", "read"} : Goto(c, p)
      BY <2>3, FinishGoes DEF CanExecute, ReadProbes, CountProbe, RefuseRate, Attempt
    <3> QED
      BY <3>1, <3>2, <3>3, OthersClear DEF Places
  <2>4. ASSUME NEW c \in Callers, ClearFailures(c) \/ ReadWins(c) \/ CountWin(c) \/ CloseRow(c)
        PROVE  CountIsFresh'
    <3>1. c \notin Clearing
      BY <2>4 DEF ClearFailures, ReadWins, CountWin, CloseRow, Clearing
    <3>2. outdated' => outdated
      <4>1. CASE ClearFailures(c)
        BY <4>1 DEF ClearFailures
      <4>2. CASE ReadWins(c) \/ CountWin(c) \/ CloseRow(c)
        BY <4>2 DEF ReadWins, CountWin, CloseRow
      <4> QED
        BY <2>4, <4>1, <4>2
    <3>4. kept => kept'
      BY <2>4 DEF ClearFailures, ReadWins, CountWin, CloseRow
    <3>3. \E p \in {"idle", "win", "closeState"} : Goto(c, p)
      BY <2>4, FinishGoes DEF ClearFailures, ReadWins, CountWin, CloseRow, GoOn
    <3> QED
      BY <3>1, <3>2, <3>3, <3>4, OthersClear DEF Places
  <2>5. ASSUME NEW c \in Callers, CloseState(c)
        PROVE  CountIsFresh'
    <3>1. CASE GoOn(c, "closeUntil")
      <4>1. at'[c] = "closeUntil"
        BY <3>1 DEF GoOn, Goto, CallersOK
      <4> QED
        BY <4>1 DEF Clearing, CountIsFresh
    <3>2. CASE Finish(c) /\ UNCHANGED outdated
      <4>1. c \notin Clearing /\ kept' = kept
        BY <2>5 DEF CloseState, Clearing
      <4> QED
        BY <3>2, <4>1, FinishGoes, OthersClear DEF Places
    <3> QED
      BY <2>5, <3>1, <3>2 DEF CloseState
  <2>6. ASSUME NEW c \in Callers, CloseUntil(c)
        PROVE  CountIsFresh'
    <3>1. at'[c] = "closeCount"
      BY <2>6 DEF CloseUntil, GoOn, Goto, CallersOK
    <3> QED
      BY <3>1 DEF Clearing, CountIsFresh
  <2>7. ASSUME NEW c \in Callers, CloseCount(c)
        PROVE  CountIsFresh'
    BY <2>7 DEF CloseCount, CountIsFresh
  <2>8. ASSUME NEW c \in Callers, Die(c)
        PROVE  CountIsFresh'
    <3>1. CASE c \in Clearing
      BY <2>8, <3>1 DEF Die, CountIsFresh
    <3>2. CASE c \notin Clearing
      <4>1. outdated' = outdated /\ (kept => kept')
        BY <2>8 DEF Die
      <4>2. Goto(c, "idle")
        BY <2>8, FinishGoes DEF Die
      <4> QED
        BY <3>2, <4>1, <4>2, OthersClear DEF Places
    <3> QED
      BY <3>1, <3>2
  <2>9. ASSUME NEW c \in Callers, Arrive(c) \/ ForceOpen(c) \/ ForceClose(c)
        PROVE  CountIsFresh'
    <3>1. c \notin Clearing
      BY <2>9 DEF Arrive, ForceOpen, ForceClose, Clearing
    <3>2. UNCHANGED <<outdated, kept>>
      BY <2>9 DEF Arrive, ForceOpen, ForceClose, ForgetProbes
    <3>3. \E p \in {"read", "openState", "closeState"} : Goto(c, p)
      BY <2>9 DEF Arrive, ForceOpen, ForceClose, GoOn
    <3> QED
      BY <3>1, <3>2, <3>3, OthersClear DEF Places
  <2>10. ASSUME UNCHANGED <<at, outdated, kept>>
         PROVE  CountIsFresh'
    BY <2>10 DEF CountIsFresh, Clearing
  <2>11. ASSUME NEW c \in Callers, ClientLeaves(c)
         PROVE  CountIsFresh'
    BY <2>10, <2>11 DEF ClientLeaves
  <2>12. CASE BreakerTime
    BY <2>10, <2>12 DEF BreakerTime, WindowPasses, RowPasses, ProbesExpire, ForgetProbes
  <2>13. CASE UNCHANGED breakerVars
    BY <2>10, <2>13 DEF breakerVars
  <2> QED
    BY <2>1, <2>2, <2>3, <2>4, <2>5, <2>6, <2>7, <2>8, <2>9, <2>11, <2>12, <2>13
    DEF BreakerNext, CallerStep, RecordSuccess, Callers
<1> QED
  BY <1>1, <1>2, TypeInvariant, PTL DEF BreakerSpec

(***************************************************************************)
(* The recovery window.                                                    *)
(***************************************************************************)

\* Unless a reader overlapped with a half-done opening: nobody is about to set
\* the window of a circuit that somebody is turning half-open, or has turned.
IWindow ==
    \/ rushed
    \/ /\ Looking # {} => HalfOpened = {}
       /\ circuit = "half_open" => HalfOpened = {} /\ ~window
       /\ \A c \in Callers : at[c] = "half" => ~window

\* A caller goes where it neither looks at the circuit nor opens it.
LEMMA WindowElsewhere ==
    ASSUME CallersOK, IWindow, NEW c \in Callers,
           NEW p \in Places \ {"exists", "half", "openUntil"}, Goto(c, p),
           circuit' \in {circuit, "closed"}, window' => window, rushed => rushed'
    PROVE  IWindow'
<1>1. Looking' \subseteq Looking /\ HalfOpened' \subseteq HalfOpened
  BY DEF CallersOK, Goto, Looking, HalfOpened
<1>2. \A d \in Callers : at'[d] = "half" => at[d] = "half"
  BY DEF CallersOK, Goto
<1>3. CASE rushed
  BY <1>3 DEF IWindow
<1>4. CASE ~rushed
  BY <1>1, <1>2, <1>4 DEF IWindow
<1> QED
  BY <1>3, <1>4

LEMMA WindowSettles ==
    ASSUME CallersOK, IWindow, NEW c \in Callers, NEW s \in Circuits, Settle(c, s),
           circuit' = circuit, window' = window, rushed => rushed'
    PROVE  IWindow'
BY SettleGoes, WindowElsewhere DEF Places

\* Probes start early only when a reader overlapped with an opening.
THEOREM WindowIsServed == BreakerSpec => []WindowServed
<1>1. BreakerInit => IWindow
  BY DEF BreakerInit, IWindow, Looking, HalfOpened
<1>2. BreakerTypeOK /\ IWindow /\ [BreakerNext]_breakerVars => IWindow'
  <2> SUFFICES ASSUME CallersOK, StoredOK, HistoryOK, IWindow, [BreakerNext]_breakerVars
               PROVE  IWindow'
    BY Parts
  <2>1. ASSUME NEW c \in Callers, ReadState(c)
        PROVE  IWindow'
    <3>1. CASE GoOn(c, "exists") /\ circuit = "open"
      <4>1. at'[c] = "exists" /\ HalfOpened' = HalfOpened \ {c} /\ Looking' = Looking \union {c}
        BY <2>1, <3>1 DEF ReadState, GoOn, Goto, CallersOK, HalfOpened, Looking
      <4>2. rushed' = (rushed \/ HalfOpened # {})
        BY <2>1, <4>1 DEF ReadState
      <4>3. \A d \in Callers : at'[d] = "half" => at[d] = "half"
        BY <3>1 DEF CallersOK, GoOn, Goto
      <4>4. circuit' = circuit /\ window' = window
        BY <2>1 DEF ReadState
      <4> QED
        BY <3>1, <4>1, <4>2, <4>3, <4>4 DEF IWindow
    <3>2. CASE \E s \in Circuits : Settle(c, s)
      <4>1. circuit' = circuit /\ window' = window
        BY <2>1 DEF ReadState
      <4>2. rushed => rushed'
        BY <2>1 DEF ReadState
      <4> QED
        BY <3>2, <4>1, <4>2, WindowSettles
    <3> QED
      BY <2>1, <3>1, <3>2 DEF ReadState, StoredOK, Circuits
  <2>2. ASSUME NEW c \in Callers, LookWindow(c)
        PROVE  IWindow'
    <3>1. circuit' = circuit /\ window' = window /\ rushed' = rushed
      BY <2>2 DEF LookWindow
    <3>2. CASE Settle(c, "open")
      BY <3>1, <3>2, WindowSettles DEF Circuits
    <3>3. CASE GoOn(c, "half") /\ ~window
      <4>1. Looking' = Looking /\ HalfOpened' = HalfOpened
        BY <2>2, <3>3 DEF LookWindow, GoOn, Goto, CallersOK, HalfOpened, Looking
      <4> QED
        BY <3>1, <3>3, <4>1 DEF IWindow
    <3> QED
      BY <2>2, <3>2, <3>3 DEF LookWindow
  <2>3. ASSUME NEW c \in Callers, TurnHalfOpen(c)
        PROVE  IWindow'
    <3>1. window' = window /\ rushed' = rushed /\ circuit' \in {circuit, "half_open"}
      BY <2>3 DEF TurnHalfOpen
    <3>2. PICK p \in {"idle", "admitted", "probe", "clear", "good", "tally"} : Goto(c, p)
      BY <2>3, SettleGoes DEF TurnHalfOpen, Circuits
    <3>3. Looking' \subseteq Looking /\ HalfOpened' \subseteq HalfOpened
      BY <3>2 DEF CallersOK, Goto, Looking, HalfOpened
    <3>4. \A d \in Callers : at'[d] = "half" => at[d] = "half"
      BY <3>2 DEF CallersOK, Goto
    <3>5. Looking # {} /\ at[c] = "half"
      BY <2>3 DEF TurnHalfOpen, Looking
    <3> QED
      BY <3>1, <3>3, <3>4, <3>5 DEF IWindow
  <2>4. ASSUME NEW c \in Callers, OpenState(c)
        PROVE  IWindow'
    <3>1. window' = window
      BY <2>4 DEF OpenState
    <3>2. CASE GoOn(c, "openUntil") /\ circuit' = "open"
      <4>1. at'[c] = "openUntil" /\ Looking' = Looking
        BY <2>4, <3>2 DEF OpenState, GoOn, Goto, CallersOK, Looking
      <4>2. rushed' = (rushed \/ Looking # {})
        BY <2>4, <4>1 DEF OpenState
      <4>3. \A d \in Callers : at'[d] = "half" => at[d] = "half"
        BY <3>2 DEF CallersOK, GoOn, Goto
      <4> QED
        BY <3>1, <3>2, <4>1, <4>2, <4>3 DEF IWindow
    <3>3. CASE Finish(c) /\ circuit' = circuit
      <4>1. rushed => rushed'
        BY <2>4 DEF OpenState
      <4> QED
        BY <3>1, <3>3, <4>1, FinishGoes, WindowElsewhere DEF Places
    <3> QED
      BY <2>4, <3>2, <3>3 DEF OpenState
  <2>5. ASSUME NEW c \in Callers, OpenUntil(c)
        PROVE  IWindow'
    <3>1. HalfOpened # {}
      BY <2>5 DEF OpenUntil, HalfOpened
    <3>2. PICK p \in {"idle", "openRow"} : Goto(c, p)
      BY <2>5, FinishGoes DEF OpenUntil, GoOn
    <3>3. Looking' \subseteq Looking
      BY <3>2 DEF CallersOK, Goto, Looking
    <3>4. \A d \in Callers : at'[d] = "half" => d \in Looking
      BY <3>2 DEF CallersOK, Goto, Looking
    <3>5. circuit' = circuit /\ rushed' = rushed
      BY <2>5 DEF OpenUntil
    <3> QED
      BY <3>1, <3>3, <3>4, <3>5 DEF IWindow
  <2>6. ASSUME NEW c \in Callers,
               IncrementFailures(c) \/ Weigh(c) \/ DropProbes(c) \/ OpenRow(c)
        PROVE  IWindow'
    <3>1. circuit' = circuit /\ window' = window /\ rushed' = rushed
      BY <2>6 DEF IncrementFailures, Weigh, DropProbes, OpenRow
    <3>2. \E p \in {"idle", "weigh", "drop", "openState"} : Goto(c, p)
      BY <2>6, FinishGoes DEF IncrementFailures, Weigh, DropProbes, OpenRow, GoOn, GoOnOrFinish
    <3> QED
      BY <3>1, <3>2, WindowElsewhere DEF Places
  <2>7. ASSUME NEW c \in Callers, CanExecute(c) \/ RefuseRate(c) \/ Attempt(c)
        PROVE  IWindow'
    <3>1. circuit' = circuit /\ window' = window /\ rushed' = rushed
      BY <2>7 DEF CanExecute, ReadProbes, CountProbe, RefuseRate, Attempt
    <3>2. \E p \in {"idle", "count", "admitted", "read"} : Goto(c, p)
      BY <2>7, FinishGoes DEF CanExecute, ReadProbes, CountProbe, RefuseRate, Attempt
    <3> QED
      BY <3>1, <3>2, WindowElsewhere DEF Places
  <2>8. ASSUME NEW c \in Callers, RecordSuccess(c)
        PROVE  IWindow'
    <3>1. circuit' \in {circuit, "closed"}
      BY <2>8 DEF RecordSuccess, ClearFailures, ReadWins, CountWin, CloseState, CloseUntil,
                  CloseCount, CloseRow
    <3>2. window' => window
      <4>1. CASE CloseUntil(c)
        BY <4>1 DEF CloseUntil
      <4>2. CASE ~CloseUntil(c)
        BY <2>8, <4>2 DEF RecordSuccess, ClearFailures, ReadWins, CountWin, CloseState,
                          CloseCount, CloseRow
      <4> QED
        BY <4>1, <4>2
    <3>3. rushed' = rushed
      BY <2>8 DEF RecordSuccess, ClearFailures, ReadWins, CountWin, CloseState, CloseUntil,
                  CloseCount, CloseRow
    <3>4. \E p \in {"idle", "win", "closeState", "closeUntil", "closeCount", "closeRow"} :
             Goto(c, p)
      BY <2>8, FinishGoes
      DEF RecordSuccess, ClearFailures, ReadWins, CountWin, CloseState, CloseUntil, CloseCount,
          CloseRow, GoOn
    <3> QED
      BY <3>1, <3>2, <3>3, <3>4, WindowElsewhere DEF Places
  <2>9. ASSUME NEW c \in Callers, Arrive(c) \/ ForceOpen(c) \/ ForceClose(c) \/ Die(c)
        PROVE  IWindow'
    <3>1. circuit' = circuit /\ window' = window /\ rushed' = rushed
      BY <2>9 DEF Arrive, ForceOpen, ForceClose, Die
    <3>2. \E p \in {"idle", "read", "openState", "closeState"} : Goto(c, p)
      BY <2>9, FinishGoes DEF Arrive, ForceOpen, ForceClose, Die, GoOn
    <3> QED
      BY <3>1, <3>2, WindowElsewhere DEF Places
  <2>10. ASSUME UNCHANGED <<at, circuit, rushed>>, window' => window
         PROVE  IWindow'
    BY <2>10 DEF IWindow, Looking, HalfOpened
  <2>11. ASSUME NEW c \in Callers, ClientLeaves(c)
         PROVE  IWindow'
    BY <2>10, <2>11 DEF ClientLeaves
  <2>12. CASE BreakerTime
    BY <2>10, <2>12 DEF BreakerTime, WindowPasses, RowPasses, ProbesExpire
  <2>13. CASE UNCHANGED breakerVars
    BY <2>10, <2>13 DEF breakerVars
  <2> QED
    BY <2>1, <2>2, <2>3, <2>4, <2>5, <2>6, <2>7, <2>8, <2>9, <2>11, <2>12, <2>13
    DEF BreakerNext, CallerStep, GetCircuitState, RecordFailure, Callers
<1>3. IWindow => WindowServed
  BY DEF IWindow, WindowServed
<1> QED
  BY <1>1, <1>2, <1>3, TypeInvariant, PTL DEF BreakerSpec

(***************************************************************************)
(* Clients that leave.                                                     *)
(***************************************************************************)

\* Who is going to open the circuit is backed, and until the first opening
\* nobody has found it anything but closed.
Backed(c) ==
    /\ at[c] = "openState" => backed[c]
    /\ at[c] \in {"weigh", "drop"} => gone[c] \/ backed[c]

IWarranted ==
    /\ \A c \in Callers : Backed(c)
    /\ \/ warranted
       \/ /\ circuit = "closed"
          /\ \A c \in Callers : at[c] \notin {"exists", "half"}

\* Steps that lead nobody towards opening and open nothing.
LEMMA WarrantElsewhere ==
    ASSUME CallersOK, IWarranted, NEW c \in Callers,
           NEW p \in Places \ {"exists", "half", "weigh", "drop", "openState"},
           Goto(c, p), circuit' \in {circuit, "closed"}, warranted' = warranted,
           \A d \in Callers \ {c} : gone'[d] = gone[d] /\ backed'[d] = backed[d]
    PROVE  IWarranted'
<1>1. at'[c] = p
  BY DEF CallersOK, Goto
<1>2. ASSUME NEW d \in Callers \ {c}
      PROVE  at'[d] = at[d] /\ Backed(d)'
  BY DEF CallersOK, Goto, IWarranted, Backed
<1>3. \A d \in Callers : Backed(d)'
  BY <1>1, <1>2 DEF Backed
<1> QED
  BY <1>1, <1>2, <1>3 DEF IWarranted

LEMMA WarrantFinish ==
    ASSUME CallersOK, IWarranted, NEW c \in Callers, Finish(c),
           circuit' \in {circuit, "closed"}, warranted' = warranted
    PROVE  IWarranted'
<1>1. \A d \in Callers \ {c} : gone'[d] = gone[d] /\ backed'[d] = backed[d]
  BY DEF Finish, CallersOK
<1> QED
  BY <1>1, WarrantElsewhere, FinishGoes DEF Places

\* Each opening is the work of an operator or of a failure whose client was
\* there: who counts a failure remembers it, and without a client nobody gets
\* from the count, or from the counter of the half-open circuit, to the opening.
THEOREM DisconnectsDoNotOpen == BreakerSpec => []DisconnectsNeverOpen
<1>1. BreakerInit => IWarranted
  BY DEF BreakerInit, IWarranted, Backed
<1>2. BreakerTypeOK /\ IWarranted /\ [BreakerNext]_breakerVars => IWarranted'
  <2> SUFFICES ASSUME CallersOK, StoredOK, HistoryOK, IWarranted, [BreakerNext]_breakerVars
               PROVE  IWarranted'
    BY Parts
  <2>1. ASSUME NEW c \in Callers, NEW p \in Places, Goto(c, p)
        PROVE  at'[c] = p /\ \A d \in Callers \ {c} : at'[d] = at[d]
    BY <2>1 DEF CallersOK, Goto
  <2>2. ASSUME NEW c \in Callers, NEW s \in Circuits, Settle(c, s),
               circuit' = circuit, warranted' = warranted
        PROVE  IWarranted'
    <3>1. PICK p \in {"idle", "admitted", "probe", "clear", "good", "tally"} : Goto(c, p)
      BY <2>2, SettleGoes
    <3>2. \A d \in Callers \ {c} : gone'[d] = gone[d] /\ backed'[d] = backed[d]
      BY <2>2 DEF Settle, Finish, CallersOK
    <3> QED
      BY <2>2, <3>1, <3>2, WarrantElsewhere DEF Places
  <2>3. ASSUME NEW c \in Callers, GetCircuitState(c)
        PROVE  IWarranted'
    <3>1. warranted' = warranted /\ UNCHANGED <<probes, row>>
      BY <2>3 DEF GetCircuitState, ReadState, LookWindow, TurnHalfOpen
    <3>2. CASE ~warranted
      <4>1. circuit = "closed" /\ at[c] \notin {"exists", "half"}
        BY <3>2 DEF IWarranted
      <4>2. Settle(c, "closed") /\ circuit' = circuit
        BY <2>3, <4>1 DEF GetCircuitState, ReadState, LookWindow, TurnHalfOpen
      <4> QED
        BY <2>2, <3>1, <4>2 DEF Circuits
    <3>3. CASE warranted
      <4>1. ASSUME NEW p \in Places \ {"weigh", "drop", "openState"}, Goto(c, p),
                   \A d \in Callers \ {c} : gone'[d] = gone[d] /\ backed'[d] = backed[d]
            PROVE  IWarranted'
        <5>1. \A d \in Callers : Backed(d)'
          BY <2>1, <4>1 DEF IWarranted, Backed
        <5> QED
          BY <3>1, <3>3, <5>1 DEF IWarranted
      <4>2. CASE \E p \in {"exists", "half"} : GoOn(c, p)
        BY <4>1, <4>2 DEF GoOn, Places
      <4>3. ASSUME NEW s \in Circuits, Settle(c, s)
            PROVE  IWarranted'
        <5>1. PICK p \in {"idle", "admitted", "probe", "clear", "good", "tally"} : Goto(c, p)
          BY <4>3, SettleGoes
        <5>2. \A d \in Callers \ {c} : gone'[d] = gone[d] /\ backed'[d] = backed[d]
          BY <4>3 DEF Settle, Finish, CallersOK
        <5> QED
          BY <4>1, <5>1, <5>2 DEF Places
      <4> QED
        BY <2>3, <4>2, <4>3
        DEF GetCircuitState, ReadState, LookWindow, TurnHalfOpen, StoredOK, Circuits
    <3> QED
      BY <3>2, <3>3 DEF HistoryOK
  <2>4. ASSUME NEW c \in Callers, IncrementFailures(c)
        PROVE  IWarranted'
    <3>1. circuit' = circuit /\ warranted' = warranted
      BY <2>4 DEF IncrementFailures
    <3>2. CASE Finish(c)
      BY <3>1, <3>2, WarrantFinish
    <3>3. CASE ~Finish(c)
      <4>1. PICK p \in {"weigh", "drop"} : Goto(c, p)
        BY <2>4, <3>3 DEF IncrementFailures
      <4>2. backed' = [backed EXCEPT ![c] = ~gone[c]] /\ gone' = gone
        BY <2>4, <3>3 DEF IncrementFailures
      <4>3. at'[c] = p /\ \A d \in Callers \ {c} : at'[d] = at[d]
        BY <2>1, <4>1 DEF Places
      <4>4. \A d \in Callers : Backed(d)'
        BY <4>2, <4>3 DEF IWarranted, Backed, CallersOK
      <4> QED
        BY <3>1, <4>3, <4>4 DEF IWarranted
    <3> QED
      BY <3>2, <3>3
  <2>5. ASSUME NEW c \in Callers, Weigh(c) \/ DropProbes(c)
        PROVE  IWarranted'
    <3>1. circuit' = circuit /\ warranted' = warranted
      BY <2>5 DEF Weigh, DropProbes
    <3>2. CASE Finish(c)
      BY <3>1, <3>2, WarrantFinish
    <3>3. CASE ~Finish(c)
      <4>1. GoOn(c, "openState") /\ ~gone[c]
        BY <2>5, <3>3 DEF Weigh, DropProbes, GoOnOrFinish
      <4>2. backed[c]
        BY <2>5, <4>1 DEF Weigh, DropProbes, IWarranted, Backed
      <4>3. at'[c] = "openState" /\ \A d \in Callers \ {c} : at'[d] = at[d]
        BY <2>1, <4>1 DEF GoOn, Places
      <4>4. \A d \in Callers : Backed(d)'
        BY <4>1, <4>2, <4>3 DEF GoOn, IWarranted, Backed
      <4> QED
        BY <3>1, <4>3, <4>4 DEF IWarranted
    <3> QED
      BY <3>2, <3>3
  <2>6. ASSUME NEW c \in Callers, OpenState(c)
        PROVE  IWarranted'
    <3>1. CASE Finish(c) /\ circuit' = circuit /\ warranted' = warranted
      BY <3>1, WarrantFinish
    <3>2. CASE GoOn(c, "openUntil") /\ warranted' = backed[c]
      <4>1. warranted'
        BY <2>6, <3>2 DEF OpenState, IWarranted, Backed
      <4>2. at'[c] = "openUntil" /\ \A d \in Callers \ {c} : at'[d] = at[d]
        BY <2>1, <3>2 DEF GoOn, Places
      <4>3. \A d \in Callers : Backed(d)'
        BY <3>2, <4>2 DEF GoOn, IWarranted, Backed
      <4> QED
        BY <4>1, <4>3 DEF IWarranted
    <3> QED
      BY <2>6, <3>1, <3>2 DEF OpenState
  <2>7. ASSUME NEW c \in Callers, OpenUntil(c) \/ OpenRow(c)
        PROVE  IWarranted'
    <3>1. circuit' = circuit /\ warranted' = warranted
      BY <2>7 DEF OpenUntil, OpenRow
    <3>2. CASE Finish(c)
      BY <3>1, <3>2, WarrantFinish
    <3>3. CASE GoOn(c, "openRow")
      BY <3>1, <3>3, WarrantElsewhere DEF GoOn, Places
    <3> QED
      BY <2>7, <3>2, <3>3 DEF OpenUntil, OpenRow
  <2>8. ASSUME NEW c \in Callers, CanExecute(c) \/ RefuseRate(c) \/ Attempt(c)
        PROVE  IWarranted'
    <3>1. circuit' = circuit /\ warranted' = warranted
      BY <2>8 DEF CanExecute, ReadProbes, CountProbe, RefuseRate, Attempt
    <3>2. CASE Finish(c)
      BY <3>1, <3>2, WarrantFinish
    <3>3. CASE ~Finish(c)
      <4>1. gone' = gone /\ backed' = backed
        BY <2>8, <3>3 DEF CanExecute, ReadProbes, CountProbe, RefuseRate, Attempt
      <4>2. \E p \in {"count", "admitted", "read"} : Goto(c, p)
        BY <2>8, <3>3 DEF CanExecute, ReadProbes, CountProbe, RefuseRate, Attempt
      <4> QED
        BY <3>1, <4>1, <4>2, WarrantElsewhere DEF Places
    <3> QED
      BY <3>2, <3>3
  <2>9. ASSUME NEW c \in Callers, RecordSuccess(c)
        PROVE  IWarranted'
    <3>1. circuit' \in {circuit, "closed"}
      BY <2>9 DEF RecordSuccess, ClearFailures, ReadWins, CountWin, CloseState, CloseUntil,
                  CloseCount, CloseRow
    <3>2. warranted' = warranted
      BY <2>9 DEF RecordSuccess, ClearFailures, ReadWins, CountWin, CloseState, CloseUntil,
                  CloseCount, CloseRow
    <3>3. CASE Finish(c)
      BY <3>1, <3>2, <3>3, WarrantFinish
    <3>4. CASE ~Finish(c)
      <4>1. gone' = gone /\ backed' = backed
        BY <2>9, <3>4
        DEF RecordSuccess, ClearFailures, ReadWins, CountWin, CloseState, CloseUntil,
            CloseCount, CloseRow, GoOn
      <4>2. \E p \in {"win", "closeState", "closeUntil", "closeCount", "closeRow"} : Goto(c, p)
        BY <2>9, <3>4
        DEF RecordSuccess, ClearFailures, ReadWins, CountWin, CloseState, CloseUntil,
            CloseCount, CloseRow, GoOn
      <4> QED
        BY <3>1, <3>2, <4>1, <4>2, WarrantElsewhere DEF Places
    <3> QED
      BY <3>3, <3>4
  <2>10. ASSUME NEW c \in Callers, Arrive(c) \/ ForceClose(c)
         PROVE  IWarranted'
    BY <2>10, WarrantElsewhere DEF Arrive, ForceClose, GoOn, Places
  <2>11. ASSUME NEW c \in Callers, ForceOpen(c)
         PROVE  IWarranted'
    <3>1. at'[c] = "openState" /\ \A d \in Callers \ {c} : at'[d] = at[d]
      BY <2>1, <2>11 DEF ForceOpen, Places
    <3>2. backed'[c] /\ \A d \in Callers \ {c} : backed'[d] = backed[d]
      BY <2>11 DEF ForceOpen, CallersOK
    <3>3. gone' = gone /\ circuit' = circuit /\ warranted' = warranted
      BY <2>11 DEF ForceOpen
    <3>4. \A d \in Callers : Backed(d)'
      BY <3>1, <3>2, <3>3 DEF IWarranted, Backed
    <3> QED
      BY <3>1, <3>3, <3>4 DEF IWarranted
  <2>12. ASSUME NEW c \in Callers, Die(c)
         PROVE  IWarranted'
    BY <2>12, WarrantFinish DEF Die
  <2>13. ASSUME UNCHANGED <<at, circuit, warranted, backed>>,
                \A d \in Callers : gone[d] => gone'[d]
         PROVE  IWarranted'
    BY <2>13 DEF IWarranted, Backed
  <2>14. ASSUME NEW c \in Callers, ClientLeaves(c)
         PROVE  IWarranted'
    BY <2>13, <2>14 DEF ClientLeaves, CallersOK
  <2>15. CASE BreakerTime
    BY <2>13, <2>15 DEF BreakerTime, WindowPasses, RowPasses, ProbesExpire
  <2>16. CASE UNCHANGED breakerVars
    BY <2>13, <2>16 DEF breakerVars
  <2> QED
    BY <2>3, <2>4, <2>5, <2>6, <2>7, <2>8, <2>9, <2>10, <2>11, <2>12, <2>14, <2>15, <2>16
    DEF BreakerNext, CallerStep, RecordFailure, Callers
<1>3. IWarranted => DisconnectsNeverOpen
  BY DEF IWarranted, DisconnectsNeverOpen
<1> QED
  BY <1>1, <1>2, <1>3, TypeInvariant, PTL DEF BreakerSpec

=============================================================================
