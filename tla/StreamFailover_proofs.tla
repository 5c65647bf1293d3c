----------------------- MODULE StreamFailover_proofs -----------------------
(***************************************************************************)
(* What StreamFailover guarantees for every set of providers, any mix of   *)
(* transports, and any number of lines and Redis errors.                   *)
(***************************************************************************)
EXTENDS StreamFailover, TLAPS

USE DEF attempt, executor, history

(***************************************************************************)
(* Types.                                                                  *)
(***************************************************************************)
LEMMA FaultType ==
    ASSUME faults \in Nat
    PROVE  /\ Fault => faults' \in Nat
           /\ \A lost \in BOOLEAN : MaybeFault(lost) => faults' \in Nat
BY DEF Fault, MaybeFault

LEMMA VerdictType ==
    ASSUME at \in Reading, NEW locked \in BOOLEAN
    PROVE  Verdict(locked) \in Attempting
BY DEF Verdict, Attempting, Reading, Ending

\* The type invariant: the controller always knows which attempt it is in,
\* and every entry, timer, context and executor is in one of its states.
THEOREM TypeInvariant == Spec => []TypeOK
<1>1. Init => TypeOK
  <2> SUFFICES ASSUME Init
               PROVE  TypeOK
    OBVIOUS
  <2>1. at \in Places /\ at \notin Attempting \union {"settle"}
    BY DEF Init, Places, Attempting, Reading, Ending
  <2>2. "off" \in Stages
    BY DEF Stages
  <2> QED
    BY <2>1, <2>2 DEF Init, TypeOK
<1>2. TypeOK /\ [Next]_vars => TypeOK'
  <2> SUFFICES ASSUME TypeOK, [Next]_vars
               PROVE  TypeOK'
    OBVIOUS
  <2> USE DEF TypeOK
  <2>1. ASSUME NEW p \in Providers, Skip(p) \/ Start(p)
        PROVE  TypeOK'
    BY <2>1 DEF Skip, Start, Places, Attempting, Stages
  <2>2. CASE Exhausted
    BY <2>2 DEF Exhausted, Places, Attempting, Reading, Ending
  <2>3. CASE SeeTimer \/ SeeResult \/ SeeDone
    BY <2>3 DEF SeeTimer, SeeResult, SeeDone, Places, Attempting, Reading
  <2>4. ASSUME NEW lost \in BOOLEAN, ReadLock(lost)
        PROVE  TypeOK'
    <3>1. at' \in Attempting
      BY <2>4, VerdictType DEF ReadLock
    <3>2. cur \in Providers
      BY <2>4 DEF ReadLock, Attempting
    <3> QED
      BY <2>4, <3>1, <3>2, FaultType DEF ReadLock, Places
  <2>5. ASSUME NEW lost \in BOOLEAN, End(lost)
        PROVE  TypeOK'
    <3>1. cur \in Providers
      BY <2>5 DEF End, Attempting
    <3>2. at' \in {"next", "answered", "settle"}
      BY <2>5 DEF End
    <3> QED
      BY <2>5, <3>1, <3>2, FaultType DEF End, Places
  <2>6. CASE Cancel \/ Settle
    <3>1. CASE Cancel
      BY <3>1 DEF Cancel, Places, Attempting, Reading, Ending
    <3>2. CASE Settle
      <4>1. charges' \in [Providers -> Nat]
        <5>1. PICK n \in {0, 1} : charges' = [charges EXCEPT ![cur] = @ + n]
          BY <3>2 DEF Settle
        <5>2. charges[cur] + n \in Nat
          BY <3>2 DEF Settle
        <5> QED
          BY <5>1, <5>2
      <4>2. at' = "answered" /\ "answered" \in Places /\ "answered" \notin Attempting
        BY <3>2 DEF Settle, Places, Attempting, Reading, Ending
      <4> QED
        BY <3>2, <4>1, <4>2 DEF Settle
    <3> QED
      BY <2>6, <3>1, <3>2
  <2>7. ASSUME NEW p \in Providers, Connect(p) \/ Break(p) \/ Eof(p) \/ Receive(p)
        PROVE  TypeOK'
    <3>1. CASE Connect(p) \/ Break(p) \/ Eof(p)
      BY <3>1 DEF Connect, Break, Eof, Finish, Stages
    <3>2. CASE Receive(p)
      <4>1. exec' \in [Providers -> Stages]
        BY <3>2 DEF Receive, Stages
      <4>2. lines' \in [Providers -> Nat]
        BY <3>2 DEF Receive
      <4> QED
        BY <3>2, <4>1, <4>2 DEF Receive
    <3> QED
      BY <2>7, <3>1, <3>2
  <2>8. ASSUME NEW p \in Providers, Write(p) \/ Disarm(p)
        PROVE  TypeOK'
    BY <2>8 DEF Write, Disarm, Stages
  <2>9. ASSUME NEW p \in Providers, NEW done \in BOOLEAN, Lock(p, done)
        PROVE  TypeOK'
    <3>1. faults' \in Nat
      BY <2>9, FaultType DEF Lock
    <3> QED
      BY <2>9, <3>1 DEF Lock, Stages
  <2>10. CASE Environment
    BY <2>10 DEF Environment, TimerFires, Deadline, Expire, Leave
  <2>11. CASE UNCHANGED vars
    BY <2>11 DEF vars
  <2> QED
    BY <2>1, <2>2, <2>3, <2>4, <2>5, <2>6, <2>7, <2>8, <2>9, <2>10, <2>11
    DEF Next, Controller, Executor
<1> QED
  BY <1>1, <1>2, PTL DEF Spec

(***************************************************************************)
(* Contexts and entries.                                                   *)
(***************************************************************************)

\* Nothing given up has a live context: the deferred cancel runs before the
\* loop or the handler goes on.
THEOREM OneLiveAttempt == Spec => []SoleLive
<1>1. Init => SoleLive
  BY DEF Init, SoleLive
<1>2. TypeOK /\ SoleLive /\ [Next]_vars => SoleLive'
  <2> SUFFICES ASSUME TypeOK, SoleLive, [Next]_vars
               PROVE  SoleLive'
    OBVIOUS
  <2> USE DEF SoleLive
  <2>1. CASE Controller
    <3>1. ASSUME NEW p \in Providers, Skip(p) \/ Start(p)
          PROVE  SoleLive'
      BY <3>1 DEF Skip, Start, TypeOK, Attempting, Reading, Ending
    <3>2. ASSUME NEW lost \in BOOLEAN, ReadLock(lost)
          PROVE  SoleLive'
      BY <3>2, VerdictType DEF ReadLock
    <3>3. ASSUME NEW lost \in BOOLEAN, End(lost)
          PROVE  SoleLive'
      BY <3>3 DEF End, TypeOK
    <3>4. CASE Exhausted \/ SeeTimer \/ SeeResult \/ SeeDone \/ Cancel \/ Settle
      BY <3>4 DEF Exhausted, SeeTimer, SeeResult, SeeDone, Cancel, Settle,
                  TypeOK, Attempting, Reading, Ending
    <3> QED
      BY <2>1, <3>1, <3>2, <3>3, <3>4 DEF Controller
  <2>2. ASSUME NEW p \in Providers, Executor(p)
        PROVE  SoleLive'
    BY <2>2 DEF Executor, Connect, Break, Eof, Finish, Receive, Write, Lock, Disarm
  <2>3. CASE Environment
    BY <2>3 DEF Environment, TimerFires, Deadline, Expire, Leave, TypeOK
  <2>4. CASE UNCHANGED vars
    BY <2>4 DEF vars
  <2> QED
    BY <2>1, <2>2, <2>3, <2>4 DEF Next
<1> QED
  BY <1>1, <1>2, TypeInvariant, PTL DEF Spec

\* An entry belongs to the attempt under way, or deleting it has failed: the
\* lock script only changes an entry it finds, so it revives none.
THEOREM EntriesOwned == Spec => []EntryHasOwner
<1>1. Init => EntryHasOwner
  BY DEF Init, EntryHasOwner
<1>2. TypeOK /\ EntryHasOwner /\ [Next]_vars => EntryHasOwner'
  <2> SUFFICES ASSUME TypeOK, EntryHasOwner, [Next]_vars
               PROVE  EntryHasOwner'
    OBVIOUS
  <2> USE DEF EntryHasOwner
  <2>1. CASE Controller
    <3>1. ASSUME NEW p \in Providers, Skip(p) \/ Start(p)
          PROVE  EntryHasOwner'
      BY <3>1 DEF Skip, Start, TypeOK, Attempting, Reading, Ending
    <3>2. ASSUME NEW lost \in BOOLEAN, ReadLock(lost)
          PROVE  EntryHasOwner'
      BY <3>2, VerdictType DEF ReadLock
    <3>3. ASSUME NEW lost \in BOOLEAN, End(lost)
          PROVE  EntryHasOwner'
      BY <3>3 DEF End, TypeOK
    <3>4. CASE Exhausted \/ SeeTimer \/ SeeResult \/ SeeDone \/ Cancel \/ Settle
      BY <3>4 DEF Exhausted, SeeTimer, SeeResult, SeeDone, Cancel, Settle,
                  TypeOK, Attempting, Reading, Ending
    <3> QED
      BY <2>1, <3>1, <3>2, <3>3, <3>4 DEF Controller
  <2>2. ASSUME NEW p \in Providers, Executor(p)
        PROVE  EntryHasOwner'
    <3>1. ASSUME NEW done \in BOOLEAN, Lock(p, done)
          PROVE  EntryHasOwner'
      BY <3>1 DEF Lock, TypeOK
    <3>2. CASE Connect(p) \/ Break(p) \/ Eof(p) \/ Receive(p) \/ Write(p) \/ Disarm(p)
      BY <3>2 DEF Connect, Break, Eof, Finish, Receive, Write, Disarm
    <3> QED
      BY <2>2, <3>1, <3>2 DEF Executor
  <2>3. CASE Environment
    BY <2>3 DEF Environment, TimerFires, Deadline, Expire, Leave, TypeOK
  <2>4. CASE UNCHANGED vars
    BY <2>4 DEF vars
  <2> QED
    BY <2>1, <2>2, <2>3, <2>4 DEF Next
<1> QED
  BY <1>1, <1>2, TypeInvariant, PTL DEF Spec

(***************************************************************************)
(* The lock and the charge.                                                *)
(***************************************************************************)

\* A lock that was in time and can be read pins the controller: it is still
\* in that attempt, has not decided to give it up, and the entry says so.
HeldInv ==
    \A p \in held : p \in doubt \/
        /\ p = cur
        /\ p \notin dropped
        /\ at # "next"
        /\ at \in Attempting => at \notin {"cancel", "drop"} /\ entry[p] = "locked"

\* The current attempt is not among those given up.
DropInv ==
    /\ dropped \subseteq tried
    /\ at \in Attempting \union {"settle"} => cur \in tried /\ cur \notin dropped

\* Only executors of tried providers run, and a result is their last word.
ResultInv ==
    \A p \in Providers :
        /\ exec[p] # "off" => p \in tried
        /\ result[p] # "none" => exec[p] = "ended"

\* Money moves once, after the answer was found complete.
ChargeInv ==
    /\ at \in {"win", "settle"} => result[cur] = "ok"
    /\ \A p \in Providers : charges[p] > 0 =>
           /\ at = "answered" /\ p = cur /\ p \notin dropped
           /\ charges[p] = 1 /\ result[p] = "ok"

StreamInv == HeldInv /\ DropInv /\ ResultInv /\ ChargeInv
LEMMA StreamInit == Init => StreamInv
<1> SUFFICES ASSUME Init
             PROVE  StreamInv
  OBVIOUS
<1>1. at = "next" /\ at \notin Attempting
  BY DEF Init, Attempting, Reading, Ending
<1> QED
  BY <1>1 DEF Init, StreamInv, HeldInv, DropInv, ResultInv, ChargeInv

\* The loop takes a provider that is not tried: whoever held the request
\* before is in doubt, and the new attempt has neither result nor charge.
LEMMA LoopKeeps ==
    ASSUME TypeOK, StreamInv, NEW p \in Providers, Skip(p) \/ Start(p)
    PROVE  StreamInv'
<1> USE DEF StreamInv
<1>1. at = "next" /\ at \notin Attempting \union {"settle"} /\ p \notin tried
  BY DEF Skip, Start, Attempting, Reading, Ending
<1>2. held \subseteq doubt
  BY <1>1 DEF HeldInv
<1>3. \A q \in Providers : charges[q] = 0
  BY <1>1 DEF ChargeInv, TypeOK
<1>4. result[p] = "none"
  BY <1>1 DEF ResultInv
<1>5. CASE Skip(p)
  BY <1>1, <1>2, <1>3, <1>5 DEF Skip, HeldInv, DropInv, ResultInv, ChargeInv
<1>6. CASE Start(p)
  <2>1. HeldInv'
    BY <1>2, <1>6 DEF Start, HeldInv
  <2>2. DropInv'
    BY <1>1, <1>6 DEF Start, DropInv
  <2>3. ResultInv'
    BY <1>4, <1>6 DEF Start, ResultInv, TypeOK
  <2>4. ChargeInv'
    BY <1>3, <1>6 DEF Start, ChargeInv
  <2> QED
    BY <2>1, <2>2, <2>3, <2>4
<1> QED
  BY <1>5, <1>6

\* Reading the lock: an entry that says "locked" keeps the attempt.
LEMMA ReadKeeps ==
    ASSUME TypeOK, StreamInv, NEW lost \in BOOLEAN, ReadLock(lost)
    PROVE  StreamInv'
<1> USE DEF StreamInv
<1>1. at \in Attempting /\ at' \in Attempting
  BY VerdictType DEF ReadLock, Attempting
<1>2. at # "next" /\ at' \notin {"next", "settle"} /\ cur' = cur
  BY <1>1 DEF ReadLock, Attempting, Reading, Ending
<1>3. entry[cur] = "locked" /\ ~lost => at' \in {"watch", "win", "fail"}
  BY DEF ReadLock, Verdict
<1>4. at' = "win" => result[cur] = "ok"
  BY DEF ReadLock, Verdict, Reading
<1>5. HeldInv'
  BY <1>1, <1>2, <1>3 DEF ReadLock, HeldInv
<1>6. DropInv'
  BY <1>1 DEF ReadLock, DropInv
<1>7. ResultInv'
  BY DEF ReadLock, ResultInv
<1>8. ChargeInv'
  <2>1. at # "answered"
    BY DEF ReadLock, Reading
  <2> QED
    BY <1>2, <1>4, <2>1 DEF ReadLock, ChargeInv
<1> QED
  BY <1>5, <1>6, <1>7, <1>8

\* The end of an attempt: only one that is given up joins `dropped'.
LEMMA EndKeeps ==
    ASSUME TypeOK, StreamInv, NEW lost \in BOOLEAN, End(lost)
    PROVE  StreamInv'
<1> USE DEF StreamInv
<1>1. at \in Attempting /\ at \notin {"next", "settle", "answered"}
  BY DEF End, Attempting, Ending
<1>2. /\ at' \in {"next", "answered", "settle"}
      /\ at' \notin Attempting
      /\ at' = "next" <=> at = "drop"
      /\ at' = "settle" => at = "win"
  BY DEF End, Ending, Attempting, Reading
<1>3. HeldInv'
  BY <1>1, <1>2 DEF End, HeldInv
<1>4. DropInv'
  BY <1>1, <1>2 DEF End, DropInv
<1>5. ResultInv'
  BY DEF End, ResultInv
<1>6. ChargeInv'
  BY <1>1, <1>2 DEF End, ChargeInv
<1> QED
  BY <1>3, <1>4, <1>5, <1>6

\* The charge itself.
LEMMA SettleKeeps ==
    ASSUME TypeOK, StreamInv, Settle
    PROVE  StreamInv'
<1> USE DEF StreamInv
<1>1. at' = "answered" /\ "answered" \notin Attempting \union {"next", "settle", "win"}
  BY DEF Settle, Attempting, Reading, Ending
<1>2. at = "settle" /\ at # "answered" /\ at # "next" /\ cur \in Providers
  BY DEF Settle, TypeOK
<1>3. \A q \in Providers : charges[q] = 0
  BY <1>2 DEF ChargeInv, TypeOK
<1>4. HeldInv' /\ DropInv' /\ ResultInv'
  BY <1>1, <1>2 DEF Settle, HeldInv, DropInv, ResultInv
<1>5. ChargeInv'
  <2>1. PICK n \in {0, 1} : charges' = [charges EXCEPT ![cur] = @ + n]
    BY DEF Settle
  <2>2. result[cur] = "ok" /\ cur \notin dropped
    BY <1>2 DEF ChargeInv, DropInv
  <2>3. \A q \in Providers : charges'[q] > 0 => q = cur /\ charges'[q] = 1
    BY <1>3, <2>1 DEF TypeOK
  <2> QED
    BY <1>1, <2>2, <2>3 DEF Settle, ChargeInv
<1> QED
  BY <1>4, <1>5

\* The rest of the controller moves between places.
LEMMA MovesKeep ==
    ASSUME TypeOK, StreamInv, Exhausted \/ SeeTimer \/ SeeResult \/ SeeDone \/ Cancel
    PROVE  StreamInv'
<1> USE DEF StreamInv
<1>1. CASE Exhausted
  <2>1. at' \notin Attempting \union {"next", "win", "settle"} /\ at = "next"
    BY <1>1 DEF Exhausted, Attempting, Reading, Ending
  <2> QED
    BY <1>1, <2>1 DEF Exhausted, HeldInv, DropInv, ResultInv, ChargeInv
<1>2. CASE SeeTimer \/ SeeResult \/ SeeDone
  <2>1. at = "watch" /\ at \in Attempting /\ at' \in Reading /\ at' \in Attempting
    BY <1>2 DEF SeeTimer, SeeResult, SeeDone, Attempting, Reading
  <2>2. at' \notin {"next", "cancel", "drop", "win", "settle"} /\ UNCHANGED <<cur, tried, entry, result, exec, history>>
    BY <1>2 DEF SeeTimer, SeeResult, SeeDone
  <2> QED
    BY <2>1, <2>2 DEF HeldInv, DropInv, ResultInv, ChargeInv
<1>3. CASE Cancel
  <2>1. at = "cancel" /\ at \in Attempting /\ at' = "drop" /\ at' \in Attempting
    BY <1>3 DEF Cancel, Attempting, Ending
  <2> QED
    BY <1>3, <2>1 DEF Cancel, HeldInv, DropInv, ResultInv, ChargeInv
<1> QED
  BY <1>1, <1>2, <1>3

\* An executor can lock, but takes no lock away, and gives one result.
LEMMA ExecutorKeeps ==
    ASSUME TypeOK, StreamInv, NEW p \in Providers, Executor(p)
    PROVE  StreamInv'
<1> USE DEF StreamInv
<1>1. UNCHANGED <<at, cur, tried, dropped, doubt, charges>>
  BY DEF Executor, Connect, Break, Eof, Finish, Receive, Write, Lock, Disarm
<1>2. exec[p] \notin {"off", "ended"} /\ \A q \in Providers \ {p} : exec'[q] = exec[q]
  BY DEF Executor, Connect, Break, Eof, Finish, Receive, Write, Lock, Disarm, TypeOK
<1>3. ResultInv' /\ \A q \in Providers : result[q] # "none" => result'[q] = result[q]
  <2>1. CASE Break(p) \/ Eof(p)
    BY <1>1, <1>2, <2>1 DEF Break, Eof, Finish, ResultInv, TypeOK
  <2>2. CASE UNCHANGED result
    BY <1>1, <1>2, <2>2 DEF ResultInv
  <2> QED
    BY <2>1, <2>2 DEF Executor, Connect, Receive, Write, Lock, Disarm
<1>4. HeldInv'
  <2>1. ASSUME NEW done \in BOOLEAN, Lock(p, done)
        PROVE  HeldInv'
    <3>1. CASE done /\ at \in Looking /\ cur = p
      <4>0. at \in Attempting \ {"next", "cancel", "drop"}
        BY <3>1 DEF Looking, Reading, Attempting
      <4>1. cur \notin dropped
        BY <4>0 DEF DropInv
      <4>2. entry'[p] = "locked" /\ held' = held \union {p}
        BY <2>1, <3>1 DEF Lock, TypeOK
      <4> QED
        BY <1>1, <3>1, <4>0, <4>1, <4>2 DEF HeldInv
    <3>2. CASE ~(done /\ at \in Looking /\ cur = p)
      <4>1. held' = held /\ \A q \in Providers : entry[q] = "locked" => entry'[q] = "locked"
        BY <2>1, <3>2 DEF Lock, TypeOK
      <4> QED
        BY <1>1, <4>1 DEF HeldInv, TypeOK
    <3> QED
      BY <3>1, <3>2
  <2>2. CASE UNCHANGED <<entry, held>>
    BY <1>1, <2>2 DEF HeldInv
  <2> QED
    BY <2>1, <2>2 DEF Executor, Connect, Break, Eof, Finish, Receive, Write, Disarm
<1>5. DropInv'
  BY <1>1 DEF DropInv
<1>6. ChargeInv'
  <2>1. at \in {"win", "settle"} => cur \in Providers
    BY DEF TypeOK, Attempting, Ending
  <2>2. at \in {"win", "settle"} => result'[cur] = "ok"
    BY <1>3, <2>1 DEF ChargeInv
  <2> QED
    BY <1>1, <1>3, <2>2 DEF ChargeInv
<1> QED
  BY <1>3, <1>4, <1>5, <1>6

LEMMA StreamStep == TypeOK /\ StreamInv /\ [Next]_vars => StreamInv'
<1> SUFFICES ASSUME TypeOK, StreamInv, [Next]_vars
             PROVE  StreamInv'
  OBVIOUS
<1>1. CASE Controller
  BY <1>1, LoopKeeps, ReadKeeps, EndKeeps, SettleKeeps, MovesKeep DEF Controller
<1>2. CASE \E p \in Providers : Executor(p)
  BY <1>2, ExecutorKeeps
<1>3. CASE Environment
  <2>1. /\ UNCHANGED <<at, cur, tried, result, exec, history>>
        /\ \A q \in Providers : entry[q] = "locked" => entry'[q] = "locked"
    BY <1>3 DEF Environment, TimerFires, Deadline, Expire, Leave, TypeOK
  <2> QED
    BY <2>1 DEF StreamInv, HeldInv, DropInv, ResultInv, ChargeInv, TypeOK
<1>4. CASE UNCHANGED vars
  BY <1>4 DEF vars, StreamInv, HeldInv, DropInv, ResultInv, ChargeInv
<1> QED
  BY <1>1, <1>2, <1>3, <1>4 DEF Next

\* No interleaving of timer, deadline, disconnection and broken stream moves a
\* request away from a provider that locked it in time and can be read.
THEOREM LockPins == Spec => []NoSwitchOnceLocked
<1>1. StreamInv => NoSwitchOnceLocked
  BY DEF StreamInv, HeldInv, NoSwitchOnceLocked
<1> QED
  BY <1>1, StreamInit, StreamStep, TypeInvariant, PTL DEF Spec

\* Only the last provider tried is charged for, once, after its upstream has
\* ended the answer, and after no other provider's lock.
THEOREM ChargeComplete == Spec => []ChargedForCompleteAnswer
<1>1. StreamInv => ChargedForCompleteAnswer
  BY DEF StreamInv, HeldInv, ChargeInv, ChargedForCompleteAnswer
<1> QED
  BY <1>1, StreamInit, StreamStep, TypeInvariant, PTL DEF Spec

(***************************************************************************)
(* Refinement.                                                             *)
(***************************************************************************)

\* While the controller is still to look, the lock of its attempt is in time
\* and nobody has failed to read it; it fails a request only when it is held.
TurnInv ==
    /\ held \union doubt \subseteq tried
    /\ at \in Looking => cur \notin doubt
    /\ at \in Looking /\ entry[cur] = "locked" => cur \in held
    /\ at = "fail" => cur \in held /\ cur \notin doubt

LEMMA TurnStep ==
    ASSUME TypeOK, StreamInv, TurnInv, [Next]_vars
    PROVE  TurnInv'
<1> USE DEF TurnInv
<1>1. ASSUME NEW p \in Providers, Skip(p) \/ Start(p)
      PROVE  TurnInv'
  <2>1. CASE Skip(p)
    BY <2>1 DEF Skip
  <2>2. CASE Start(p)
    <3>1. p \notin doubt /\ entry'[p] = "open" /\ at' # "fail"
      BY <2>2 DEF Start, TypeOK
    <3> QED
      BY <2>2, <3>1 DEF Start
  <2> QED
    BY <1>1, <2>1, <2>2
<1>2. ASSUME NEW lost \in BOOLEAN, ReadLock(lost)
      PROVE  TurnInv'
  <2>1. at \in Looking /\ at \in Attempting
    BY <1>2 DEF ReadLock, Looking, Attempting
  <2>2. cur \in tried
    BY <2>1 DEF StreamInv, DropInv
  <2>3. at' \in Looking \union {"fail"} => entry[cur] = "locked" /\ ~lost
    BY <1>2 DEF ReadLock, Verdict, Looking, Reading
  <2> QED
    BY <1>2, <2>1, <2>2, <2>3 DEF ReadLock
<1>3. ASSUME NEW lost \in BOOLEAN, End(lost)
      PROVE  TurnInv'
  <2>1. at' \notin Looking \union {"fail"}
    BY <1>3 DEF End, Looking, Reading
  <2> QED
    BY <1>3, <2>1 DEF End
<1>4. CASE Exhausted \/ Cancel \/ Settle
  <2>1. at' \notin Looking \union {"fail"}
    BY <1>4 DEF Exhausted, Cancel, Settle, Looking, Reading
  <2> QED
    BY <1>4, <2>1 DEF Exhausted, Cancel, Settle
<1>5. CASE SeeTimer \/ SeeResult \/ SeeDone
  <2>1. at \in Looking /\ at' # "fail"
    BY <1>5 DEF SeeTimer, SeeResult, SeeDone, Looking
  <2> QED
    BY <1>5, <2>1 DEF SeeTimer, SeeResult, SeeDone
<1>6. ASSUME NEW p \in Providers, NEW done \in BOOLEAN, Lock(p, done)
      PROVE  TurnInv'
  <2>1. UNCHANGED <<at, cur, tried, doubt>>
    BY <1>6 DEF Lock
  <2>2. CASE done /\ at \in Looking /\ cur = p
    <3>1. cur \in tried
      BY <2>2 DEF StreamInv, DropInv, Looking, Attempting
    <3> QED
      BY <1>6, <2>1, <2>2, <3>1 DEF Lock
  <2>3. CASE ~(done /\ at \in Looking /\ cur = p)
    <3>1. held' = held /\ (at \in Looking => entry'[cur] = entry[cur])
      BY <1>6, <2>3 DEF Lock, TypeOK, Looking, Attempting
    <3> QED
      BY <2>1, <3>1
  <2> QED
    BY <2>2, <2>3
<1>7. ASSUME NEW p \in Providers,
             Connect(p) \/ Break(p) \/ Eof(p) \/ Receive(p) \/ Write(p) \/ Disarm(p)
      PROVE  TurnInv'
  BY <1>7 DEF Connect, Break, Eof, Finish, Receive, Write, Disarm
<1>8. CASE Environment
  <2>1. /\ UNCHANGED <<at, cur, tried, history>>
        /\ \A q \in Providers : entry'[q] = "locked" => entry[q] = "locked"
    BY <1>8 DEF Environment, TimerFires, Deadline, Expire, Leave, TypeOK
  <2>2. at \in Looking => cur \in Providers
    BY DEF TypeOK, Looking, Attempting
  <2> QED
    BY <2>1, <2>2
<1>9. CASE UNCHANGED vars
  BY <1>9 DEF vars
<1> QED
  BY <1>1, <1>2, <1>3, <1>4, <1>5, <1>6, <1>7, <1>8, <1>9
  DEF Next, Controller, Executor

\* What the contract sees, by where the controller is.
LEMMA Mapped ==
    /\ at \in {"next"} \union Attempting => Phase = "asking"
    /\ at = "settle" => Phase = "delivered"
    /\ at = "answered" => Phase = "closed"
    /\ at \in {"next", "answered"} => Turn = None /\ Past = tried /\ Pinned = FALSE
    /\ at \in {"settle"} \union Attempting =>
         /\ Turn = cur
         /\ Past = tried \ {cur}
         /\ Pinned = (cur \in held /\ cur \notin doubt)
BY DEF Phase, Turn, Past, Pinned, InTurn, Attempting, Reading, Ending

LEMMA MappedNext ==
    /\ at' \in {"next"} \union Attempting => Phase' = "asking"
    /\ at' = "settle" => Phase' = "delivered"
    /\ at' = "answered" => Phase' = "closed"
    /\ at' \in {"next", "answered"} =>
         Turn' = None /\ Past' = tried' /\ Pinned' = FALSE
    /\ at' \in {"settle"} \union Attempting =>
         /\ Turn' = cur'
         /\ Past' = tried' \ {cur'}
         /\ Pinned' = (cur' \in held' /\ cur' \notin doubt')
BY DEF Phase, Turn, Past, Pinned, InTurn, Attempting, Reading, Ending

\* The loop: skipping and asking, and the end of the list.
LEMMA LoopMaps ==
    ASSUME TypeOK, TurnInv
    PROVE  /\ \A p \in Providers : Skip(p) => Contract!Skip(p)
           /\ \A p \in Providers : Start(p) => Contract!Ask(p)
           /\ Exhausted => Contract!FailExhausted
<1>1. ASSUME NEW p \in Providers, Skip(p)
      PROVE  Contract!Skip(p)
  BY <1>1, Mapped, MappedNext DEF Skip, Contract!Skip, Contract!Free, Whole
<1>2. ASSUME NEW p \in Providers, Start(p)
      PROVE  Contract!Ask(p)
  <2>1. /\ at = "next" /\ at' = "watch" /\ at' \in Attempting
        /\ cur' = p /\ p \notin tried /\ tried' = tried \union {p}
        /\ UNCHANGED <<result, faults, history>>
    BY <1>2 DEF Start, Attempting
  <2>2. p \notin held
    BY <2>1 DEF TurnInv
  <2>3. Past' = Past /\ Pinned' = Pinned
    BY <2>1, <2>2, Mapped, MappedNext
  <2> QED
    BY <2>1, <2>3, Mapped, MappedNext DEF Contract!Ask, Contract!Free, Whole
<1>3. ASSUME Exhausted
      PROVE  Contract!FailExhausted
  BY <1>3, Mapped, MappedNext DEF Exhausted, Contract!FailExhausted, Whole
<1> QED
  BY <1>1, <1>2, <1>3

\* Looking at the lock changes nothing the contract sees, except that a look
\* that failed loses the pin.
LEMMA LooksMap ==
    ASSUME TypeOK, TurnInv
    PROVE  /\ SeeTimer \/ SeeResult \/ SeeDone \/ Cancel => UNCHANGED Contract!vars
           /\ \A lost \in BOOLEAN :
                ReadLock(lost) => Contract!Lose \/ UNCHANGED Contract!vars
<1>1. ASSUME SeeTimer \/ SeeResult \/ SeeDone \/ Cancel
      PROVE  UNCHANGED Contract!vars
  <2>1. /\ at \in Attempting /\ at' \in Attempting
        /\ UNCHANGED <<cur, tried, result, faults, history>>
    BY <1>1 DEF SeeTimer, SeeResult, SeeDone, Cancel, Attempting, Reading, Ending
  <2> QED
    BY <2>1, Mapped, MappedNext DEF Contract!vars, Whole
<1>2. ASSUME NEW lost \in BOOLEAN, ReadLock(lost)
      PROVE  Contract!Lose \/ UNCHANGED Contract!vars
  <2>1. /\ at \in Attempting /\ at' \in Attempting
        /\ UNCHANGED <<cur, tried, result, held, charges>>
        /\ doubt' = IF lost THEN doubt \union {cur} ELSE doubt
        /\ MaybeFault(lost)
    BY <1>2, VerdictType DEF ReadLock, Attempting
  <2>2. UNCHANGED <<Phase, Turn, Past, Whole, charges>>
    BY <2>1, Mapped, MappedNext DEF Whole
  <2>3. CASE lost
    <3>1. Pinned' = FALSE
      BY <2>1, <2>3, MappedNext
    <3>2. faults < MaxFaults /\ faults' = faults + 1
      BY <2>1, <2>3 DEF MaybeFault, Fault
    <3> QED
      BY <2>2, <3>1, <3>2 DEF Contract!Lose, Contract!Fault
  <2>4. CASE ~lost
    <3>1. UNCHANGED <<Pinned, faults>>
      BY <2>1, <2>4, Mapped, MappedNext DEF MaybeFault
    <3> QED
      BY <2>2, <3>1 DEF Contract!vars
  <2> QED
    BY <2>3, <2>4
<1> QED
  BY <1>1, <1>2

\* The end of an attempt gives up what is not pinned, fails what is, or
\* delivers what is complete.
LEMMA EndMaps ==
    ASSUME TypeOK, StreamInv, TurnInv, NEW lost \in BOOLEAN, End(lost)
    PROVE  Contract!GiveUp \/ Contract!FailPinned \/ Contract!Deliver
<1>1. /\ at \in Attempting /\ at \in Ending /\ cur \in Providers /\ cur # None
      /\ UNCHANGED <<cur, tried, result, held, doubt, charges>>
      /\ MaybeFault(lost)
  BY StreamFailoverAssumption DEF End, Attempting, TypeOK
<1>2. Contract!MaybeFault /\ UNCHANGED <<Whole, charges>>
  BY <1>1 DEF MaybeFault, Fault, Contract!MaybeFault, Contract!Fault, Whole
<1>3. cur \in tried
  BY <1>1 DEF StreamInv, DropInv
<1>4. CASE at = "drop"
  <2>1. at' = "next"
    BY <1>4 DEF End
  <2>2. ~(cur \in held /\ cur \notin doubt)
    BY <1>1, <1>4 DEF StreamInv, HeldInv, TypeOK
  <2>3. Past' = Past \union {cur}
    BY <1>1, <1>3, <2>1, Mapped, MappedNext
  <2> QED
    BY <1>1, <1>2, <2>1, <2>2, <2>3, Mapped, MappedNext
    DEF Contract!GiveUp, Contract!Over
<1>5. CASE at = "fail"
  <2>1. at' = "answered"
    BY <1>5 DEF End
  <2>2. cur \in held /\ cur \notin doubt
    BY <1>5 DEF TurnInv
  <2>3. Past' = Past \union {cur}
    BY <1>1, <1>3, <2>1, Mapped, MappedNext
  <2> QED
    BY <1>1, <1>2, <2>1, <2>2, <2>3, Mapped, MappedNext
    DEF Contract!FailPinned, Contract!Over
<1>6. CASE at = "win"
  <2>1. at' = "settle"
    BY <1>6 DEF End
  <2>2. cur \in Whole
    BY <1>1, <1>6 DEF StreamInv, ChargeInv, Whole
  <2> QED
    BY <1>1, <1>2, <2>1, <2>2, Mapped, MappedNext DEF Contract!Deliver
<1> QED
  BY <1>1, <1>4, <1>5, <1>6 DEF Ending

\* The charge.
LEMMA SettleMaps ==
    ASSUME TypeOK, StreamInv, Settle
    PROVE  Contract!Settle
<1>1. /\ at = "settle" /\ at' = "answered" /\ cur \in Providers
      /\ UNCHANGED <<cur, tried, result, faults, held, doubt>>
  BY DEF Settle, TypeOK
<1>2. charges[cur] = 0
  BY <1>1 DEF StreamInv, ChargeInv, TypeOK
<1>3. charges' \in {charges, [charges EXCEPT ![cur] = 1]}
  <2>1. PICK n \in {0, 1} : charges' = [charges EXCEPT ![cur] = @ + n]
    BY DEF Settle
  <2>2. CASE n = 0
    BY <1>1, <1>2, <2>1, <2>2 DEF TypeOK
  <2>3. CASE n = 1
    BY <1>1, <1>2, <2>1, <2>3 DEF TypeOK
  <2> QED
    BY <2>1, <2>2, <2>3
<1>4. cur \in tried
  BY <1>1 DEF StreamInv, DropInv
<1>5. Past' = Past \union {cur}
  BY <1>1, <1>4, Mapped, MappedNext
<1> QED
  BY <1>1, <1>3, <1>5, Mapped, MappedNext DEF Contract!Settle, Contract!Over, Whole

\* The executors: one pins, one completes; the rest is theirs alone.
LEMMA ExecutorMaps ==
    ASSUME TypeOK, StreamInv, TurnInv, NEW p \in Providers, Executor(p)
    PROVE  \/ Contract!Pin \/ Contract!Lose \/ Contract!Complete(p)
           \/ UNCHANGED Contract!vars
<1>1. UNCHANGED <<at, cur, tried, doubt, charges>>
  BY DEF Executor, Connect, Break, Eof, Finish, Receive, Write, Lock, Disarm
<1>2. UNCHANGED <<Phase, Turn, Past, charges>>
  BY <1>1 DEF Phase, Turn, Past, InTurn
<1>3. ASSUME NEW done \in BOOLEAN, Lock(p, done)
      PROVE  Contract!Pin \/ Contract!Lose \/ UNCHANGED Contract!vars
  <2>1. UNCHANGED Whole
    BY <1>3 DEF Lock, Whole
  <2>2. CASE done /\ at \in Looking /\ cur = p
    <3>1. at \in Attempting /\ p # None /\ faults' = faults
      BY <1>3, <2>2, StreamFailoverAssumption DEF Lock, Looking, Attempting
    <3>2. held' = held \union {p} /\ p \notin doubt
      BY <1>3, <2>2 DEF Lock, TurnInv
    <3>3. Pinned' = TRUE
      BY <1>1, <2>2, <3>1, <3>2, MappedNext
    <3> QED
      BY <1>2, <2>1, <2>2, <3>1, <3>3, Mapped DEF Contract!Pin
  <2>3. CASE ~(done /\ at \in Looking /\ cur = p)
    <3>1. held' = held
      BY <1>3, <2>3 DEF Lock
    <3>2. Pinned' = Pinned
      BY <1>1, <3>1 DEF Pinned, InTurn
    <3>3. Fault \/ UNCHANGED faults
      BY <1>3 DEF Lock
    <3> QED
      BY <1>2, <2>1, <3>2, <3>3 DEF Fault, Contract!Lose, Contract!Fault, Contract!vars
  <2> QED
    BY <2>2, <2>3
<1>4. CASE Eof(p)
  <2>1. Whole' = Whole \union {p} /\ Pinned' = Pinned /\ faults' = faults
    BY <1>4 DEF Eof, Finish, Whole, Pinned, InTurn, TypeOK
  <2>2. p \in tried
    BY <1>4 DEF Eof, StreamInv, ResultInv
  <2>3. p = Turn \/ p \in Past
    BY <2>2 DEF Turn, Past
  <2> QED
    BY <1>2, <2>1, <2>3 DEF Contract!Complete
<1>5. CASE Break(p)
  <2>1. result[p] = "none" /\ result' = [result EXCEPT ![p] = "error"]
    BY <1>5 DEF Break, Finish, StreamInv, ResultInv, TypeOK
  <2>2. Whole' = Whole
    BY <2>1 DEF Whole, TypeOK
  <2> QED
    BY <1>2, <1>5, <2>2 DEF Break, Finish, Pinned, InTurn, Contract!vars
<1>6. CASE Connect(p) \/ Receive(p) \/ Write(p) \/ Disarm(p)
  <2>1. UNCHANGED <<result, faults, held>>
    BY <1>6 DEF Connect, Receive, Write, Disarm
  <2> QED
    BY <1>1, <1>2, <2>1 DEF Whole, Pinned, InTurn, Contract!vars
<1> QED
  BY <1>3, <1>4, <1>5, <1>6 DEF Executor

\* A streamed request is one of Failover: whatever timer, context, lock and
\* executors do, the controller only gives up what is not pinned, goes to the
\* end of the list otherwise, and settles what is complete.
THEOREM ImplementsFailover == Spec => Implements
<1>1. ASSUME Init PROVE Contract!Init
  <2>1. at = "next"
    BY <1>1 DEF Init
  <2> QED
    BY <1>1, <2>1, Mapped DEF Init, Contract!Init, Whole
<1>2. Init => TurnInv
  <2>1. Init => at \notin Looking
    BY DEF Init, Looking, Reading
  <2> QED
    BY <2>1 DEF Init, TurnInv
<1>3. TypeOK /\ StreamInv /\ TurnInv /\ [Next]_vars => [Contract!Next]_Contract!vars
  <2> SUFFICES ASSUME TypeOK, StreamInv, TurnInv, [Next]_vars
               PROVE  Contract!Next \/ UNCHANGED Contract!vars
    OBVIOUS
  <2>1. CASE Controller
    BY <2>1, LoopMaps, LooksMap, EndMaps, SettleMaps DEF Controller, Contract!Next
  <2>2. CASE \E p \in Providers : Executor(p)
    BY <2>2, ExecutorMaps DEF Contract!Next
  <2>3. CASE Environment
    <3>1. UNCHANGED <<at, cur, tried, result, faults, history>>
      BY <2>3 DEF Environment, TimerFires, Deadline, Expire, Leave
    <3> QED
      BY <3>1 DEF Contract!vars, Phase, Turn, Past, Pinned, Whole, InTurn
  <2>4. CASE UNCHANGED vars
    BY <2>4 DEF vars, Contract!vars, Phase, Turn, Past, Pinned, Whole, InTurn
  <2> QED
    BY <2>1, <2>2, <2>3, <2>4 DEF Next
<1> QED
  BY <1>1, <1>2, <1>3, StreamInit, StreamStep, TurnStep, TypeInvariant, PTL
  DEF Spec, Implements, Contract!Spec
=============================================================================
