--------------------------- MODULE CircuitBreaker ---------------------------
(***************************************************************************)
(* The circuit breaker of one provider and the requests that ask it before *)
(* an attempt and tell it afterwards (scheduler/circuit_breaker.go, its    *)
(* keys in scheduler/runtime_state_store.go, its copy in the provider's    *)
(* database row, and the loop of scheduler/cascade_controller.go around    *)
(* it).                                                                    *)
(*                                                                         *)
(* The breaker lives in four Redis keys that are read and written one      *)
(* command at a time by any number of processes.  Redis calls do not use   *)
(* the request's context, database calls do: once the client has closed    *)
(* the connection they fail.                                               *)
(***************************************************************************)
EXTENDS Naturals

CONSTANTS
    Requests,           \* requests under way, each over and over again
    Operators,          \* administrators, who force it open or closed
    Threshold,          \* FailureThreshold
    HalfOpenMax,        \* HalfOpenMaxRequests
    SuccessesToClose,   \* SuccessThresholdToClose
    MaxDisturbances     \* bound: failing commands, dying processes, forced changes

Callers == Requests \union Operators

ASSUME BreakerAssumption ==
    /\ Requests \intersect Operators = {}
    /\ Threshold \in Nat \ {0}
    /\ HalfOpenMax \in Nat \ {0}
    /\ SuccessesToClose \in Nat \ {0}
    /\ MaxDisturbances \in Nat

VARIABLES
    circuit,    \* circuit:state, "closed" when there is no key
    window,     \* circuit:open_until exists
    failures,   \* circuit:failure, counted up to the threshold
    probes,     \* circuit:halfopen: requests and successes, zero without key
    row,        \* database: circuit_state is open, circuit_open_until lies ahead
    at,         \* at[c]: the command caller c executes next
    task,       \* task[c]: what it asks the breaker for
    saw,        \* saw[c]: the state it has read
    read,       \* read[c]: the half-open counter it has read
    gone,       \* gone[c]: its client has closed the connection
    backed,     \* history: backed[c]: the failure c has counted happened while its
                \* client was there, or c is an operator who opens the circuit
    disturbances,
    admitted,   \* history: probes let through since the counter was last zero,
                \* as long as it is not tainted
    tainted,    \* history: the counter missed a probe since then
    outdated,   \* history: failures counts some from before the last closing
    kept,       \* history: a closing did not clear the failure count
    rushed,     \* history: a reader overlapped with an opening half done
    warranted   \* history: the latest opening was backed

keys == <<circuit, window, failures, probes>>
locals == <<task, saw, read, gone, backed>>
breakerHistory == <<admitted, tainted, outdated, kept, rushed, warranted>>
breakerVars == <<keys, row, at, locals, disturbances, breakerHistory>>

Circuits == {"closed", "open", "half_open"}
Counter(n, m) == [requests |-> n, successes |-> m]
Zero == Counter(0, 0)

\* GetCircuitState; the half-open test; the attempt; a failure; opening; a
\* success; closing.
Places ==
    {"idle", "read", "exists", "half", "probe", "count", "admitted"}
    \union {"tally", "weigh", "drop", "openState", "openUntil", "openRow"}
    \union {"clear", "good", "win", "closeState", "closeUntil", "closeCount", "closeRow"}

BreakerTypeOK ==
    /\ circuit \in Circuits
    /\ window \in BOOLEAN
    /\ failures \in 0 .. Threshold
    /\ probes \in [requests : 0 .. HalfOpenMax, successes : 0 .. SuccessesToClose]
    /\ row \in BOOLEAN
    /\ at \in [Callers -> Places]
    /\ task \in [Callers -> {"admit", "success", "failure"}]
    /\ saw \in [Callers -> Circuits]
    /\ read \in [Callers -> [requests : 0 .. HalfOpenMax, successes : 0 .. SuccessesToClose]]
    /\ \A c \in Callers : at[c] = "count" => read[c].requests < HalfOpenMax
    /\ gone \in [Callers -> BOOLEAN]
    /\ backed \in [Callers -> BOOLEAN]
    /\ disturbances \in Nat
    /\ admitted \in Nat
    /\ {tainted, outdated, kept, rushed, warranted} \subseteq BOOLEAN

BreakerInit ==
    /\ circuit = "closed"
    /\ window = FALSE
    /\ failures = 0
    /\ probes = Zero
    /\ row = FALSE
    /\ at = [c \in Callers |-> "idle"]
    /\ task = [c \in Callers |-> "admit"]
    /\ saw = [c \in Callers |-> "closed"]
    /\ read = [c \in Callers |-> Zero]
    /\ gone = [c \in Callers |-> FALSE]
    /\ backed = [c \in Callers |-> FALSE]
    /\ disturbances = 0
    /\ admitted = 0
    /\ outdated = FALSE
    /\ tainted = FALSE
    /\ kept = FALSE
    /\ rushed = FALSE
    /\ warranted = FALSE

\* A command fails, a process dies or an operator steps in.
Disturb == disturbances < MaxDisturbances /\ disturbances' = disturbances + 1
MaybeLost(lost) == IF lost THEN Disturb ELSE UNCHANGED disturbances

Goto(c, p) == at' = [at EXCEPT ![c] = p]
UpTo(max, n) == IF n < max THEN n + 1 ELSE max

\* Callers in the middle of reading, opening or closing the circuit.
Looking == {c \in Callers : at[c] \in {"exists", "half"}}
HalfOpened == {c \in Callers : at[c] = "openUntil"}
Clearing == {c \in Callers : at[c] \in {"closeUntil", "closeCount"}}

\* The counter is deleted or expires.
ForgetProbes ==
    /\ probes' = Zero
    /\ admitted' = 0
    /\ tainted' = FALSE


\* The caller ends: what it remembers goes with it.
Finish(c) ==
    /\ at' = [at EXCEPT ![c] = "idle"]
    /\ task' = [task EXCEPT ![c] = "admit"]
    /\ saw' = [saw EXCEPT ![c] = "closed"]
    /\ read' = [read EXCEPT ![c] = Zero]
    /\ gone' = [gone EXCEPT ![c] = FALSE]
    /\ backed' = [backed EXCEPT ![c] = FALSE]

GoOn(c, p) == Goto(c, p) /\ UNCHANGED locals
GoOnOrFinish(c, p, on) == IF on THEN GoOn(c, p) ELSE Finish(c)

-----------------------------------------------------------------------------
(* Slips: what some definitions would be with a mistake in the code.  They  *)
(* are part of no specification; each shows that a property would notice it. *)

\* A success sets the counter anew from its own result only.
CountWinAnew(c) ==
    /\ at[c] = "win"
    /\ \E lost \in BOOLEAN :
        IF read[c].successes + 1 >= SuccessesToClose
        THEN /\ GoOn(c, "closeState")
             /\ IF lost THEN UNCHANGED <<probes, admitted, tainted>> ELSE ForgetProbes
             /\ MaybeLost(lost)
        ELSE /\ probes' = Counter(0, read[c].successes + 1)
             /\ Finish(c)
             /\ UNCHANGED <<admitted, tainted, disturbances>>
    /\ UNCHANGED <<circuit, window, failures, row, outdated, kept, rushed, warranted>>

\* Closing forgets to reset the failure count.
CloseCountForgotten(c) ==
    /\ at[c] = "closeCount"
    /\ GoOn(c, "closeRow")
    /\ UNCHANGED <<keys, row, disturbances, breakerHistory>>

\* An open circuit turns half-open without a look at its recovery window.
LookWindowBlind(c) ==
    /\ at[c] = "exists"
    /\ GoOn(c, "half")
    /\ UNCHANGED <<keys, row, disturbances, breakerHistory>>

\* The provider is read with a context of its own, whoever has left.
WeighDetached(c) ==
    /\ at[c] = "weigh"
    /\ GoOnOrFinish(c, "openState", failures >= Threshold)
    /\ UNCHANGED <<keys, row, disturbances, breakerHistory>>

\* The half-open counter has no time limit.
ProbesStay ==
    /\ FALSE
    /\ UNCHANGED breakerVars

-----------------------------------------------------------------------------
(* GetCircuitState: GET the state; if open, EXISTS the window; if there is   *)
(* none, SET half-open.  A lost GET reads as closed.                         *)

After(t, s) ==
    CASE t = "admit" /\ s = "closed" -> "admitted"
      [] t = "admit" /\ s = "half_open" -> "probe"
      [] t = "success" /\ s = "closed" -> "clear"
      [] t = "success" /\ s = "half_open" -> "good"
      [] t = "failure" -> "tally"
      [] OTHER -> "idle"

Settle(c, s) ==
    IF After(task[c], s) = "idle"
    THEN Finish(c)
    ELSE /\ Goto(c, After(task[c], s))
         /\ saw' = [saw EXCEPT ![c] = IF task[c] = "failure" THEN s ELSE "closed"]
         /\ task' = [task EXCEPT ![c] = "admit"]
         /\ UNCHANGED <<read, gone, backed>>

ReadState(c) ==
    /\ at[c] = "read"
    /\ \E lost \in BOOLEAN :
        /\ IF circuit = "open" /\ ~lost
           THEN GoOn(c, "exists")
           ELSE Settle(c, IF lost THEN "closed" ELSE circuit)
        /\ MaybeLost(lost)
    /\ rushed' = (rushed \/ (HalfOpened # {} /\ at'[c] = "exists"))
    /\ UNCHANGED <<keys, row, admitted, tainted, outdated, kept, warranted>>

LookWindow(c) ==
    /\ at[c] = "exists"
    /\ \E lost \in BOOLEAN :
        /\ IF window \/ lost THEN Settle(c, "open") ELSE GoOn(c, "half")
        /\ MaybeLost(lost)
    /\ UNCHANGED <<keys, row, breakerHistory>>

TurnHalfOpen(c) ==
    /\ at[c] = "half"
    /\ \E lost \in BOOLEAN :
        /\ circuit' = IF lost THEN circuit ELSE "half_open"
        /\ MaybeLost(lost)
    /\ Settle(c, "half_open")
    /\ UNCHANGED <<window, failures, probes, row, breakerHistory>>

-----------------------------------------------------------------------------
(* CanExecute, behind the health gate on the provider's row.                 *)

\* A request reaches the provider.  (It may have lost its client before: that
\* shows where the context is looked at, see ClientLeaves.)
Arrive(r) ==
    /\ at[r] = "idle"
    /\ ~row
    /\ Goto(r, "read")
    /\ UNCHANGED <<keys, row, locals, disturbances, breakerHistory>>

\* The row turns half_open, if that statement succeeds; then canExecuteHalfOpen
\* reads the counter.  An error reads as zero.
ReadProbes(c) ==
    /\ at[c] = "probe"
    /\ \E lost \in BOOLEAN :
        LET counter == IF lost THEN Zero ELSE probes IN
        /\ IF counter.requests >= HalfOpenMax
           THEN Finish(c)
           ELSE /\ Goto(c, "count")
                /\ read' = [read EXCEPT ![c] = counter]
                /\ UNCHANGED <<task, saw, gone, backed>>
        /\ MaybeLost(lost)
    /\ row' = (row /\ gone[c])
    /\ UNCHANGED <<keys, breakerHistory>>

\* It writes back what it has read, plus one.
CountProbe(c) ==
    /\ at[c] = "count"
    /\ \E lost \in BOOLEAN :
        /\ probes' = IF lost THEN probes ELSE Counter(read[c].requests + 1, read[c].successes)
        /\ tainted' = (tainted \/ lost \/ probes # read[c])
        /\ MaybeLost(lost)
    /\ admitted' = IF tainted' THEN 0 ELSE admitted + 1
    /\ Goto(c, "admitted")
    /\ read' = [read EXCEPT ![c] = Zero]
    /\ UNCHANGED <<circuit, window, failures, row, task, saw, gone, backed,
                   outdated, kept, rushed, warranted>>

\* The provider's rate limiter refuses the request, which nobody reports.
RefuseRate(c) ==
    /\ at[c] = "admitted"
    /\ Finish(c)
    /\ UNCHANGED <<keys, row, disturbances, breakerHistory>>

\* The attempt ends with an answer, an error or a timeout.
Attempt(c) ==
    /\ at[c] = "admitted"
    /\ \E outcome \in {"success", "failure"} :
        /\ gone[c] => outcome = "failure"
        /\ task' = [task EXCEPT ![c] = outcome]
    /\ Goto(c, "read")
    /\ UNCHANGED <<keys, row, saw, read, gone, backed, disturbances, breakerHistory>>

-----------------------------------------------------------------------------
(* RecordFailure.                                                            *)

IncrementFailures(c) ==
    /\ at[c] = "tally"
    /\ \/ /\ failures' = UpTo(Threshold, failures)
          /\ \/ /\ saw[c] # "open"
                /\ Goto(c, IF saw[c] = "closed" THEN "weigh" ELSE "drop")
                /\ saw' = [saw EXCEPT ![c] = "closed"]
                /\ backed' = [backed EXCEPT ![c] = ~gone[c]]
                /\ UNCHANGED <<task, read, gone>>
             \/ saw[c] = "open" /\ Finish(c)
          /\ UNCHANGED disturbances
       \/ /\ Disturb
          /\ Finish(c)
          /\ UNCHANGED failures
    /\ UNCHANGED <<circuit, window, probes, row, breakerHistory>>

\* checkAndOpenCircuit: read the provider, then the count.  A count that
\* cannot be read is zero.
Weigh(c) ==
    /\ at[c] = "weigh"
    /\ \E lost \in BOOLEAN :
        /\ GoOnOrFinish(c, "openState", ~gone[c] /\ ~lost /\ failures >= Threshold)
        /\ MaybeLost(lost)
    /\ UNCHANGED <<keys, row, breakerHistory>>

\* openCircuitFromHalfOpen: delete the counter, then read the provider, which
\* fails without a client.
DropProbes(c) ==
    /\ at[c] = "drop"
    /\ \E lost \in BOOLEAN :
        /\ IF lost THEN UNCHANGED <<probes, admitted, tainted>> ELSE ForgetProbes
        /\ MaybeLost(lost)
    /\ GoOnOrFinish(c, "openState", ~gone[c])
    /\ UNCHANGED <<circuit, window, failures, row, outdated, kept, rushed, warranted>>

\* openCircuit: the state, then the window, then the row.
OpenState(c) ==
    /\ at[c] = "openState"
    /\ \/ /\ circuit' = "open"
          /\ warranted' = backed[c]
          /\ GoOn(c, "openUntil")
          /\ UNCHANGED disturbances
       \/ Disturb /\ Finish(c) /\ UNCHANGED <<circuit, warranted>>
    /\ rushed' = (rushed \/ (Looking # {} /\ at'[c] = "openUntil"))
    /\ UNCHANGED <<window, failures, probes, row, admitted, tainted, outdated, kept>>

OpenUntil(c) ==
    /\ at[c] = "openUntil"
    /\ \/ window' = TRUE /\ GoOn(c, "openRow") /\ UNCHANGED disturbances
       \/ Disturb /\ Finish(c) /\ UNCHANGED window
    /\ UNCHANGED <<circuit, failures, probes, row, breakerHistory>>

OpenRow(c) ==
    /\ at[c] = "openRow"
    /\ \E lost \in BOOLEAN :
        /\ row' = (row \/ ~(gone[c] \/ lost))
        /\ MaybeLost(lost)
    /\ Finish(c)
    /\ UNCHANGED <<keys, breakerHistory>>

-----------------------------------------------------------------------------
(* RecordSuccess.                                                            *)

\* Closed: the failure count is deleted.
ClearFailures(c) ==
    /\ at[c] = "clear"
    /\ \E lost \in BOOLEAN :
        /\ failures' = IF lost THEN failures ELSE 0
        /\ outdated' = (outdated /\ lost)
        /\ MaybeLost(lost)
    /\ Finish(c)
    /\ UNCHANGED <<circuit, window, probes, row, admitted, tainted, kept, rushed, warranted>>

\* Half-open: one more success.
ReadWins(c) ==
    /\ at[c] = "good"
    /\ \E lost \in BOOLEAN :
        /\ read' = [read EXCEPT ![c] = IF lost THEN Zero ELSE probes]
        /\ MaybeLost(lost)
    /\ Goto(c, "win")
    /\ UNCHANGED <<keys, row, task, saw, gone, backed, breakerHistory>>

\* Enough of them delete the counter and close the circuit; otherwise what was
\* read is written back, plus one.
CountWin(c) ==
    /\ at[c] = "win"
    /\ \E lost \in BOOLEAN :
        /\ IF read[c].successes + 1 >= SuccessesToClose
           THEN /\ GoOn(c, "closeState")
                /\ IF lost THEN UNCHANGED <<probes, admitted, tainted>> ELSE ForgetProbes
           ELSE /\ Finish(c)
                /\ probes' = IF lost THEN probes
                             ELSE Counter(read[c].requests, read[c].successes + 1)
                /\ tainted' = (tainted \/ (~lost /\ probes # read[c]))
                /\ UNCHANGED admitted
        /\ MaybeLost(lost)
    /\ UNCHANGED <<circuit, window, failures, row, outdated, kept, rushed, warranted>>

\* closeCircuit: the state, then the window, then the count, then the row.
CloseState(c) ==
    /\ at[c] = "closeState"
    /\ \/ /\ circuit' = "closed"
          /\ outdated' = (failures > 0)
          /\ GoOn(c, "closeUntil")
          /\ UNCHANGED disturbances
       \/ Disturb /\ Finish(c) /\ UNCHANGED <<circuit, outdated>>
    /\ UNCHANGED <<window, failures, probes, row, admitted, tainted, kept, rushed, warranted>>

CloseUntil(c) ==
    /\ at[c] = "closeUntil"
    /\ \E lost \in BOOLEAN :
        /\ window' = (window /\ lost)
        /\ MaybeLost(lost)
    /\ GoOn(c, "closeCount")
    /\ UNCHANGED <<circuit, failures, probes, row, breakerHistory>>

CloseCount(c) ==
    /\ at[c] = "closeCount"
    /\ \E lost \in BOOLEAN :
        /\ failures' = IF lost THEN failures ELSE 0
        /\ outdated' = (outdated /\ lost)
        /\ kept' = (kept \/ lost)
        /\ MaybeLost(lost)
    /\ GoOn(c, "closeRow")
    /\ UNCHANGED <<circuit, window, probes, row, admitted, tainted, rushed, warranted>>

CloseRow(c) ==
    /\ at[c] = "closeRow"
    /\ \E lost \in BOOLEAN :
        /\ row' = (row /\ (gone[c] \/ lost))
        /\ MaybeLost(lost)
    /\ Finish(c)
    /\ UNCHANGED <<keys, breakerHistory>>

-----------------------------------------------------------------------------
(* Operators, time, clients and processes.                                   *)

\* ForceOpen leaves the half-open counter as it is.
ForceOpen(o) ==
    /\ at[o] = "idle"
    /\ Disturb
    /\ Goto(o, "openState")
    /\ backed' = [backed EXCEPT ![o] = TRUE]
    /\ UNCHANGED <<keys, row, task, saw, read, gone, breakerHistory>>

ForceClose(o) ==
    /\ at[o] = "idle"
    /\ Disturb
    /\ ForgetProbes
    /\ GoOn(o, "closeState")
    /\ UNCHANGED <<circuit, window, failures, row, outdated, kept, rushed, warranted>>

WindowPasses ==
    /\ window
    /\ window' = FALSE
    /\ UNCHANGED <<circuit, failures, probes, row, at, locals, disturbances, breakerHistory>>

RowPasses ==
    /\ row
    /\ row' = FALSE
    /\ UNCHANGED <<keys, at, locals, disturbances, breakerHistory>>

ProbesExpire ==
    /\ probes # Zero
    /\ ForgetProbes
    /\ UNCHANGED <<circuit, window, failures, row, at, locals, disturbances>>
    /\ UNCHANGED <<outdated, kept, rushed, warranted>>

\* Only database statements look at the context: leaving before the next of
\* them is leaving right before it.
ClientLeaves(c) ==
    /\ at[c] \in {"probe", "admitted", "weigh", "drop", "openRow", "closeRow"}
    /\ ~gone[c]
    /\ gone' = [gone EXCEPT ![c] = TRUE]
    /\ UNCHANGED <<keys, row, at, task, saw, read, backed, disturbances, breakerHistory>>

\* The API process of a caller dies.
Die(c) ==
    /\ at[c] # "idle"
    /\ Disturb
    /\ kept' = (kept \/ c \in Clearing)
    /\ Finish(c)
    /\ UNCHANGED <<keys, row, admitted, tainted, outdated, rushed, warranted>>

-----------------------------------------------------------------------------
GetCircuitState(c) == ReadState(c) \/ LookWindow(c) \/ TurnHalfOpen(c)

CanExecute(c) == ReadProbes(c) \/ CountProbe(c)

RecordFailure(c) ==
    \/ IncrementFailures(c) \/ Weigh(c) \/ DropProbes(c)
    \/ OpenState(c) \/ OpenUntil(c) \/ OpenRow(c)

RecordSuccess(c) ==
    \/ ClearFailures(c) \/ ReadWins(c) \/ CountWin(c)
    \/ CloseState(c) \/ CloseUntil(c) \/ CloseCount(c) \/ CloseRow(c)

CallerStep(c) ==
    \/ GetCircuitState(c) \/ CanExecute(c) \/ RefuseRate(c) \/ Attempt(c)
    \/ RecordFailure(c) \/ RecordSuccess(c)

BreakerTime == WindowPasses \/ RowPasses \/ ProbesExpire

BreakerNext ==
    \/ \E r \in Requests : Arrive(r)
    \/ \E o \in Operators : ForceOpen(o) \/ ForceClose(o)
    \/ \E c \in Callers : CallerStep(c) \/ ClientLeaves(c) \/ Die(c)
    \/ BreakerTime

BreakerSpec == BreakerInit /\ [][BreakerNext]_breakerVars

\* Every caller that runs goes on, and time passes.
BreakerFairness ==
    /\ \A c \in Callers : WF_breakerVars(CallerStep(c))
    /\ WF_breakerVars(WindowPasses) /\ WF_breakerVars(RowPasses)
    /\ WF_breakerVars(ProbesExpire)

-----------------------------------------------------------------------------
(* Properties.                                                               *)

\* While the circuit is half-open the counter counts the probes let through,
\* and they are at most HalfOpenMax, unless two callers overlapped between
\* their GET and SET of the counter or a command on it was lost
\* (canExecuteHalfOpen and handleHalfOpenSuccess are no atomic updates).
ProbesCounted ==
    tainted \/ (probes.requests = admitted /\ admitted <= HalfOpenMax)

\* A circuit that was closed opens again only for failures reported since,
\* unless its closing has not yet come to the failure count, was cut short
\* there or lost the command: closeCircuit publishes the closed state first.
CountIsFresh ==
    outdated => Clearing # {} \/ kept

\* Probes start before the recovery window has passed only if somebody read
\* the circuit between the two commands of an opening (SetCircuitState).
WindowServed ==
    (circuit = "half_open" /\ window) => rushed

\* An attempt that fails because its client has left opens nothing, whatever
\* the count: each opening, the latest one in every state, is the work of an
\* operator or of a failure that happened to a client who was there.  The
\* others do count: all the failures below the threshold may be of that kind.
\* The provider is read with the client's context, after the count went up.
DisconnectsNeverOpen ==
    circuit # "closed" => warranted

\* While requests keep coming the provider is tried again and again: no
\* window, no full counter, no stale row keeps it out for ever, although
\* probes that the rate limiter turns away are never reported.
NeverGivenUp ==
    (\E r \in Requests : at[r] = "read") ~> (\E r \in Requests : at[r] = "admitted")
=============================================================================
