--------------------------- MODULE StreamFailover ---------------------------
(***************************************************************************)
(* One streamed chat completion: the loop over the providers, the stream's *)
(* Redis entry that locks the request to a provider at the first chunk,    *)
(* the executor goroutine that copies upstream lines to the client, and    *)
(* the charge (scheduler/cascade_controller.go, scheduler/stream_guard.go, *)
(* scheduler/runtime_state_store.go, service/gateway_service_v2.go).       *)
(*                                                                         *)
(* The controller and the executor of each attempt run concurrently and    *)
(* meet in the entry, the first-chunk timer, the result channel and the    *)
(* attempt's context.  An executor whose context is cancelled is not       *)
(* stopped: it goes on until the next call that looks at the context.      *)
(***************************************************************************)
EXTENDS Naturals

CONSTANTS
    Providers,
    WebSocket,  \* providers whose source transport is a WebSocket
    None,
    MaxLines,   \* bound: lines one upstream sends
    MaxFaults   \* bound: failing Redis commands

ASSUME StreamFailoverAssumption ==
    /\ WebSocket \subseteq Providers
    /\ None \notin Providers
    /\ MaxLines \in Nat
    /\ MaxFaults \in Nat

VARIABLES
    at,         \* where the controller stands
    cur,        \* the provider of the current attempt, or None
    tried,      \* the providers the loop has gone past or is at
    entry,      \* entry[p]: the Redis entry of the attempt with p
    timer,      \* timer[p]: its first-chunk timer
    alive,      \* alive[p]: its context is not cancelled
    result,     \* result[p]: what its executor put into errCh
    exec,       \* exec[p]: where its executor stands
    first,      \* first[p]: onFirstChunk has been called
    lines,      \* lines[p]: lines received from p
    gone,       \* the client has closed the connection
    faults,
    sources,    \* history: the providers whose bytes were sent to the client
    held,       \* history: locked before the controller's last look
    dropped,    \* history: given up for the next provider
    doubt,      \* history: the lock of p could not be read
    leaked,     \* history: the entry of p could not be deleted
    charges     \* history: charges[p]: charges for an answer of p

attempt == <<entry, timer, alive>>
executor == <<result, exec, first, lines>>
history == <<sources, held, dropped, doubt, leaked, charges>>
vars == <<at, cur, tried, attempt, executor, gone, faults, history>>

\* The controller is in the loop, in the select of executeStreamWithGuard,
\* about to read the lock for one of its three branches, about to cancel,
\* about to delete the entry, or past it.
Reading == {"readTimer", "readResult", "readDone"}
Looking == {"watch"} \union Reading
Ending == {"drop", "fail", "win"}
Attempting == {"watch", "cancel"} \union Reading \union Ending
Places == {"next", "settle", "answered"} \union Attempting

\* The executor: "lock" and "disarm" are the two halves of onFirstChunk.
Stages == {"off", "connect", "receive", "other", "data", "lock", "disarm", "ended"}

TypeOK ==
    /\ at \in Places
    /\ cur \in Providers \union {None}
    /\ at \in Attempting \union {"settle"} => cur \in Providers
    /\ tried \subseteq Providers
    /\ entry \in [Providers -> {"none", "open", "locked"}]
    /\ timer \in [Providers -> {"off", "running", "fired"}]
    /\ alive \in [Providers -> BOOLEAN]
    /\ result \in [Providers -> {"none", "ok", "error"}]
    /\ exec \in [Providers -> Stages]
    /\ first \in [Providers -> BOOLEAN]
    /\ lines \in [Providers -> Nat]
    /\ gone \in BOOLEAN
    /\ faults \in Nat
    /\ sources \subseteq Providers
    /\ held \subseteq Providers
    /\ dropped \subseteq Providers
    /\ doubt \subseteq Providers
    /\ leaked \subseteq Providers
    /\ charges \in [Providers -> Nat]

Init ==
    /\ at = "next"
    /\ cur = None
    /\ tried = {}
    /\ entry = [p \in Providers |-> "none"]
    /\ timer = [p \in Providers |-> "off"]
    /\ alive = [p \in Providers |-> FALSE]
    /\ result = [p \in Providers |-> "none"]
    /\ exec = [p \in Providers |-> "off"]
    /\ first = [p \in Providers |-> FALSE]
    /\ lines = [p \in Providers |-> 0]
    /\ gone = FALSE
    /\ faults = 0
    /\ sources = {}
    /\ held = {}
    /\ dropped = {}
    /\ doubt = {}
    /\ leaked = {}
    /\ charges = [p \in Providers |-> 0]

\* A Redis command fails.
Fault == faults < MaxFaults /\ faults' = faults + 1
MaybeFault(lost) == IF lost THEN Fault ELSE UNCHANGED faults

-----------------------------------------------------------------------------
(* Slips: what some definitions would be with a mistake in the code.  They  *)
(* are part of no specification; each shows that a property would notice it. *)

\* Only a stream that is not locked notices its deadline.
SeeDoneUnlocked ==
    /\ at = "watch"
    /\ ~alive[cur] /\ entry[cur] # "locked"
    /\ at' = "readDone"
    /\ UNCHANGED <<cur, tried, attempt, executor, gone, faults, history>>

\* The first-chunk timeout gives up without a look at the lock.
VerdictHasty(locked) ==
    CASE at = "readTimer" -> "cancel"
      [] at = "readResult" /\ result[cur] = "ok" -> "win"
      [] OTHER -> IF locked THEN "fail" ELSE "drop"

\* A stream that breaks once it is locked is taken for a finished one.
VerdictLenient(locked) ==
    CASE at = "readTimer" -> IF locked THEN "watch" ELSE "cancel"
      [] at = "readResult" /\ (locked \/ result[cur] = "ok") -> "win"
      [] OTHER -> IF locked THEN "fail" ELSE "drop"

\* executeStreamWithGuard returns without its deferred cancel.
EndUncancelled(lost) ==
    /\ at \in Ending
    /\ MaybeFault(lost)
    /\ entry' = IF lost THEN entry ELSE [entry EXCEPT ![cur] = "none"]
    /\ leaked' = IF lost THEN leaked \union {cur} ELSE leaked
    /\ timer' = [timer EXCEPT ![cur] = "off"]
    /\ dropped' = IF at = "drop" THEN dropped \union {cur} ELSE dropped
    /\ at' = CASE at = "drop" -> "next" [] at = "fail" -> "answered"
               [] OTHER -> "settle"
    /\ UNCHANGED <<cur, tried, alive, executor, gone, sources, held, doubt, charges>>

\* The lock script does not ask whether the entry is still there.
LockBlind(p, done) ==
    /\ exec[p] = "lock"
    /\ UNCHANGED faults
    /\ entry' = [entry EXCEPT ![p] = "locked"]
    /\ exec' = [exec EXCEPT ![p] = "disarm"]
    /\ first' = [first EXCEPT ![p] = TRUE]
    /\ UNCHANGED <<at, cur, tried, timer, alive, result, lines, gone, history>>

\* A stream that breaks, locked or not, is the end of the request.
VerdictFinal(locked) ==
    CASE at = "readTimer" -> IF locked THEN "watch" ELSE "cancel"
      [] at = "readResult" /\ result[cur] = "ok" -> "win"
      [] OTHER -> "fail"

-----------------------------------------------------------------------------
(* The loop of ExecuteStreamWithFailover *)

\* The breaker is open, the rate limit is reached, or StartStream fails: on
\* to the next provider.
Skip(p) ==
    /\ at = "next"
    /\ p \notin tried
    /\ tried' = tried \union {p}
    /\ UNCHANGED <<at, cur, attempt, executor, gone, faults, history>>

\* executeStreamWithGuard: the entry is stored, the timer runs, the executor
\* is launched.  A client that has left makes the context dead on arrival.
Start(p) ==
    /\ at = "next"
    /\ p \notin tried
    /\ at' = "watch"
    /\ cur' = p
    /\ tried' = tried \union {p}
    /\ entry' = [entry EXCEPT ![p] = "open"]
    /\ timer' = [timer EXCEPT ![p] = "running"]
    /\ alive' = [alive EXCEPT ![p] = ~gone]
    /\ exec' = [exec EXCEPT ![p] = "connect"]
    /\ UNCHANGED <<result, first, lines, gone, faults, history>>

\* All providers have failed.
Exhausted ==
    /\ at = "next"
    /\ tried = Providers
    /\ at' = "answered"
    /\ UNCHANGED <<cur, tried, attempt, executor, gone, faults, history>>

-----------------------------------------------------------------------------
(* The select of executeStreamWithGuard: any ready branch may be taken *)

SeeTimer ==
    /\ at = "watch"
    /\ timer[cur] = "fired"
    /\ timer' = [timer EXCEPT ![cur] = "off"]
    /\ at' = "readTimer"
    /\ UNCHANGED <<cur, tried, entry, alive, executor, gone, faults, history>>

SeeResult ==
    /\ at = "watch"
    /\ result[cur] # "none"
    /\ at' = "readResult"
    /\ UNCHANGED <<cur, tried, attempt, executor, gone, faults, history>>

SeeDone ==
    /\ at = "watch"
    /\ ~alive[cur]
    /\ at' = "readDone"
    /\ UNCHANGED <<cur, tried, attempt, executor, gone, faults, history>>

\* What the branch does once it knows whether the stream is locked.
Verdict(locked) ==
    CASE at = "readTimer" -> IF locked THEN "watch" ELSE "cancel"
      [] at = "readResult" /\ result[cur] = "ok" -> "win"
      [] OTHER -> IF locked THEN "fail" ELSE "drop"

\* IsLocked; the caller drops its error, and an error reads as "not locked".
ReadLock(lost) ==
    /\ at \in Reading
    /\ MaybeFault(lost)
    /\ at' = Verdict(entry[cur] = "locked" /\ ~lost)
    /\ doubt' = IF lost THEN doubt \union {cur} ELSE doubt
    /\ UNCHANGED <<cur, tried, attempt, executor, gone, sources, held, dropped,
                   leaked, charges>>

\* The first chunk was late: cancel the attempt.
Cancel ==
    /\ at = "cancel"
    /\ at' = "drop"
    /\ alive' = [alive EXCEPT ![cur] = FALSE]
    /\ UNCHANGED <<cur, tried, entry, timer, executor, gone, faults, history>>

\* EndStream, then the deferred cancel and timer stop, and the loop or the
\* handler goes on.
End(lost) ==
    /\ at \in Ending
    /\ MaybeFault(lost)
    /\ entry' = IF lost THEN entry ELSE [entry EXCEPT ![cur] = "none"]
    /\ leaked' = IF lost THEN leaked \union {cur} ELSE leaked
    /\ timer' = [timer EXCEPT ![cur] = "off"]
    /\ alive' = [alive EXCEPT ![cur] = FALSE]
    /\ dropped' = IF at = "drop" THEN dropped \union {cur} ELSE dropped
    /\ at' = CASE at = "drop" -> "next" [] at = "fail" -> "answered"
               [] OTHER -> "settle"
    /\ UNCHANGED <<cur, tried, executor, gone, sources, held, doubt, charges>>

\* handleStreamWithScheduler after success: DeductBalance and DeductQuota,
\* whose errors are dropped.
Settle ==
    /\ at = "settle"
    /\ at' = "answered"
    /\ \E n \in {0, 1} : charges' = [charges EXCEPT ![cur] = @ + n]
    /\ UNCHANGED <<cur, tried, attempt, executor, gone, faults, sources, held,
                   dropped, doubt, leaked>>

-----------------------------------------------------------------------------
(* The executor: executeStreamRequest, executeStreamRequestByWebSocket *)

\* The upstream has accepted the request.
Connect(p) ==
    /\ exec[p] = "connect"
    /\ alive[p]
    /\ exec' = [exec EXCEPT ![p] = "receive"]
    /\ UNCHANGED <<at, cur, tried, attempt, result, first, lines, gone, faults, history>>

Finish(p, v) ==
    /\ exec' = [exec EXCEPT ![p] = "ended"]
    /\ result' = [result EXCEPT ![p] = v]
    /\ UNCHANGED <<at, cur, tried, attempt, first, lines, gone, faults, history>>

\* The upstream, the client's connection or the context fails.
Break(p) == exec[p] \in {"connect", "receive", "other", "data"} /\ Finish(p, "error")

\* The upstream closes its stream, with or without [DONE].
Eof(p) == exec[p] = "receive" /\ Finish(p, "ok")

\* A line arrives, from the network or, whatever the context, the buffer.  A
\* WebSocket locks before its first chunk is written; an HTTP stream after a
\* line that starts with "data:", and it writes other lines too.
Receive(p) ==
    /\ exec[p] = "receive"
    /\ lines[p] < MaxLines
    /\ lines' = [lines EXCEPT ![p] = @ + 1]
    /\ \E next \in IF p \notin WebSocket THEN {"other", "data"}
                   ELSE IF first[p] THEN {"data"} ELSE {"lock"} :
           exec' = [exec EXCEPT ![p] = next]
    /\ UNCHANGED <<at, cur, tried, attempt, result, first, gone, faults, history>>

\* writer.Write and Flush; nothing on this path asks for the context.
Write(p) ==
    /\ exec[p] \in {"other", "data"}
    /\ sources' = sources \union {p}
    /\ exec' = [exec EXCEPT ![p] =
                  IF exec[p] = "data" /\ ~first[p] THEN "lock" ELSE "receive"]
    /\ UNCHANGED <<at, cur, tried, attempt, result, first, lines, gone, faults,
                   held, dropped, doubt, leaked, charges>>

\* OnFirstChunk: the script changes an entry that exists; with a cancelled
\* context it may have been sent or not.  The caller drops every error.
Lock(p, done) ==
    /\ exec[p] = "lock"
    /\ IF done
       THEN entry[p] = "open" /\ UNCHANGED faults
       ELSE IF entry[p] = "open" /\ alive[p] THEN Fault ELSE UNCHANGED faults
    /\ entry' = IF done THEN [entry EXCEPT ![p] = "locked"] ELSE entry
    /\ held' = IF done /\ at \in Looking /\ cur = p THEN held \union {p} ELSE held
    /\ exec' = [exec EXCEPT ![p] = "disarm"]
    /\ first' = [first EXCEPT ![p] = TRUE]
    /\ UNCHANGED <<at, cur, tried, timer, alive, result, lines, gone, sources,
                   dropped, doubt, leaked, charges>>

\* The rest of onFirstChunk: stop the timer and drain its channel.
Disarm(p) ==
    /\ exec[p] = "disarm"
    /\ timer' = [timer EXCEPT ![p] = "off"]
    /\ exec' = [exec EXCEPT ![p] = IF p \in WebSocket THEN "data" ELSE "receive"]
    /\ UNCHANGED <<at, cur, tried, entry, alive, result, first, lines, gone,
                   faults, history>>

-----------------------------------------------------------------------------
(* Time and the client *)

TimerFires(p) ==
    /\ timer[p] = "running"
    /\ timer' = [timer EXCEPT ![p] = "fired"]
    /\ UNCHANGED <<at, cur, tried, entry, alive, executor, gone, faults, history>>

\* The attempt's timeout.
Deadline(p) ==
    /\ alive[p]
    /\ alive' = [alive EXCEPT ![p] = FALSE]
    /\ UNCHANGED <<at, cur, tried, entry, timer, executor, gone, faults, history>>

\* The client closes the connection, which cancels the request's context.
Leave ==
    /\ ~gone
    /\ gone' = TRUE
    /\ alive' = [p \in Providers |-> FALSE]
    /\ UNCHANGED <<at, cur, tried, entry, timer, executor, faults, history>>

\* The five minutes of an entry; locking it removes the limit.
Expire(p) ==
    /\ entry[p] = "open"
    /\ entry' = [entry EXCEPT ![p] = "none"]
    /\ UNCHANGED <<at, cur, tried, timer, alive, executor, gone, faults, history>>

-----------------------------------------------------------------------------
Controller ==
    \/ \E p \in Providers : Skip(p) \/ Start(p)
    \/ Exhausted
    \/ SeeTimer
    \/ SeeResult
    \/ SeeDone
    \/ \E lost \in BOOLEAN : ReadLock(lost) \/ End(lost)
    \/ Cancel
    \/ Settle

Executor(p) ==
    \/ Connect(p)
    \/ Break(p)
    \/ Eof(p)
    \/ Receive(p)
    \/ Write(p)
    \/ \E done \in BOOLEAN : Lock(p, done)
    \/ Disarm(p)

Environment ==
    \/ \E p \in Providers : TimerFires(p) \/ Deadline(p) \/ Expire(p)
    \/ Leave

Next == Controller \/ (\E p \in Providers : Executor(p)) \/ Environment

Spec == Init /\ [][Next]_vars

\* The controller is never starved and every attempt has a deadline; nothing
\* is asked of the upstreams or of the executors.
Fairness == WF_vars(Controller) /\ \A p \in Providers : WF_vars(Deadline(p))

FairSpec == Spec /\ Fairness

-----------------------------------------------------------------------------
(* Properties *)

\* A request that was locked to a provider while the controller was still to
\* look never goes on to another one, unless Redis failed to say so: not
\* when the timer has fired at the same time, the deadline passes, the stream
\* breaks or the client leaves.
NoSwitchOnceLocked == \A p \in held : p \in doubt \/ p \notin dropped

\* Only the current attempt has a live context: before the next provider is
\* asked and before the handler returns, everything given up is cancelled.
SoleLive ==
    \A p \in Providers : alive[p] => at \in Attempting /\ p = cur

\* A charge is for one answer that its upstream ended, the last one tried:
\* never for a stream that broke or was given up, nor after another provider
\* had locked the request.
ChargedForCompleteAnswer ==
    \A p \in Providers : charges[p] > 0 =>
        /\ charges[p] = 1 /\ result[p] = "ok" /\ p = cur /\ p \notin dropped
        /\ \A q \in held : q = p \/ q \in doubt

\* No entry outlives its attempt unless deleting it failed: an executor that
\* is late with onFirstChunk cannot bring back an entry without a time limit.
EntryHasOwner ==
    \A p \in Providers : entry[p] # "none" =>
        (at \in Attempting /\ p = cur) \/ p \in leaked

\* The request keeps the promise of Failover: one provider at a time and none
\* twice, on to the next one whenever the request is not locked, to the end of
\* the list, and no answer delivered or charged that is not complete.
InTurn == at \in Attempting \union {"settle"}
Phase == CASE at = "settle" -> "delivered" [] at = "answered" -> "closed"
           [] OTHER -> "asking"
Turn == IF InTurn THEN cur ELSE None
Past == IF InTurn THEN tried \ {cur} ELSE tried
Pinned == InTurn /\ cur \in held \ doubt
Whole == {p \in Providers : result[p] = "ok"}
Contract == INSTANCE Failover
              WITH phase <- Phase, turn <- Turn, past <- Past,
                   pinned <- Pinned, complete <- Whole
Implements == Contract!Spec

\* The client is answered, whatever the upstreams do.
RequestEnds == <>(at = "answered")

\* The design document: once stream content goes to the client the request
\* stays with its source, so no attempt starts after the first byte.
NoSwitchAfterFirstByte == [][\A p \in Providers : Start(p) => sources = {}]_vars
=============================================================================
