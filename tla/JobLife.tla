------------------------------ MODULE JobLife ------------------------------
(***************************************************************************)
(* What the job queue promises about every single task, with no row lock,  *)
(* goroutine, provider or commit point: it is worked on by one run at a    *)
(* time, comes back to the queue when that run stops without a result, is  *)
(* finished once, and is charged only between its result and its rest.     *)
(* Only a task that is requeued under a live run leaves this promise       *)
(* ("overlapped").  GenerationJobs implements this module, for all tasks   *)
(* at once (see GenerationJobs!Implements).                                *)
(***************************************************************************)
EXTENDS Naturals

CONSTANT Tasks

VARIABLES
    phase,      \* phase[t]: where t is in its life
    paid        \* paid[t]: how often t was charged

vars == <<phase, paid>>

Phases == {"absent", "waiting", "running", "orphaned", "owed", "settled",
           "failed", "overlapped"}

Init ==
    /\ phase = [t \in Tasks |-> "absent"]
    /\ paid = [t \in Tasks |-> 0]

Turn(t, from, to) == phase[t] = from /\ phase'[t] \in to
Free(t) == paid'[t] = paid[t]

\* A task is queued, or run at once by the handler that created it.
Create(t) == Turn(t, "absent", {"waiting", "running"}) /\ Free(t)

Claim(t) == Turn(t, "waiting", {"running"}) /\ Free(t)

\* A run ends with a result, an error, or an upstream that needs more time.
Finish(t) == Turn(t, "running", {"owed", "failed", "waiting"}) /\ Free(t)

\* A run dies, or cannot save what it has.
Die(t) == Turn(t, "running", {"orphaned"}) /\ Free(t)

\* A task without a run goes back to the queue ...
Recover(t) == Turn(t, "orphaned", {"waiting"}) /\ Free(t)

\* ... and so may one that only looks as if it had none.
Overlap(t) == Turn(t, "running", {"overlapped"}) /\ Free(t)

\* The charge, at most one, after which nothing more happens.
Settle(t) ==
    /\ Turn(t, "owed", {"settled"})
    /\ paid'[t] \in {paid[t], paid[t] + 1}

\* No promise about an overlapped task.
Anything(t) == Turn(t, "overlapped", {"overlapped"})

Rest(t) == phase'[t] = phase[t] /\ Free(t)

Step(t) ==
    \/ Create(t) \/ Claim(t) \/ Finish(t) \/ Die(t) \/ Recover(t)
    \/ Overlap(t) \/ Settle(t) \/ Anything(t) \/ Rest(t)

Next ==
    /\ phase' \in [Tasks -> Phases]
    /\ paid' \in [Tasks -> Nat]
    /\ \A t \in Tasks : Step(t)

Spec == Init /\ [][Next]_vars
=============================================================================
