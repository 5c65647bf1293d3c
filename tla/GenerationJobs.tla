-------------------------- MODULE GenerationJobs --------------------------
(***************************************************************************)
(* Image and video generation: creation under an idempotency key, the      *)
(* generation_tasks table used as a queue, the job workers that claim and  *)
(* requeue its rows, the commit point in Redis that ties a task to one     *)
(* upstream, and the charge of a finished task                             *)
(* (service/generation_service.go, service/generation_job_worker.go,       *)
(* repository/generation_repo.go, scheduler/commit_guard.go).              *)
(*                                                                         *)
(* A process is a job worker or the API server; run[p][t] is the goroutine *)
(* of p that works on t.  Every database statement, Redis command and      *)
(* upstream call is a step; a process may die between any two of them.     *)
(* Time is not counted: any processing row may become stale, and any       *)
(* attempt may hit its timeout.                                            *)
(***************************************************************************)
EXTENDS Naturals, FiniteSets

CONSTANTS
    Tasks, Keys, Creators,  \* rows, idempotency keys, create handlers at once
    Workers, Api,           \* job-worker processes, and the API server
    Providers, Instances,   \* upstream groups and their instances
    NoInstance,             \* the attempt goes ahead without an instance
    None,
    BatchSize, Concurrency, \* of GenerationJobWorkerConfig
    MaxPolls,               \* bound: "not finished yet" answers per task
    MaxFaults               \* bound: crashes, failed saves, Redis errors

Procs == Workers \union {Api}
Targets == Providers \X (Instances \union {NoInstance})

ASSUME GenerationJobsAssumption ==
    /\ Api \notin Workers /\ IsFiniteSet(Workers)
    /\ NoInstance \notin Instances
    /\ None \notin Targets \union Keys \union Tasks
    /\ BatchSize \in Nat \ {0}
    /\ Concurrency \in Nat \ {0}
    /\ MaxPolls \in Nat
    /\ MaxFaults \in Nat

VARIABLES
    status,     \* status[t]: the row's status column
    stale,      \* stale[t]: updated_at is older than StaleAfter
    record,     \* record[k]: the idempotency row's resource_id, or None
    expired,    \* expired[k]: its expires_at has passed
    creator,    \* creator[c]: a create handler
    run,        \* run[p][t]: the goroutine of p that works on t
    commit,     \* commit[t]: the Redis commit point, or None
    late,       \* <<p, t, x>>: an attempt given up on that may still commit x
    polls, faults,
    keyOf,      \* history: the key t was created under
    called,     \* history: the targets that were asked to make t
    charges,    \* history: how often t was charged
    stores,     \* history: how often t was saved as completed
    overlapped, \* history: t was requeued while a goroutine worked on it
    unguarded,  \* history: t's commit point expired or could not be read back
    doubtful    \* history: k was looked up while its record was not (yet) there

queue == <<status, stale>>
keys == <<record, expired, creator, keyOf, doubtful>>
guard == <<commit, late, unguarded>>
vars == <<queue, keys, run, guard, polls, faults, called, charges, stores, overlapped>>

Statuses == {"none", "pending", "processing", "completed", "failed"}
Terminal == {"completed", "failed"}

Stages == {"idle", "queued", "ready", "pick", "locked", "ensure", "setnx",
           "reload", "call", "wait", "save", "charge"}

\* A goroutine: its stage, the providers it has tried, the target of the
\* current attempt, whether it runs on a committed provider, and what it is
\* about to save.
Runs == [at : Stages, tried : SUBSET Providers, target : Targets \union {None},
         fixed : BOOLEAN, verdict : Statuses]
NoRun == [at |-> "idle", tried |-> {}, target |-> None, fixed |-> FALSE,
          verdict |-> "none"]
Ready == [NoRun EXCEPT !.at = "ready"]

NoCreator == [at |-> "idle", key |-> None, task |-> None, sync |-> FALSE]

TypeOK ==
    /\ status \in [Tasks -> Statuses]
    /\ stale \in [Tasks -> BOOLEAN]
    /\ record \in [Keys -> Tasks \union {None}]
    /\ expired \in [Keys -> BOOLEAN]
    /\ creator \in [Creators -> [at : {"idle", "insert", "record"},
                                 key : Keys \union {None},
                                 task : Tasks \union {None}, sync : BOOLEAN]]
    /\ \A c \in Creators : creator[c].at = "record" => creator[c].task \in Tasks
    /\ run \in [Procs -> [Tasks -> Runs]]
    /\ \A p \in Procs, t \in Tasks :
         run[p][t].at \in {"ensure", "setnx", "reload", "call", "wait"} =>
             run[p][t].target \in Targets
    /\ commit \in [Tasks -> Targets \union {None}]
    /\ late \subseteq Procs \X Tasks \X Targets
    /\ polls \in [Tasks -> Nat]
    /\ faults \in Nat
    /\ keyOf \in [Tasks -> Keys \union {None}]
    /\ called \in [Tasks -> SUBSET Targets]
    /\ charges \in [Tasks -> Nat]
    /\ stores \in [Tasks -> Nat]
    /\ overlapped \in [Tasks -> BOOLEAN]
    /\ unguarded \in [Tasks -> BOOLEAN]
    /\ doubtful \in [Keys -> BOOLEAN]

Init ==
    /\ status = [t \in Tasks |-> "none"]
    /\ stale = [t \in Tasks |-> FALSE]
    /\ record = [k \in Keys |-> None]
    /\ expired = [k \in Keys |-> FALSE]
    /\ creator = [c \in Creators |-> NoCreator]
    /\ run = [p \in Procs |-> [t \in Tasks |-> NoRun]]
    /\ commit = [t \in Tasks |-> None]
    /\ late = {}
    /\ polls = [t \in Tasks |-> 0]
    /\ faults = 0
    /\ keyOf = [t \in Tasks |-> None]
    /\ called = [t \in Tasks |-> {}]
    /\ charges = [t \in Tasks |-> 0]
    /\ stores = [t \in Tasks |-> 0]
    /\ overlapped = [t \in Tasks |-> FALSE]
    /\ unguarded = [t \in Tasks |-> FALSE]
    /\ doubtful = [k \in Keys |-> FALSE]

Live(p, t) == run[p][t].at # "idle"

\* Something will still write t's row: a goroutine, or the synchronous
\* handler that has inserted it and is about to process it.
Owned(t) ==
    \/ \E p \in Procs : Live(p, t)
    \/ \E c \in Creators : creator[c].task = t /\ creator[c].sync

Fault == faults < MaxFaults /\ faults' = faults + 1

-----------------------------------------------------------------------------
(* Slips: what these definitions would be with a mistake in the code.  No    *)
(* specification uses them; each shows that a property would notice it.     *)

\* The create handler does not look at the record it found.
LookupBlind(c, k) ==
    /\ creator[c] = NoCreator
    /\ creator' = [creator EXCEPT ![c] = [NoCreator EXCEPT !.at = "insert", !.key = k]]
    /\ doubtful' = [j \in Keys |->
           doubtful[j] \/ (j = k /\ (\/ expired[k]
                                     \/ \E d \in Creators : creator[d].key = k
                                     \/ record[k] = None /\ \E t \in Tasks : keyOf[t] = k))]
    /\ UNCHANGED <<queue, record, expired, keyOf, run, guard, polls, faults,
                   called, charges, stores, overlapped>>

\* Requeueing every row not touched for long, or none that is committed.
StaleTasksAny == {t \in Tasks : status[t] \notin {"none", "pending"}}
StaleTasksFree == {t \in Tasks : status[t] = "processing" /\ stale[t] /\ commit[t] = None}

\* Claiming without the status in the WHERE clause.
ClaimAny(p, batch) ==
    /\ \A t \in Tasks : ~Live(p, t)
    /\ batch # {} /\ \A t \in batch : status[t] \in {"pending", "processing"}
    /\ status' = [t \in Tasks |-> IF t \in batch THEN "processing" ELSE status[t]]
    /\ run' = [run EXCEPT ![p] =
                 [t \in Tasks |-> IF t \in batch THEN [NoRun EXCEPT !.at = "queued"]
                                                 ELSE @[t]]]
    /\ UNCHANGED <<stale, keys, guard, polls, faults, called, charges, stores, overlapped>>

\* A finished answer is charged before it is stored.
SavingLater(v) == [NoRun EXCEPT !.at = IF v = "completed" THEN "charge" ELSE "save",
                                !.verdict = v]

\* SET in place of SETNX.
SetPlain(p, t) ==
    /\ run[p][t].at = "setnx"
    /\ commit' = [commit EXCEPT ![t] = run[p][t].target]
    /\ run' = [run EXCEPT ![p][t].at = "call"]
    /\ UNCHANGED <<queue, keys, late, unguarded, polls, faults, called, charges,
                   stores, overlapped>>

\* A charge that is tried again although it went through.
ChargeAgain(p, t) ==
    /\ run[p][t].at = "charge"
    /\ charges[t] < 3
    /\ charges' = [charges EXCEPT ![t] = @ + 1]
    /\ UNCHANGED <<queue, keys, run, guard, polls, faults, called, stores, overlapped>>

-----------------------------------------------------------------------------
(* Creation: GenerateImage (sync), CreateImageTask, GenerateVideo *)

\* loadIdempotentTask finds no usable record; with one, the handler answers
\* from the recorded task and changes nothing.
Lookup(c, k) ==
    /\ creator[c] = NoCreator
    /\ k # None => record[k] = None \/ expired[k]
    /\ creator' = [creator EXCEPT ![c] = [NoCreator EXCEPT !.at = "insert", !.key = k]]
    /\ doubtful' = [j \in Keys |->
           doubtful[j] \/ (j = k /\ (\/ expired[k]
                                     \/ \E d \in Creators : creator[d].key = k
                                     \/ record[k] = None /\ \E t \in Tasks : keyOf[t] = k))]
    /\ UNCHANGED <<queue, record, expired, keyOf, run, guard, polls, faults,
                   called, charges, stores, overlapped>>

\* generationRepo.Create with a fresh id; the checks before it have passed.
Insert(c, t, sync) ==
    /\ creator[c].at = "insert"
    /\ status[t] = "none"
    /\ status' = [status EXCEPT ![t] = IF sync THEN "processing" ELSE "pending"]
    /\ keyOf' = [keyOf EXCEPT ![t] = creator[c].key]
    /\ creator' = [creator EXCEPT ![c].at = "record", ![c].task = t, ![c].sync = sync]
    /\ UNCHANGED <<stale, record, expired, doubtful, run, guard, polls, faults,
                   called, charges, stores, overlapped>>

\* tryCreateIdempotencyRecord: the unique index keeps the first row, even an
\* expired one, and every error is dropped.  A synchronous handler goes on
\* to processImageTask.
Record(c, lost) ==
    /\ creator[c].at = "record"
    /\ LET k == creator[c].key
           t == creator[c].task
       IN  /\ record' = [j \in Keys |-> IF j = k /\ record[j] = None /\ ~lost
                                        THEN t ELSE record[j]]
           /\ run' = IF creator[c].sync
                     THEN [run EXCEPT ![Api][t] = Ready] ELSE run
    /\ IF lost THEN Fault ELSE UNCHANGED faults
    /\ creator' = [creator EXCEPT ![c] = NoCreator]
    /\ UNCHANGED <<queue, expired, keyOf, doubtful, guard, polls, called,
                   charges, stores, overlapped>>

\* The record's 24 hours pass; nothing deletes the row.
ExpireRecord(k) ==
    /\ record[k] # None /\ ~expired[k]
    /\ expired' = [expired EXCEPT ![k] = TRUE]
    /\ UNCHANGED <<queue, record, creator, keyOf, doubtful, run, guard, polls,
                   faults, called, charges, stores, overlapped>>

-----------------------------------------------------------------------------
(* The worker loop: runOnce *)

\* A worker polls only when wg.Wait has seen its whole batch finish.
Polling(p) == \A t \in Tasks : ~Live(p, t)

StaleTasks == {t \in Tasks : status[t] = "processing" /\ stale[t]}

\* RequeueStaleProcessingTasks: it asks nobody whether the task is running.
Requeue(p) ==
    /\ Polling(p)
    /\ StaleTasks # {}
    /\ status' = [t \in Tasks |-> IF t \in StaleTasks THEN "pending" ELSE status[t]]
    /\ stale' = [t \in Tasks |-> IF t \in StaleTasks THEN FALSE ELSE stale[t]]
    /\ overlapped' = [t \in Tasks |-> overlapped[t] \/ (t \in StaleTasks /\ Owned(t))]
    /\ UNCHANGED <<keys, run, guard, polls, faults, called, charges, stores>>

\* ClaimPendingTasks: lock, mark processing, commit; the batch then waits
\* for the semaphore.
Claim(p, batch) ==
    /\ Polling(p)
    /\ batch # {} /\ Cardinality(batch) <= BatchSize
    /\ \A t \in batch : status[t] = "pending"
    /\ status' = [t \in Tasks |-> IF t \in batch THEN "processing" ELSE status[t]]
    /\ stale' = [t \in Tasks |-> IF t \in batch THEN FALSE ELSE stale[t]]
    /\ run' = [run EXCEPT ![p] =
                 [t \in Tasks |-> IF t \in batch THEN [NoRun EXCEPT !.at = "queued"]
                                                 ELSE @[t]]]
    /\ UNCHANGED <<keys, guard, polls, faults, called, charges, stores, overlapped>>

\* StaleAfter passes without a write to the row.
Age(t) ==
    /\ status[t] = "processing" /\ ~stale[t]
    /\ stale' = [stale EXCEPT ![t] = TRUE]
    /\ UNCHANGED <<status, keys, run, guard, polls, faults, called, charges,
                   stores, overlapped>>

\* A step of one goroutine that only moves it to r.
Become(p, t, r) == run' = [run EXCEPT ![p][t] = r]

Saving(v) == [NoRun EXCEPT !.at = "save", !.verdict = v]

\* processTask: a slot is free and the token, balance and quota checks pass,
\* or one of them fails the task.
Start(p, t) ==
    /\ run[p][t].at = "queued"
    /\ Cardinality({s \in Tasks : run[p][s].at \notin {"idle", "queued"}}) < Concurrency
    /\ \/ Become(p, t, Ready)
       \/ Become(p, t, Saving("failed"))
    /\ UNCHANGED <<queue, keys, guard, polls, faults, called, charges, stores, overlapped>>

-----------------------------------------------------------------------------
(* One execution: processImageTask, processVideoTask *)

\* GetJobCommit: a committed task goes back to its provider.  An error of
\* Redis reads as "no commit".
ReadCommit(p, t, lost) ==
    /\ run[p][t].at = "ready"
    /\ IF commit[t] = None \/ lost
       THEN Become(p, t, [NoRun EXCEPT !.at = "pick"])
       ELSE Become(p, t, [NoRun EXCEPT !.at = "locked", !.target = commit[t],
                                       !.fixed = TRUE])
    /\ IF lost THEN Fault ELSE UNCHANGED faults
    /\ UNCHANGED <<queue, keys, guard, polls, called, charges, stores, overlapped>>

\* ExecuteWithStrategy takes the next provider of its ranking that breaker
\* and rate limit let through, and an instance of it if one can be had.
Pick(p, t, x) ==
    /\ run[p][t].at = "pick"
    /\ x[1] \notin run[p][t].tried
    /\ Become(p, t, [run[p][t] EXCEPT !.at = "ensure", !.target = x,
                                      !.tried = @ \union {x[1]}])
    /\ UNCHANGED <<queue, keys, guard, polls, faults, called, charges, stores, overlapped>>

\* ExecuteOnProvider keeps provider and instance; a commit made without an
\* instance lets attachSelectedInstance choose one now.
Reuse(p, t, x) ==
    /\ run[p][t].at = "locked"
    /\ x[1] = run[p][t].target[1]
    /\ run[p][t].target[2] # NoInstance => x = run[p][t].target
    /\ Become(p, t, [run[p][t] EXCEPT !.at = "ensure", !.target = x])
    /\ UNCHANGED <<queue, keys, guard, polls, faults, called, charges, stores, overlapped>>

\* No provider left, or the breaker, the rate limit or a lookup refuses.
GiveUp(p, t) ==
    /\ run[p][t].at \in {"pick", "locked"}
    /\ Become(p, t, Saving("failed"))
    /\ UNCHANGED <<queue, keys, guard, polls, faults, called, charges, stores, overlapped>>

\* What is left of a run whose attempt has failed.
Failed(r) == IF r.fixed THEN Saving("failed")
                        ELSE [r EXCEPT !.at = "pick", !.target = None]

\* EnsureJobCommit, first read: the same target passes, another conflicts;
\* nothing there, or an error, leads to SETNX.
Ensure(p, t, lost) ==
    LET r == run[p][t] IN
    /\ r.at = "ensure"
    /\ Become(p, t, CASE commit[t] = None \/ lost -> [r EXCEPT !.at = "setnx"]
                      [] commit[t] = r.target -> [r EXCEPT !.at = "call"]
                      [] OTHER -> Failed(r))
    /\ IF lost THEN Fault ELSE UNCHANGED faults
    /\ UNCHANGED <<queue, keys, guard, polls, called, charges, stores, overlapped>>

\* A SETNX that succeeds.  From now on the SETNX of an abandoned attempt
\* would change nothing, so there is no need to remember it.
Committed(t, x) ==
    /\ commit' = [commit EXCEPT ![t] = x]
    /\ late' = {l \in late : l[2] # t}

SetNX(p, t) ==
    LET r == run[p][t] IN
    /\ r.at = "setnx"
    /\ IF commit[t] = None
       THEN /\ Committed(t, r.target)
            /\ Become(p, t, [r EXCEPT !.at = "call"])
       ELSE /\ UNCHANGED <<commit, late>>
            /\ Become(p, t, [r EXCEPT !.at = "reload"])
    /\ UNCHANGED <<queue, keys, unguarded, polls, faults, called, charges,
                   stores, overlapped>>

\* SETNX found a value: read it back.  When that read fails the code goes on
\* with the target it wanted.
Reload(p, t, lost) ==
    LET r == run[p][t]
        gone == lost \/ commit[t] = None
    IN
    /\ r.at = "reload"
    /\ Become(p, t, IF gone \/ commit[t] = r.target THEN [r EXCEPT !.at = "call"]
                                                    ELSE Failed(r))
    /\ unguarded' = [unguarded EXCEPT ![t] = @ \/ gone]
    /\ IF lost THEN Fault ELSE UNCHANGED faults
    /\ UNCHANGED <<queue, keys, commit, late, polls, called, charges, stores, overlapped>>

\* POST /v1/generate reaches the resource pool; it carries no task id.
Call(p, t) ==
    /\ run[p][t].at = "call"
    /\ called' = [called EXCEPT ![t] = @ \union {run[p][t].target}]
    /\ Become(p, t, [run[p][t] EXCEPT !.at = "wait"])
    /\ UNCHANGED <<queue, keys, guard, polls, faults, charges, stores, overlapped>>

\* The answer: finished, refused, or not finished yet.  A worker puts an
\* unfinished task back; the synchronous handler fails it.
Answer(p, t) ==
    /\ run[p][t].at = "wait"
    /\ \/ /\ Become(p, t, Saving("completed"))
          /\ UNCHANGED polls
       \/ /\ Become(p, t, Saving("failed"))
          /\ UNCHANGED polls
       \/ /\ polls[t] < MaxPolls
          /\ polls' = [polls EXCEPT ![t] = @ + 1]
          /\ Become(p, t, Saving(IF p = Api THEN "failed" ELSE "pending"))
    /\ UNCHANGED <<queue, keys, guard, faults, called, charges, stores, overlapped>>

\* The attempt fails or runs into its timeout.  Its goroutine is abandoned,
\* not stopped: one on its way to SETNX may still execute it; a request not
\* sent yet fails on the cancelled context.
AttemptFails(p, t) ==
    LET r == run[p][t] IN
    /\ r.at \in {"ensure", "setnx", "reload", "call", "wait"}
    /\ Become(p, t, Failed(r))
    /\ late' = IF r.at \in {"ensure", "setnx"} /\ commit[t] = None
               THEN late \union {<<p, t, r.target>>} ELSE late
    /\ UNCHANGED <<queue, keys, commit, unguarded, polls, faults, called,
                   charges, stores, overlapped>>

\* The abandoned goroutine executes SETNX.
LateSetNX(p, t, x) ==
    /\ <<p, t, x>> \in late
    /\ commit[t] = None
    /\ Committed(t, x)
    /\ UNCHANGED <<queue, keys, unguarded, run, polls, faults, called, charges,
                   stores, overlapped>>

\* generationRepo.Update or failTask: Save writes the whole row, whatever it
\* has become in the meantime.
Save(p, t) ==
    /\ run[p][t].at = "save"
    /\ LET v == run[p][t].verdict IN
         /\ status' = [status EXCEPT ![t] = v]
         /\ stores' = [stores EXCEPT ![t] = IF v = "completed" THEN @ + 1 ELSE @]
         /\ Become(p, t, IF v = "completed" THEN [NoRun EXCEPT !.at = "charge"]
                                            ELSE NoRun)
    /\ stale' = [stale EXCEPT ![t] = FALSE]
    /\ UNCHANGED <<keys, guard, polls, faults, called, charges, overlapped>>

\* A failed Save ends the run with the row as it is.
SaveFails(p, t) ==
    /\ run[p][t].at = "save"
    /\ Fault
    /\ Become(p, t, NoRun)
    /\ UNCHANGED <<queue, keys, guard, polls, called, charges, stores, overlapped>>

\* DeductBalance, then DeductQuota and the log; an error is dropped.
Charge(p, t) ==
    /\ run[p][t].at = "charge"
    /\ Become(p, t, NoRun)
    /\ \E n \in {0, 1} : charges' = [charges EXCEPT ![t] = @ + n]
    /\ UNCHANGED <<queue, keys, guard, polls, faults, called, stores, overlapped>>

-----------------------------------------------------------------------------
(* The environment *)

\* Process p dies and is started again.
Crash(p) ==
    /\ Fault
    /\ ~Polling(p) \/ (p = Api /\ \E c \in Creators : creator[c] # NoCreator)
    /\ run' = [run EXCEPT ![p] = [t \in Tasks |-> NoRun]]
    /\ late' = {l \in late : l[1] # p}
    /\ creator' = IF p = Api THEN [c \in Creators |-> NoCreator] ELSE creator
    /\ UNCHANGED <<queue, record, expired, keyOf, doubtful, commit, unguarded,
                   polls, called, charges, stores, overlapped>>

\* The commit point's 24 hours pass.
ExpireCommit(t) ==
    /\ commit[t] # None
    /\ Fault
    /\ commit' = [commit EXCEPT ![t] = None]
    /\ unguarded' = [unguarded EXCEPT ![t] = TRUE]
    /\ UNCHANGED <<queue, keys, late, run, polls, called, charges, stores, overlapped>>

-----------------------------------------------------------------------------
Creation ==
    \/ \E c \in Creators, k \in Keys \union {None} : Lookup(c, k)
    \/ \E c \in Creators, t \in Tasks, sync \in BOOLEAN : Insert(c, t, sync)
    \/ \E c \in Creators, lost \in BOOLEAN : Record(c, lost)

Attempt(p, t) ==
    \/ \E x \in Targets : Pick(p, t, x) \/ Reuse(p, t, x)
    \/ \E lost \in BOOLEAN : Ensure(p, t, lost) \/ Reload(p, t, lost)
    \/ SetNX(p, t)
    \/ Call(p, t)
    \/ Answer(p, t)
    \/ AttemptFails(p, t)
    \/ GiveUp(p, t)

Execution(p, t) ==
    \/ Start(p, t)
    \/ \E lost \in BOOLEAN : ReadCommit(p, t, lost)
    \/ Attempt(p, t)
    \/ Save(p, t)
    \/ SaveFails(p, t)
    \/ Charge(p, t)

Poll(p) == \E batch \in SUBSET Tasks : Claim(p, batch)

Environment ==
    \/ \E k \in Keys : ExpireRecord(k)
    \/ \E t \in Tasks : Age(t) \/ ExpireCommit(t)
    \/ \E p \in Procs, t \in Tasks, x \in Targets : LateSetNX(p, t, x)
    \/ \E p \in Procs : Crash(p)

Next ==
    \/ Creation
    \/ \E p \in Workers : Requeue(p) \/ Poll(p)
    \/ \E p \in Procs, t \in Tasks : Execution(p, t)
    \/ Environment

Spec == Init /\ [][Next]_vars

\* A worker polls on a ticker and requeues before it claims; goroutines run;
\* time passes; the API finishes its handlers.
Fairness ==
    /\ \A p \in Workers : WF_vars(Requeue(p)) /\ WF_vars(Poll(p))
    /\ \A p \in Procs, t \in Tasks : WF_vars(Execution(p, t))
    /\ \A t \in Tasks : WF_vars(Age(t))
    /\ \A c \in Creators : WF_vars(\E lost \in BOOLEAN : Record(c, lost))

FairSpec == Spec /\ Fairness

-----------------------------------------------------------------------------
(* Properties *)

\* As long as its commit point is in Redis and can be read back after a lost
\* SETNX, all upstream requests of a task go to one provider and instance:
\* over failover, timeouts, abandoned attempts, polling, crashes, requeues
\* and two workers on the same row.
UpstreamSticky ==
    \A t \in Tasks : ~unguarded[t] =>
        \A x, y \in called[t] : x = y

\* A task that was never requeued under a live goroutine has one owner: one
\* goroutine at most, and only on a row marked processing or, once it has
\* stored the result, completed.
SoleOwner ==
    \A t \in Tasks : ~overlapped[t] =>
        /\ \A p, q \in Procs : Live(p, t) /\ Live(q, t) => p = q
        /\ \A p \in Procs : Live(p, t) =>
               status[t] = IF run[p][t].at = "charge" THEN "completed" ELSE "processing"

\* ... and it is charged at most once, and only as a completed task.
ChargedOnceIfSole ==
    \A t \in Tasks : ~overlapped[t] /\ charges[t] > 0 =>
        charges[t] = 1 /\ status[t] = "completed"

\* With or without overlap there are never more charges than stored results.
ChargesHaveResults ==
    \A t \in Tasks :
        charges[t] + Cardinality({p \in Procs : run[p][t].at = "charge"}) <= stores[t]

\* Two tasks under one key are explained by a lookup made while the first
\* one's record was not there: still being written, lost, or expired.
DuplicateHasCause ==
    \A k \in Keys : ~doubtful[k] =>
        /\ \A s, t \in Tasks : keyOf[s] = k /\ keyOf[t] = k => s = t
        /\ \A t \in Tasks : record[k] = t => keyOf[t] = k

\* A finished task stays as it is unless it had been requeued under a live
\* goroutine.
TerminalStable ==
    [][\A t \in Tasks : status[t] \in Terminal /\ ~overlapped[t] =>
           status'[t] = status[t]]_vars

\* Every task lives the life of JobLife: one run at a time, back to the queue
\* without a result, finished once, charged once at most and before it rests.
Life(t) ==
    IF overlapped[t] THEN "overlapped"
    ELSE CASE status[t] = "none" -> "absent"
           [] status[t] = "pending" -> "waiting"
           [] status[t] = "processing" -> IF Owned(t) THEN "running" ELSE "orphaned"
           [] status[t] = "completed" ->
                IF \E p \in Procs : Live(p, t) THEN "owed" ELSE "settled"
           [] status[t] = "failed" -> "failed"
Contract == INSTANCE JobLife
              WITH phase <- [t \in Tasks |-> Life(t)], paid <- charges
Implements == Contract!Spec

\* Every created task is finished at some time, whatever dies on the way.
EveryTaskEnds ==
    \A t \in Tasks : status[t] \in {"pending", "processing"} ~> status[t] \in Terminal

\* The design document: "only the attempt that finally succeeds enters
\* settlement", so a task is charged at most once.
ChargedOnce == \A t \in Tasks : charges[t] <= 1

\* The design document: creating tasks is idempotent, "so that client
\* retries do not place duplicate orders".
OneTaskPerKey ==
    \A s, t \in Tasks : keyOf[s] = keyOf[t] /\ keyOf[t] # None => s = t
=============================================================================
