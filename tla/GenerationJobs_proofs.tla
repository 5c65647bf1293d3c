----------------------- MODULE GenerationJobs_proofs -----------------------
(***************************************************************************)
(* What GenerationJobs guarantees for every number of tasks, workers,      *)
(* providers, instances, crashes and Redis errors.                         *)
(***************************************************************************)
EXTENDS GenerationJobs, FiniteSetTheorems, TLAPS

USE DEF queue, keys, guard

(***************************************************************************)
(* Types.                                                                  *)
(***************************************************************************)
Attempting == {"ensure", "setnx", "reload", "call", "wait"}

RunOK(r) == r \in Runs /\ (r.at \in Attempting => r.target \in Targets)

CreatorOK(x) ==
    /\ x \in [at : {"idle", "insert", "record"}, key : Keys \union {None},
              task : Tasks \union {None}, sync : BOOLEAN]
    /\ x.at = "record" => x.task \in Tasks

RunsOK ==
    /\ run \in [Procs -> [Tasks -> Runs]]
    /\ \A p \in Procs, t \in Tasks : RunOK(run[p][t])

CreatorsOK ==
    /\ creator = [c \in Creators |-> creator[c]]
    /\ \A c \in Creators : CreatorOK(creator[c])

RowsOK ==
    /\ status \in [Tasks -> Statuses]
    /\ stale \in [Tasks -> BOOLEAN]
    /\ record \in [Keys -> Tasks \union {None}]
    /\ expired \in [Keys -> BOOLEAN]
    /\ commit \in [Tasks -> Targets \union {None}]
    /\ late \subseteq Procs \X Tasks \X Targets
    /\ polls \in [Tasks -> Nat]
    /\ faults \in Nat
    /\ keyOf \in [Tasks -> Keys \union {None}]
    /\ called \in [Tasks -> SUBSET Targets]
    /\ charges \in [Tasks -> Nat]
    /\ stores \in [Tasks -> Nat]
    /\ overlapped \in [Tasks -> BOOLEAN]
    /\ unguarded \in [Tasks -> BOOLEAN]
    /\ doubtful \in [Keys -> BOOLEAN]

LEMMA TypeParts == TypeOK <=> RowsOK /\ RunsOK /\ CreatorsOK
BY DEF TypeOK, RowsOK, RunsOK, CreatorsOK, RunOK, CreatorOK, Attempting

\* The records a goroutine moves through are runs.
LEMMA NoRunType ==
    /\ RunOK(NoRun)
    /\ RunOK(Ready)
    /\ RunOK([NoRun EXCEPT !.at = "queued"])
    /\ RunOK([NoRun EXCEPT !.at = "pick"])
    /\ RunOK([NoRun EXCEPT !.at = "charge"])
    /\ \A v \in Statuses : RunOK(Saving(v))
    /\ \A x \in Targets : RunOK([NoRun EXCEPT !.at = "locked", !.target = x, !.fixed = TRUE])
BY DEF RunOK, Runs, Ready, NoRun, Saving, Stages, Statuses, Attempting

LEMMA RunMoves ==
    ASSUME NEW r, RunOK(r)
    PROVE  /\ \A x \in Targets : x[1] \in Providers
           /\ \A x \in Targets : RunOK([r EXCEPT !.at = "ensure", !.target = x,
                                                 !.tried = @ \union {x[1]}])
           /\ \A x \in Targets : RunOK([r EXCEPT !.at = "ensure", !.target = x])
           /\ RunOK(Failed(r))
           /\ r.at \in Attempting =>
                /\ RunOK([r EXCEPT !.at = "setnx"])
                /\ RunOK([r EXCEPT !.at = "reload"])
                /\ RunOK([r EXCEPT !.at = "call"])
                /\ RunOK([r EXCEPT !.at = "wait"])
<1>1. \A x \in Targets : x[1] \in Providers
  BY DEF Targets
<1>2. RunOK(Failed(r))
  <2>1. RunOK([r EXCEPT !.at = "pick", !.target = None])
    BY DEF RunOK, Runs, Stages, Attempting
  <2> QED
    BY <2>1, NoRunType DEF Failed, Statuses
<1> QED
  BY <1>1, <1>2 DEF RunOK, Runs, Stages, Attempting

\* One goroutine's step keeps the runs well typed.
LEMMA RunChange ==
    ASSUME RunsOK, NEW p \in Procs, NEW t \in Tasks, NEW r, RunOK(r), Become(p, t, r)
    PROVE  RunsOK'
BY DEF RunsOK, Become, RunOK

LEMMA CreatorChange ==
    ASSUME CreatorsOK, NEW c \in Creators, NEW x, CreatorOK(x),
           creator' = [creator EXCEPT ![c] = x]
    PROVE  CreatorsOK'
BY DEF CreatorsOK

LEMMA NoCreatorType ==
    /\ CreatorOK(NoCreator)
    /\ \A k \in Keys \union {None} :
           CreatorOK([NoCreator EXCEPT !.at = "insert", !.key = k])
BY DEF CreatorOK, NoCreator

\* Every step of an execution moves one goroutine to a well typed run.
LEMMA ExecutionRun ==
    ASSUME RowsOK, RunsOK, NEW p \in Procs, NEW t \in Tasks, Execution(p, t)
    PROVE  RunsOK'
<1> DEFINE r == run[p][t]
<1>0. RunOK(r) /\ r \in Runs
  BY DEF RunsOK, RunOK
<1>1. CASE Start(p, t)
  BY <1>1, NoRunType, RunChange DEF Start, Statuses
<1>2. CASE \E lost \in BOOLEAN : ReadCommit(p, t, lost)
  <2>1. commit[t] \in Targets \union {None}
    BY DEF RowsOK
  <2> QED
    BY <1>2, <2>1, NoRunType, RunChange DEF ReadCommit
<1>3. CASE \E x \in Targets : Pick(p, t, x) \/ Reuse(p, t, x)
  BY <1>0, <1>3, RunMoves, RunChange DEF Pick, Reuse
<1>4. CASE \E lost \in BOOLEAN : Ensure(p, t, lost) \/ Reload(p, t, lost)
  <2>1. r.at \in Attempting
    BY <1>4 DEF Ensure, Reload, Attempting
  <2> QED
    BY <1>0, <1>4, <2>1, RunMoves, RunChange DEF Ensure, Reload
<1>5. CASE SetNX(p, t)
  <2>1. r.at \in Attempting
    BY <1>5 DEF SetNX, Attempting
  <2> QED
    BY <1>0, <1>5, <2>1, RunMoves, RunChange DEF SetNX
<1>6. CASE Call(p, t)
  <2>1. r.at \in Attempting
    BY <1>6 DEF Call, Attempting
  <2> QED
    BY <1>0, <1>6, <2>1, RunMoves, RunChange DEF Call
<1>7. CASE Answer(p, t) \/ GiveUp(p, t)
  BY <1>7, NoRunType, RunChange DEF Answer, GiveUp, Statuses
<1>8. CASE AttemptFails(p, t)
  BY <1>0, <1>8, RunMoves, RunChange DEF AttemptFails
<1>9. CASE Save(p, t)
  BY <1>9, NoRunType, RunChange DEF Save
<1>10. CASE SaveFails(p, t) \/ Charge(p, t)
  BY <1>10, NoRunType, RunChange DEF SaveFails, Charge
<1> QED
  BY <1>1, <1>2, <1>3, <1>4, <1>5, <1>6, <1>7, <1>8, <1>9, <1>10
  DEF Execution, Attempt

LEMMA ExecutionRows ==
    ASSUME RowsOK, RunsOK, NEW p \in Procs, NEW t \in Tasks, Execution(p, t)
    PROVE  RowsOK'
<1> DEFINE r == run[p][t]
<1>0. r \in Runs /\ (r.at \in Attempting => r.target \in Targets)
  BY DEF RunsOK, RunOK
<1> USE DEF RowsOK
<1>1. CASE Start(p, t) \/ GiveUp(p, t) \/ \E x \in Targets : Pick(p, t, x) \/ Reuse(p, t, x)
  BY <1>1 DEF Start, GiveUp, Pick, Reuse
<1>2. CASE \E lost \in BOOLEAN : ReadCommit(p, t, lost) \/ Ensure(p, t, lost)
  BY <1>2 DEF ReadCommit, Ensure, Fault
<1>3. CASE \E lost \in BOOLEAN : Reload(p, t, lost)
  BY <1>3 DEF Reload, Fault
<1>4. CASE SetNX(p, t)
  <2>1. r.target \in Targets
    BY <1>0, <1>4 DEF SetNX, Attempting
  <2> QED
    BY <1>4, <2>1 DEF SetNX, Committed
<1>5. CASE Call(p, t)
  <2>1. r.target \in Targets
    BY <1>0, <1>5 DEF Call, Attempting
  <2> QED
    BY <1>5, <2>1 DEF Call
<1>6. CASE Answer(p, t)
  BY <1>6 DEF Answer
<1>7. CASE AttemptFails(p, t)
  <2>1. r.target \in Targets
    BY <1>0, <1>7 DEF AttemptFails, Attempting
  <2> QED
    BY <1>7, <2>1 DEF AttemptFails
<1>8. CASE Save(p, t)
  <2>1. r.verdict \in Statuses
    BY <1>0 DEF Runs
  <2> QED
    BY <1>8, <2>1 DEF Save
<1>9. CASE SaveFails(p, t) \/ Charge(p, t)
  BY <1>9 DEF SaveFails, Charge, Fault
<1> QED
  BY <1>1, <1>2, <1>3, <1>4, <1>5, <1>6, <1>7, <1>8, <1>9 DEF Execution, Attempt

\* Rows, records, commit points and goroutines keep their types.
THEOREM TypeInvariant == Spec => []TypeOK
<1>1. Init => TypeOK
  <2> SUFFICES ASSUME Init PROVE RowsOK /\ RunsOK /\ CreatorsOK
    BY TypeParts
  <2>1. RowsOK
    BY DEF Init, RowsOK, Statuses
  <2>2. RunsOK
    BY NoRunType DEF Init, RunsOK, RunOK
  <2>3. CreatorsOK
    BY NoCreatorType DEF Init, CreatorsOK
  <2> QED
    BY <2>1, <2>2, <2>3
<1>2. TypeOK /\ [Next]_vars => TypeOK'
  <2> SUFFICES ASSUME RowsOK, RunsOK, CreatorsOK, [Next]_vars
               PROVE  RowsOK' /\ RunsOK' /\ CreatorsOK'
    BY DEF TypeOK, RowsOK, RunsOK, CreatorsOK, RunOK, CreatorOK, Attempting
  <2>1. ASSUME NEW p \in Procs, NEW t \in Tasks, Execution(p, t)
        PROVE  RowsOK' /\ RunsOK' /\ CreatorsOK'
    <3>1. creator' = creator
      BY <2>1 DEF Execution, Attempt, Start, GiveUp, Pick, Reuse, ReadCommit, Ensure,
                  Reload, SetNX, Call, Answer, AttemptFails, Save, SaveFails, Charge
    <3> QED
      BY <2>1, <3>1, ExecutionRun, ExecutionRows DEF CreatorsOK
  <2>2. ASSUME NEW c \in Creators, NEW k \in Keys \union {None}, Lookup(c, k)
        PROVE  RowsOK' /\ RunsOK' /\ CreatorsOK'
    <3>1. CreatorsOK'
      BY <2>2, NoCreatorType, CreatorChange DEF Lookup
    <3> QED
      BY <2>2, <3>1 DEF Lookup, RowsOK, RunsOK
  <2>3. ASSUME NEW c \in Creators, NEW t \in Tasks, NEW sync \in BOOLEAN,
               Insert(c, t, sync)
        PROVE  RowsOK' /\ RunsOK' /\ CreatorsOK'
    <3>1. CreatorOK(creator[c]) /\ creator[c].key \in Keys \union {None}
      BY DEF CreatorsOK, CreatorOK
    <3>2. CreatorsOK'
      BY <2>3, <3>1 DEF Insert, CreatorsOK, CreatorOK
    <3> QED
      BY <2>3, <3>1, <3>2 DEF Insert, RowsOK, RunsOK, Statuses
  <2>4. ASSUME NEW c \in Creators, NEW lost \in BOOLEAN, Record(c, lost)
        PROVE  RowsOK' /\ RunsOK' /\ CreatorsOK'
    <3>1. creator[c].task \in Tasks
      BY <2>4 DEF Record, CreatorsOK, CreatorOK
    <3>2. CreatorsOK'
      BY <2>4, NoCreatorType, CreatorChange DEF Record
    <3>3. RunsOK'
      BY <2>4, <3>1, NoRunType DEF Record, RunsOK, RunOK, Procs
    <3>4. faults' \in Nat
      BY <2>4 DEF Record, Fault, RowsOK
    <3> QED
      BY <2>4, <3>1, <3>2, <3>3, <3>4 DEF Record, RowsOK
  <2>5. ASSUME NEW p \in Workers, Requeue(p)
        PROVE  RowsOK' /\ RunsOK' /\ CreatorsOK'
    <3>1. status' \in [Tasks -> Statuses]
      BY <2>5 DEF Requeue, RowsOK, Statuses
    <3>2. overlapped' \in [Tasks -> BOOLEAN]
      <4>1. \A t \in Tasks : (overlapped[t] \/ (t \in StaleTasks /\ Owned(t))) \in BOOLEAN
        BY DEF RowsOK
      <4> QED
        BY <2>5, <4>1, Zenon DEF Requeue
    <3> QED
      BY <2>5, <3>1, <3>2 DEF Requeue, RowsOK, RunsOK, CreatorsOK
  <2>6. ASSUME NEW p \in Workers, NEW batch \in SUBSET Tasks, Claim(p, batch)
        PROVE  RowsOK' /\ RunsOK' /\ CreatorsOK'
    <3>1. RunsOK'
      BY <2>6, NoRunType DEF Claim, RunsOK, RunOK, Procs
    <3> QED
      BY <2>6, <3>1 DEF Claim, RowsOK, CreatorsOK, Statuses
  <2>7. ASSUME NEW t \in Tasks, Age(t)
        PROVE  RowsOK' /\ RunsOK' /\ CreatorsOK'
    BY <2>7 DEF Age, RowsOK, RunsOK, CreatorsOK
  <2>8. ASSUME NEW t \in Tasks, ExpireCommit(t)
        PROVE  RowsOK' /\ RunsOK' /\ CreatorsOK'
    BY <2>8 DEF ExpireCommit, Fault, RowsOK, RunsOK, CreatorsOK
  <2>9. ASSUME NEW k \in Keys, ExpireRecord(k)
        PROVE  RowsOK' /\ RunsOK' /\ CreatorsOK'
    BY <2>9 DEF ExpireRecord, RowsOK, RunsOK, CreatorsOK
  <2>10. ASSUME NEW p \in Procs, NEW t \in Tasks, NEW x \in Targets, LateSetNX(p, t, x)
         PROVE  RowsOK' /\ RunsOK' /\ CreatorsOK'
    BY <2>10 DEF LateSetNX, Committed, RowsOK, RunsOK, CreatorsOK
  <2>11. ASSUME NEW p \in Procs, Crash(p)
         PROVE  RowsOK' /\ RunsOK' /\ CreatorsOK'
    <3>1. RunsOK'
      BY <2>11, NoRunType DEF Crash, RunsOK, RunOK
    <3>2. CreatorsOK'
      BY <2>11, NoCreatorType DEF Crash, CreatorsOK
    <3> QED
      BY <2>11, <3>1, <3>2 DEF Crash, Fault, RowsOK
  <2>12. CASE UNCHANGED vars
    BY <2>12 DEF vars, RowsOK, RunsOK, CreatorsOK
  <2> QED
    BY <2>1, <2>2, <2>3, <2>4, <2>5, <2>6, <2>7, <2>8, <2>9, <2>10, <2>11, <2>12
    DEF Next, Creation, Poll, Environment
<1> QED
  BY <1>1, <1>2, PTL DEF Spec

(***************************************************************************)
(* The commit point.                                                       *)
(***************************************************************************)
\* While the commit point of t holds, whatever was asked to make t is the
\* committed target, and so is whatever a goroutine is about to ask.
StickyInv ==
    \A t \in Tasks : ~unguarded[t] =>
        /\ \A x \in called[t] : commit[t] = x
        /\ \A p \in Procs : run[p][t].at = "call" => commit[t] = run[p][t].target

\* A step of one goroutine that sends nothing and keeps the commit point.
LEMMA StickyMove ==
    ASSUME RunsOK, RowsOK, StickyInv, NEW p \in Procs, NEW t \in Tasks, NEW r,
           Become(p, t, r),
           r.at = "call" => r.target = commit[t] \/ unguarded'[t],
           commit' = commit, called' = called,
           \A s \in Tasks : unguarded[s] => unguarded'[s]
    PROVE  StickyInv'
BY DEF RunsOK, StickyInv, Become

\* UpstreamSticky follows from StickyInv: two targets of one task are both
\* the committed one.  Only SETNX writes a commit point, and only over
\* nothing, when nothing has been asked.
THEOREM CommitSticks == Spec => []UpstreamSticky
<1>1. Init => StickyInv
  BY DEF Init, StickyInv, NoRun
<1>2. TypeOK /\ StickyInv /\ [Next]_vars => StickyInv'
  <2> SUFFICES ASSUME RowsOK, RunsOK, CreatorsOK, StickyInv, [Next]_vars
               PROVE  StickyInv'
    BY TypeParts
  <2>n. \A x \in Targets : x # None
    BY GenerationJobsAssumption
  <2>1. ASSUME NEW p \in Procs, NEW t \in Tasks, Execution(p, t)
        PROVE  StickyInv'
    <3> DEFINE r == run[p][t]
    <3>0. r \in Runs /\ (r.at \in Attempting => r.target \in Targets)
      BY DEF RunsOK, RunOK
    <3>s. \A v : Saving(v).at # "call"
      BY DEF Saving, NoRun
    <3>f. Failed(r).at # "call"
      BY <3>0, <3>s DEF Failed, Runs
    <3>i. NoRun.at # "call"
      BY DEF NoRun
    <3>1. CASE Start(p, t)
      <4>1. Ready.at # "call"
        BY DEF Ready, NoRun
      <4> QED
        BY <3>1, <3>s, <4>1, StickyMove DEF Start
    <3>2. CASE \E lost \in BOOLEAN : ReadCommit(p, t, lost)
      <4>1. /\ [NoRun EXCEPT !.at = "pick"].at # "call"
            /\ [NoRun EXCEPT !.at = "locked", !.target = commit[t], !.fixed = TRUE].at # "call"
        BY DEF NoRun
      <4> QED
        BY <3>2, <4>1, StickyMove DEF ReadCommit
    <3>3. CASE \E x \in Targets : Pick(p, t, x) \/ Reuse(p, t, x)
      <4>1. PICK x \in Targets : Pick(p, t, x) \/ Reuse(p, t, x)
        BY <3>3
      <4>2. /\ [r EXCEPT !.at = "ensure", !.target = x, !.tried = @ \union {x[1]}].at # "call"
            /\ [r EXCEPT !.at = "ensure", !.target = x].at # "call"
        BY <3>0 DEF Runs
      <4> QED
        BY <4>1, <4>2, StickyMove DEF Pick, Reuse
    <3>4. CASE GiveUp(p, t) \/ Answer(p, t)
      BY <3>4, <3>s, StickyMove DEF GiveUp, Answer
    <3>5. CASE \E lost \in BOOLEAN : Ensure(p, t, lost)
      <4>1. [r EXCEPT !.at = "setnx"].at # "call"
        BY <3>0 DEF Runs
      <4>2. [r EXCEPT !.at = "call"].target = r.target
        BY <3>0 DEF Runs
      <4>3. CASE Become(p, t, [r EXCEPT !.at = "setnx"])
        BY <3>5, <4>1, <4>3, StickyMove DEF Ensure
      <4>4. CASE commit[t] = r.target /\ Become(p, t, [r EXCEPT !.at = "call"])
        BY <3>5, <4>2, <4>4, StickyMove DEF Ensure
      <4>5. CASE Become(p, t, Failed(r))
        BY <3>5, <3>f, <4>5, StickyMove DEF Ensure
      <4> QED
        BY <3>5, <4>3, <4>4, <4>5 DEF Ensure
    <3>6. CASE \E lost \in BOOLEAN : Reload(p, t, lost)
      <4>1. PICK lost \in BOOLEAN : Reload(p, t, lost)
        BY <3>6
      <4>2. \A s \in Tasks : unguarded[s] => unguarded'[s]
        BY <4>1 DEF Reload, RowsOK
      <4>3. [r EXCEPT !.at = "call"].target = r.target
        BY <3>0 DEF Runs
      <4>4. commit' = commit /\ called' = called
        BY <4>1 DEF Reload
      <4>5. CASE lost \/ commit[t] = None
        <5>1. unguarded'[t]
          BY <4>1, <4>5 DEF Reload, RowsOK
        <5>2. Become(p, t, [r EXCEPT !.at = "call"])
          BY <4>1, <4>5 DEF Reload
        <5> QED
          BY <5>1, <5>2, <4>2, <4>4, StickyMove
      <4>6. CASE commit[t] = r.target /\ Become(p, t, [r EXCEPT !.at = "call"])
        BY <4>2, <4>3, <4>4, <4>6, StickyMove
      <4>7. CASE Become(p, t, Failed(r))
        BY <4>2, <4>4, <4>7, <3>f, StickyMove
      <4> QED
        BY <4>1, <4>5, <4>6, <4>7 DEF Reload
    <3>7. CASE SetNX(p, t)
      <4>1. r.target \in Targets
        BY <3>0, <3>7 DEF SetNX, Attempting
      <4>2. CASE commit[t] = None
        <5>1. ~unguarded[t] => called[t] = {}
          BY <2>n, <4>2 DEF StickyInv, RowsOK
        <5>2. ~unguarded[t] => \A q \in Procs : run[q][t].at # "call"
          <6> SUFFICES ASSUME ~unguarded[t], NEW q \in Procs, run[q][t].at = "call"
                       PROVE  FALSE
            OBVIOUS
          <6>1. run[q][t].target \in Targets
            BY DEF RunsOK, RunOK, Attempting
          <6> QED
            BY <2>n, <4>2, <6>1 DEF StickyInv
        <5>3. [r EXCEPT !.at = "call"].target = r.target
          BY <3>0 DEF Runs
        <5>4. /\ commit' = [commit EXCEPT ![t] = r.target]
              /\ run' = [run EXCEPT ![p][t] = [r EXCEPT !.at = "call"]]
              /\ called' = called /\ unguarded' = unguarded
          BY <3>7, <4>2 DEF SetNX, Committed, Become
        <5> QED
          BY <5>1, <5>2, <5>3, <5>4 DEF StickyInv, RunsOK, RowsOK
      <4>3. CASE commit[t] # None
        <5>1. [r EXCEPT !.at = "reload"].at # "call"
          BY <3>0 DEF Runs
        <5> QED
          BY <3>7, <4>3, <5>1, StickyMove DEF SetNX
      <4> QED
        BY <4>2, <4>3
    <3>8. CASE Call(p, t)
      <4>1. [r EXCEPT !.at = "wait"].at # "call"
        BY <3>0 DEF Runs
      <4>2. /\ called' = [called EXCEPT ![t] = @ \union {r.target}]
            /\ run' = [run EXCEPT ![p][t] = [r EXCEPT !.at = "wait"]]
            /\ commit' = commit /\ unguarded' = unguarded /\ r.at = "call"
        BY <3>8 DEF Call, Become
      <4> QED
        BY <4>1, <4>2 DEF StickyInv, RunsOK, RowsOK
    <3>9. CASE AttemptFails(p, t)
      BY <3>9, <3>f, StickyMove DEF AttemptFails
    <3>10. CASE Save(p, t)
      <4>1. [NoRun EXCEPT !.at = "charge"].at # "call"
        BY DEF NoRun
      <4> QED
        BY <3>10, <3>i, <4>1, StickyMove DEF Save
    <3>11. CASE SaveFails(p, t) \/ Charge(p, t)
      BY <3>11, <3>i, StickyMove DEF SaveFails, Charge
    <3> QED
      BY <2>1, <3>1, <3>2, <3>3, <3>4, <3>5, <3>6, <3>7, <3>8, <3>9, <3>10, <3>11
      DEF Execution, Attempt
  <2>2. ASSUME NEW c \in Creators, NEW lost \in BOOLEAN, Record(c, lost)
        PROVE  StickyInv'
    <3>1. creator[c].task \in Tasks
      BY <2>2 DEF Record, CreatorsOK, CreatorOK
    <3>2. Ready.at # "call"
      BY DEF Ready, NoRun
    <3> QED
      BY <2>2, <3>1, <3>2 DEF Record, StickyInv, RunsOK
  <2>3. ASSUME NEW p \in Workers, NEW batch \in SUBSET Tasks, Claim(p, batch)
        PROVE  StickyInv'
    <3>1. [NoRun EXCEPT !.at = "queued"].at # "call"
      BY DEF NoRun
    <3> QED
      BY <2>3, <3>1 DEF Claim, StickyInv, RunsOK, Procs
  <2>4. ASSUME NEW t \in Tasks, ExpireCommit(t)
        PROVE  StickyInv'
    BY <2>4 DEF ExpireCommit, StickyInv, RowsOK
  <2>5. ASSUME NEW p \in Procs, NEW t \in Tasks, NEW x \in Targets, LateSetNX(p, t, x)
        PROVE  StickyInv'
    <3>1. ~unguarded[t] => called[t] = {}
      BY <2>n, <2>5 DEF StickyInv, LateSetNX, RowsOK
    <3>2. ~unguarded[t] => \A q \in Procs : run[q][t].at # "call"
      <4> SUFFICES ASSUME ~unguarded[t], NEW q \in Procs, run[q][t].at = "call"
                   PROVE  FALSE
        OBVIOUS
      <4>1. run[q][t].target \in Targets
        BY DEF RunsOK, RunOK, Attempting
      <4> QED
        BY <2>n, <2>5, <4>1 DEF StickyInv, LateSetNX
    <3> QED
      BY <2>5, <3>1, <3>2 DEF LateSetNX, Committed, StickyInv, RowsOK
  <2>6. ASSUME NEW p \in Procs, Crash(p)
        PROVE  StickyInv'
    <3>1. NoRun.at # "call"
      BY DEF NoRun
    <3> QED
      BY <2>6, <3>1 DEF Crash, StickyInv, RunsOK
  <2>7. CASE UNCHANGED <<run, commit, called, unguarded>>
    BY <2>7 DEF StickyInv
  <2> QED
    BY <2>1, <2>2, <2>3, <2>4, <2>5, <2>6, <2>7
    DEF Next, Creation, Poll, Environment, vars, Lookup, Insert, Requeue, Age, ExpireRecord
<1>3. StickyInv => UpstreamSticky
  BY DEF StickyInv, UpstreamSticky
<1> QED
  BY <1>1, <1>2, <1>3, TypeInvariant, PTL DEF Spec

(***************************************************************************)
(* One owner, one charge.                                                  *)
(***************************************************************************)
\* The synchronous handler that has inserted t and not started on it yet.
Holds(c, t) == creator[c].task = t /\ creator[c].sync

\* The status a row has under a live goroutine.
RowOf(r) == IF r.at = "charge" THEN "completed" ELSE "processing"

\* SoleOwner for one task, together with what makes it inductive: the
\* synchronous handler counts as the owner until its goroutine starts, and
\* the charge comes last.
SoleInv(t) ==
    /\ \A p, q \in Procs : Live(p, t) /\ Live(q, t) => p = q
    /\ \A p \in Procs : Live(p, t) => status[t] = RowOf(run[p][t])
    /\ \A c, d \in Creators : Holds(c, t) /\ Holds(d, t) => c = d
    /\ \A c \in Creators : Holds(c, t) =>
           status[t] = "processing" /\ \A p \in Procs : ~Live(p, t)
    /\ charges[t] > 0 =>
           /\ charges[t] = 1
           /\ status[t] = "completed"
           /\ \A p \in Procs : ~Live(p, t)

OwnerInv == \A t \in Tasks : ~overlapped[t] => SoleInv(t)

\* What a run can find out about its task.
Verdicts == {"completed", "failed", "pending"}

\* A run that is neither over nor charging, and knows what it will save.
Working(r) ==
    /\ r.at \notin {"idle", "charge"}
    /\ r.at = "save" => r.verdict \in Verdicts

\* A goroutine that is live, is not yet charging and goes on working.
Moves(p, t) ==
    /\ Live(p, t) /\ run[p][t].at # "charge"
    /\ \E r : Become(p, t, r) /\ Working(r)
    /\ UNCHANGED <<status, keys, charges, stores, overlapped>>

\* Between its claim and its save, every step of an execution is such a move.
LEMMA WorkMoves ==
    ASSUME RunsOK, NEW p \in Procs, NEW t \in Tasks, Execution(p, t),
           ~Save(p, t), ~SaveFails(p, t), ~Charge(p, t)
    PROVE  Moves(p, t)
<1> DEFINE r == run[p][t]
<1>0. r \in Runs
  BY DEF RunsOK
<1>s. \A v \in Verdicts : Working(Saving(v))
  BY DEF Saving, NoRun, Working
<1>v. "completed" \in Verdicts /\ "failed" \in Verdicts /\ "pending" \in Verdicts
  BY DEF Verdicts
<1>f. Working(Failed(r))
  BY <1>0, <1>s, <1>v DEF Failed, Runs, Working
<1>1. CASE Start(p, t)
  <2>1. Working(Ready)
    BY DEF Ready, NoRun, Working
  <2> QED
    BY <1>1, <1>s, <1>v, <2>1 DEF Start, Moves, Live
<1>2. CASE \E lost \in BOOLEAN : ReadCommit(p, t, lost)
  <2>1. /\ [NoRun EXCEPT !.at = "pick"].at = "pick"
        /\ [NoRun EXCEPT !.at = "locked", !.target = commit[t], !.fixed = TRUE].at = "locked"
    BY DEF NoRun
  <2> QED
    BY <1>2, <2>1 DEF ReadCommit, Moves, Live, Working
<1>3. CASE \E x \in Targets : Pick(p, t, x) \/ Reuse(p, t, x)
  <2>1. PICK x \in Targets : Pick(p, t, x) \/ Reuse(p, t, x)
    BY <1>3
  <2>2. /\ [r EXCEPT !.at = "ensure", !.target = x, !.tried = @ \union {x[1]}].at = "ensure"
        /\ [r EXCEPT !.at = "ensure", !.target = x].at = "ensure"
    BY <1>0 DEF Runs
  <2> QED
    BY <2>1, <2>2 DEF Pick, Reuse, Moves, Live, Working
<1>4. CASE GiveUp(p, t) \/ Answer(p, t)
  BY <1>4, <1>s, <1>v DEF GiveUp, Answer, Moves, Live
<1>5. /\ [r EXCEPT !.at = "setnx"].at = "setnx"
      /\ [r EXCEPT !.at = "reload"].at = "reload"
      /\ [r EXCEPT !.at = "call"].at = "call"
      /\ [r EXCEPT !.at = "wait"].at = "wait"
  BY <1>0 DEF Runs
<1>6. CASE \E lost \in BOOLEAN : Ensure(p, t, lost)
  <2>1. \/ Become(p, t, [r EXCEPT !.at = "setnx"])
        \/ Become(p, t, [r EXCEPT !.at = "call"])
        \/ Become(p, t, Failed(r))
    BY <1>6 DEF Ensure
  <2> QED
    BY <1>5, <1>6, <1>f, <2>1 DEF Ensure, Moves, Live, Working
<1>7. CASE \E lost \in BOOLEAN : Reload(p, t, lost)
  <2>1. Become(p, t, [r EXCEPT !.at = "call"]) \/ Become(p, t, Failed(r))
    BY <1>7 DEF Reload
  <2> QED
    BY <1>5, <1>7, <1>f, <2>1 DEF Reload, Moves, Live, Working
<1>8. CASE SetNX(p, t) \/ Call(p, t)
  BY <1>5, <1>8 DEF SetNX, Call, Moves, Live, Working
<1>9. CASE AttemptFails(p, t)
  BY <1>9, <1>f DEF AttemptFails, Moves, Live
<1> QED
  BY <1>1, <1>2, <1>3, <1>4, <1>6, <1>7, <1>8, <1>9 DEF Execution, Attempt

\* A task none of whose rows, goroutines and handlers a step touches.
LEMMA Untouched ==
    ASSUME NEW s \in Tasks, SoleInv(s),
           \A p \in Procs : run'[p][s] = run[p][s],
           \A c \in Creators : Holds(c, s)' => Holds(c, s),
           status'[s] = status[s], charges'[s] = charges[s]
    PROVE  SoleInv(s)'
BY DEF SoleInv, Live, Holds, RowOf

LEMMA OwnerInit == Init => OwnerInv
<1> SUFFICES ASSUME Init, NEW t \in Tasks PROVE SoleInv(t)
  BY DEF OwnerInv
<1>1. \A p \in Procs : ~Live(p, t)
  BY DEF Init, Live, NoRun
<1>2. \A c \in Creators : ~Holds(c, t)
  BY DEF Init, Holds, NoCreator
<1> QED
  BY <1>1, <1>2 DEF Init, SoleInv

LEMMA OwnerStep == TypeOK /\ OwnerInv /\ [Next]_vars => OwnerInv'
<1> SUFFICES ASSUME RowsOK, RunsOK, CreatorsOK, OwnerInv, [Next]_vars,
                    NEW s \in Tasks, ~overlapped'[s]
             PROVE  SoleInv(s)'
  BY TypeParts DEF OwnerInv
<1>o. ~overlapped[s]
  <2>1. ASSUME NEW p \in Workers, Requeue(p)
        PROVE  ~overlapped[s]
    <3>1. ~(overlapped[s] \/ (s \in StaleTasks /\ Owned(s)))
      BY <2>1, Zenon DEF Requeue
    <3> QED
      BY <3>1
  <2>2. ASSUME NEW p \in Procs, NEW t \in Tasks, Execution(p, t)
        PROVE  overlapped' = overlapped
    BY <2>2 DEF Execution, Start, ReadCommit, Attempt, Pick, Reuse, Ensure, Reload, SetNX,
                Call, Answer, AttemptFails, GiveUp, Save, SaveFails, Charge
  <2>3. CASE Creation \/ Environment \/ UNCHANGED vars
    BY <2>3 DEF Creation, Lookup, Insert, Record, Environment, ExpireRecord, Age,
                ExpireCommit, LateSetNX, Crash, vars
  <2>4. ASSUME NEW p \in Workers, Poll(p)
        PROVE  overlapped' = overlapped
    BY <2>4 DEF Poll, Claim
  <2> QED
    BY <2>1, <2>2, <2>3, <2>4 DEF Next
<1>i. SoleInv(s)
  BY <1>o DEF OwnerInv
<1>n. None # s
  BY GenerationJobsAssumption
<1>1. ASSUME NEW p \in Procs, NEW t \in Tasks, Execution(p, t)
      PROVE  SoleInv(s)'
  <2>u. creator' = creator
    BY <1>1 DEF Execution, Attempt, Start, GiveUp, Pick, Reuse, ReadCommit, Ensure,
                Reload, SetNX, Call, Answer, AttemptFails, Save, SaveFails, Charge
  <2>r. \E r : run' = [run EXCEPT ![p][t] = r]
    BY <1>1 DEF Execution, Attempt, Start, GiveUp, Pick, Reuse, ReadCommit, Ensure, Become,
                Reload, SetNX, Call, Answer, AttemptFails, Save, SaveFails, Charge
  <2>1. CASE s # t
    <3>1. status'[s] = status[s] /\ charges'[s] = charges[s]
      BY <1>1, <2>1 DEF RowsOK, Execution, Attempt, Start, GiveUp, Pick, Reuse, ReadCommit,
                Ensure, Reload, SetNX, Call, Answer, AttemptFails, Save, SaveFails, Charge
    <3>2. \A q \in Procs : run'[q][s] = run[q][s]
      BY <2>1, <2>r DEF RunsOK
    <3> QED
      BY <1>i, <2>u, <3>1, <3>2, Untouched DEF Holds
  <2>2. CASE s = t
    <3>1. CASE Moves(p, t)
      <4>1. PICK r : run' = [run EXCEPT ![p][t] = r] /\ r.at \notin {"idle", "charge"}
        BY <3>1 DEF Moves, Become, Working
      <4>2. run'[p][s] = r /\ \A q \in Procs : q # p => run'[q][s] = run[q][s]
        BY <2>2, <4>1 DEF RunsOK
      <4> QED
        BY <1>i, <2>2, <2>u, <3>1, <4>1, <4>2 DEF SoleInv, Moves, Live, Holds, RowOf
    <3>2. CASE Save(p, t)
      <4> DEFINE r == IF run[p][t].verdict = "completed"
                      THEN [NoRun EXCEPT !.at = "charge"] ELSE NoRun
      <4>1. run'[p][s] = r /\ \A q \in Procs : q # p => run'[q][s] = run[q][s]
        BY <2>2, <3>2 DEF RunsOK, Save, Become
      <4>2. status'[s] = run[p][t].verdict /\ charges' = charges
        BY <2>2, <3>2 DEF Save, RowsOK
      <4>3. r.at # "idle" => r.at = "charge" /\ run[p][t].verdict = "completed"
        BY DEF NoRun
      <4>4. Live(p, s) /\ run[p][s].at = "save" /\ status[s] = "processing"
        BY <1>i, <2>2, <3>2 DEF Save, Live, SoleInv, RowOf
      <4>5. charges[s] = 0 /\ \A c \in Creators : ~Holds(c, s)
        BY <1>i, <4>4 DEF SoleInv, RowsOK
      <4>6. \A q \in Procs : q # p => ~Live(q, s)'
        BY <1>i, <4>1, <4>4 DEF SoleInv, Live
      <4>7. \A c \in Creators : ~Holds(c, s)'
        BY <2>u, <4>5 DEF Holds
      <4>8. Live(p, s)' => status'[s] = RowOf(run'[p][s])
        BY <4>1, <4>2, <4>3 DEF Live, RowOf
      <4>9. charges'[s] = 0
        BY <4>2, <4>5
      <4> QED
        BY <4>6, <4>7, <4>8, <4>9 DEF SoleInv
    <3>3. CASE SaveFails(p, t) \/ Charge(p, t)
      <4>1. run'[p][s] = NoRun /\ \A q \in Procs : q # p => run'[q][s] = run[q][s]
        BY <2>2, <3>3 DEF RunsOK, SaveFails, Charge, Become
      <4>2. status' = status
        BY <3>3 DEF SaveFails, Charge
      <4>3. NoRun.at = "idle"
        BY DEF NoRun
      <4>4. Live(p, s) /\ charges[s] = 0 /\ \A c \in Creators : ~Holds(c, s)
        BY <1>i, <2>2, <3>3 DEF SaveFails, Charge, Live, SoleInv, RowsOK
      <4>5. \A q \in Procs : q # p => ~Live(q, s)
        BY <1>i, <4>4 DEF SoleInv
      <4>6. charges'[s] > 0 => charges'[s] = 1 /\ status[s] = "completed"
        <5>1. CASE SaveFails(p, t)
          BY <4>4, <5>1 DEF SaveFails
        <5>2. CASE Charge(p, t)
          <6>1. status[s] = "completed"
            BY <1>i, <2>2, <4>4, <5>2 DEF Charge, SoleInv, RowOf
          <6> QED
            BY <2>2, <4>4, <5>2, <6>1 DEF Charge, RowsOK
        <5> QED
          BY <3>3, <5>1, <5>2
      <4> QED
        BY <2>u, <4>1, <4>2, <4>3, <4>4, <4>5, <4>6 DEF SoleInv, Live, Holds, RowOf
    <3> QED
      BY <1>1, <3>1, <3>2, <3>3, WorkMoves
  <2> QED
    BY <2>1, <2>2
<1>2. ASSUME NEW c \in Creators, NEW k \in Keys \union {None}, Lookup(c, k)
      PROVE  SoleInv(s)'
  <2>1. \A d \in Creators : Holds(d, s)' => Holds(d, s)
    BY <1>2, <1>n DEF Lookup, Holds, NoCreator, CreatorsOK
  <2> QED
    BY <1>i, <1>2, <2>1, Untouched DEF Lookup
<1>3. ASSUME NEW c \in Creators, NEW t \in Tasks, NEW sync \in BOOLEAN, Insert(c, t, sync)
      PROVE  SoleInv(s)'
  <2>1. creator'[c].task = t /\ creator'[c].sync = sync
    BY <1>3 DEF Insert, CreatorsOK, CreatorOK
  <2>2. \A d \in Creators : d # c => creator'[d] = creator[d]
    BY <1>3 DEF Insert, CreatorsOK
  <2>3. CASE s # t
    <3>1. \A d \in Creators : Holds(d, s)' => Holds(d, s)
      BY <2>1, <2>2, <2>3 DEF Holds
    <3>2. status'[s] = status[s] /\ run' = run /\ charges' = charges
      BY <1>3, <2>3 DEF Insert, RowsOK
    <3> QED
      BY <1>i, <3>1, <3>2, Untouched
  <2>4. CASE s = t
    <3>1. status[s] = "none" /\ run' = run /\ charges' = charges
      BY <1>3, <2>4 DEF Insert
    <3>2. \A p \in Procs : ~Live(p, s)
      BY <1>i, <3>1 DEF SoleInv, RowOf
    <3>3. \A d \in Creators : ~Holds(d, s)
      BY <1>i, <3>1 DEF SoleInv
    <3>4. charges[s] = 0
      BY <1>i, <3>1 DEF SoleInv, RowsOK
    <3>5. \A d \in Creators : Holds(d, s)' => d = c /\ sync
      BY <2>1, <2>2, <3>3 DEF Holds
    <3>6. sync => status'[s] = "processing"
      BY <1>3, <2>4 DEF Insert, RowsOK
    <3> QED
      BY <3>1, <3>2, <3>4, <3>5, <3>6 DEF SoleInv, Live
  <2> QED
    BY <2>3, <2>4
<1>4. ASSUME NEW c \in Creators, NEW lost \in BOOLEAN, Record(c, lost)
      PROVE  SoleInv(s)'
  <2> DEFINE t == creator[c].task
  <2>0. t \in Tasks /\ status' = status /\ charges' = charges
    BY <1>4 DEF Record, CreatorsOK, CreatorOK
  <2>1. \A d \in Creators : d # c => creator'[d] = creator[d]
    BY <1>4 DEF Record, CreatorsOK
  <2>2. ~Holds(c, s)'
    BY <1>4, <1>n DEF Record, CreatorsOK, Holds, NoCreator
  <2>3. \A d \in Creators : Holds(d, s)' => d # c /\ Holds(d, s)
    BY <2>1, <2>2 DEF Holds
  <2>4. CASE ~Holds(c, s)
    <3>1. \A p \in Procs : run'[p][s] = run[p][s]
      <4>1. CASE creator[c].sync
        <5>1. s # t
          BY <2>4, <4>1 DEF Holds
        <5> QED
          BY <1>4, <2>0, <4>1, <5>1 DEF Record, RunsOK, Procs
      <4>2. CASE ~creator[c].sync
        BY <1>4, <4>2 DEF Record
      <4> QED
        BY <4>1, <4>2
    <3> QED
      BY <1>i, <2>0, <2>3, <3>1, Untouched
  <2>5. CASE Holds(c, s)
    <3>1. status[s] = "processing" /\ \A p \in Procs : ~Live(p, s)
      BY <1>i, <2>5 DEF SoleInv
    <3>2. charges[s] = 0
      BY <1>i, <3>1 DEF SoleInv, RowsOK
    <3>3. \A d \in Creators : ~Holds(d, s)'
      BY <1>i, <2>3, <2>5 DEF SoleInv
    <3>4. Api \in Procs /\ run'[Api][s] = Ready
          /\ \A p \in Procs : p # Api => run'[p][s] = run[p][s]
      BY <1>4, <2>0, <2>5 DEF Record, Holds, RunsOK, Procs
    <3>5. Ready.at = "ready"
      BY DEF Ready, NoRun
    <3> QED
      BY <2>0, <3>1, <3>2, <3>3, <3>4, <3>5 DEF SoleInv, Live, RowOf
  <2> QED
    BY <2>4, <2>5
<1>5. ASSUME NEW p \in Workers, Requeue(p)
      PROVE  SoleInv(s)'
  <2>1. run' = run /\ creator' = creator /\ charges' = charges
    BY <1>5 DEF Requeue
  <2>2. CASE s \in StaleTasks
    <3>1. ~Owned(s) /\ status[s] = "processing"
      <4>1. ~(overlapped[s] \/ (s \in StaleTasks /\ Owned(s)))
        BY <1>5, Zenon DEF Requeue
      <4> QED
        BY <2>2, <4>1 DEF StaleTasks
    <3>2. charges[s] = 0
      BY <1>i, <3>1 DEF SoleInv, RowsOK
    <3> QED
      BY <2>1, <3>1, <3>2 DEF SoleInv, Owned, Live, Holds
  <2>3. CASE s \notin StaleTasks
    <3>1. status'[s] = status[s]
      BY <1>5, <2>3 DEF Requeue
    <3> QED
      BY <1>i, <2>1, <3>1, Untouched DEF Holds
  <2> QED
    BY <2>2, <2>3
<1>6. ASSUME NEW p \in Workers, NEW batch \in SUBSET Tasks, Claim(p, batch)
      PROVE  SoleInv(s)'
  <2>0. p \in Procs /\ creator' = creator /\ charges' = charges
    BY <1>6 DEF Claim, Procs
  <2>1. \A q \in Procs : q # p => run'[q] = run[q]
    BY <1>6, <2>0 DEF Claim, RunsOK
  <2>2. CASE s \notin batch
    <3>1. run'[p][s] = run[p][s] /\ status'[s] = status[s]
      BY <1>6, <2>0, <2>2 DEF Claim, RunsOK
    <3> QED
      BY <1>i, <2>0, <2>1, <3>1, Untouched DEF Holds
  <2>3. CASE s \in batch
    <3>1. status[s] = "pending" /\ status'[s] = "processing"
      BY <1>6, <2>3 DEF Claim
    <3>2. run'[p][s] = [NoRun EXCEPT !.at = "queued"]
      BY <1>6, <2>0, <2>3 DEF Claim, RunsOK
    <3>3. [NoRun EXCEPT !.at = "queued"].at = "queued"
      BY DEF NoRun
    <3>4. /\ \A q \in Procs : ~Live(q, s)
          /\ \A c \in Creators : ~Holds(c, s)
          /\ charges[s] = 0
      BY <1>i, <3>1 DEF SoleInv, RowsOK, RowOf
    <3>5. \A q \in Procs : q # p => ~Live(q, s)'
      BY <2>1, <3>4 DEF Live
    <3>6. \A c \in Creators : ~Holds(c, s)'
      BY <2>0, <3>4 DEF Holds
    <3>7. status'[s] = RowOf(run'[p][s])
      BY <3>1, <3>2, <3>3 DEF RowOf
    <3>8. charges'[s] = 0
      BY <2>0, <3>4
    <3> QED
      BY <3>5, <3>6, <3>7, <3>8 DEF SoleInv
  <2> QED
    BY <2>2, <2>3
<1>7. ASSUME NEW p \in Procs, Crash(p)
      PROVE  SoleInv(s)'
  <2>1. run'[p][s] = NoRun /\ \A q \in Procs : q # p => run'[q][s] = run[q][s]
    BY <1>7 DEF Crash, RunsOK
  <2>2. NoRun.at = "idle"
    BY DEF NoRun
  <2>3. \A c \in Creators : Holds(c, s)' => Holds(c, s)
    BY <1>7, <1>n DEF Crash, Holds, NoCreator
  <2>4. status' = status /\ charges' = charges
    BY <1>7 DEF Crash
  <2> QED
    BY <1>i, <2>1, <2>2, <2>3, <2>4 DEF SoleInv, Live, Holds, RowOf
<1>8. CASE UNCHANGED <<run, creator, status, charges>>
  BY <1>8, <1>i, Untouched DEF Holds
<1> QED
  BY <1>1, <1>2, <1>3, <1>4, <1>5, <1>6, <1>7, <1>8
  DEF Next, Creation, Poll, Environment, vars, Age, ExpireRecord, ExpireCommit, LateSetNX

\* A task that was never requeued under a live goroutine has at most one,
\* and its row has the status that goroutine relies on.
THEOREM SoleOwnership == Spec => []SoleOwner
<1>1. OwnerInv => SoleOwner
  BY DEF OwnerInv, SoleInv, SoleOwner, RowOf
<1> QED
  BY OwnerInit, OwnerStep, TypeInvariant, <1>1, PTL DEF Spec

\* Such a task is charged at most once, and only when it is completed.
THEOREM SoleCharge == Spec => []ChargedOnceIfSole
<1>1. OwnerInv => ChargedOnceIfSole
  BY DEF OwnerInv, SoleInv, ChargedOnceIfSole
<1> QED
  BY OwnerInit, OwnerStep, TypeInvariant, <1>1, PTL DEF Spec

\* A finished task without overlap is never written again: no goroutine and
\* no handler is left that could, and neither requeue nor claim takes it.
THEOREM FinishedStays == Spec => TerminalStable
<1> DEFINE Stays == \A t \in Tasks : status[t] \in Terminal /\ ~overlapped[t] =>
                       status'[t] = status[t]
<1>1. TypeOK /\ OwnerInv /\ [Next]_vars => Stays \/ UNCHANGED vars
  <2> SUFFICES ASSUME RowsOK, RunsOK, CreatorsOK, OwnerInv, [Next]_vars, NEW t \in Tasks,
                      status[t] \in Terminal, ~overlapped[t]
               PROVE  status'[t] = status[t]
    BY TypeParts
  <2>0. SoleInv(t)
    BY DEF OwnerInv
  <2>1. ASSUME NEW p \in Procs, NEW s \in Tasks, Save(p, s)
        PROVE  status'[t] = status[t]
    <3>1. CASE s = t
      BY <2>0, <2>1, <3>1 DEF Save, SoleInv, Live, RowOf, Terminal
    <3>2. CASE s # t
      BY <2>1, <3>2 DEF Save, RowsOK
    <3> QED
      BY <3>1, <3>2
  <2>2. ASSUME NEW c \in Creators, NEW s \in Tasks, NEW sync \in BOOLEAN, Insert(c, s, sync)
        PROVE  status'[t] = status[t]
    BY <2>2 DEF Insert, RowsOK, Terminal
  <2>3. ASSUME NEW p \in Workers, Requeue(p)
        PROVE  status'[t] = status[t]
    BY <2>3 DEF Requeue, StaleTasks, Terminal
  <2>4. ASSUME NEW p \in Workers, NEW batch \in SUBSET Tasks, Claim(p, batch)
        PROVE  status'[t] = status[t]
    BY <2>4 DEF Claim, Terminal
  <2>5. ASSUME NEW p \in Procs, NEW s \in Tasks, Execution(p, s)
        PROVE  status'[t] = status[t]
    <3>1. CASE Save(p, s)
      BY <2>1, <3>1
    <3>2. CASE SaveFails(p, s) \/ Charge(p, s)
      BY <3>2 DEF SaveFails, Charge
    <3>3. CASE Moves(p, s)
      BY <3>3 DEF Moves
    <3> QED
      BY <2>5, <3>1, <3>2, <3>3, WorkMoves
  <2>6. CASE Environment \/ UNCHANGED vars
    BY <2>6 DEF Environment, ExpireRecord, Age, ExpireCommit, LateSetNX, Crash, vars
  <2>7. CASE Creation
    BY <2>2, <2>7 DEF Creation, Lookup, Record
  <2> QED
    BY <2>3, <2>4, <2>5, <2>6, <2>7 DEF Next, Poll
<1> QED
  BY <1>1, OwnerInit, OwnerStep, TypeInvariant, PTL DEF Spec, TerminalStable

(***************************************************************************)
(* Charges and results.                                                    *)
(***************************************************************************)
\* The goroutines that have stored a result of t and still have to charge.
Charging(t) == {p \in Procs : run[p][t].at = "charge"}

LEMMA ChargingFinite ==
    ASSUME NEW t
    PROVE  IsFiniteSet(Charging(t)) /\ Cardinality(Charging(t)) \in Nat
<1>1. IsFiniteSet(Procs)
  BY GenerationJobsAssumption, FS_AddElement DEF Procs
<1>2. Charging(t) \in SUBSET Procs
  BY DEF Charging
<1> QED
  BY <1>1, <1>2, FS_Subset, FS_CardinalityType

\* Fewer goroutines that will charge, no new charge, no result lost.
Settles(t) ==
    /\ Charging(t)' \subseteq Charging(t)
    /\ charges'[t] = charges[t]
    /\ stores'[t] = stores[t]

LEMMA SettlesKeeps ==
    ASSUME RowsOK, RowsOK', NEW t \in Tasks, Settles(t),
           charges[t] + Cardinality(Charging(t)) <= stores[t]
    PROVE  charges'[t] + Cardinality(Charging(t)') <= stores'[t]
<1>1. Cardinality(Charging(t)') <= Cardinality(Charging(t))
  BY ChargingFinite, FS_Subset DEF Settles
<1>2. Cardinality(Charging(t)) \in Nat /\ Cardinality(Charging(t)') \in Nat
  <2>1. IsFiniteSet(Charging(t)')
    BY ChargingFinite, FS_Subset DEF Settles
  <2> QED
    BY <2>1, ChargingFinite, FS_CardinalityType
<1>3. charges[t] \in Nat /\ stores[t] \in Nat
  BY DEF RowsOK
<1> QED
  BY <1>1, <1>2, <1>3 DEF Settles

\* A goroutine that does not start to charge.
LEMMA MoveSettles ==
    ASSUME RunsOK, NEW p \in Procs, NEW t \in Tasks, NEW r, Become(p, t, r),
           r.at # "charge", NEW s \in Tasks
    PROVE  Charging(s)' \subseteq Charging(s)
BY DEF RunsOK, Become, Charging

\* Every charge has a stored result of its own: a run charges once, right
\* after the save that stored "completed", and a crash between the two only
\* loses the charge.
THEOREM ChargesMatchResults == Spec => []ChargesHaveResults
<1>0. ChargesHaveResults <=>
        \A t \in Tasks : charges[t] + Cardinality(Charging(t)) <= stores[t]
  BY DEF ChargesHaveResults, Charging
<1>1. Init => ChargesHaveResults
  <2> SUFFICES ASSUME Init, NEW t \in Tasks
               PROVE  charges[t] + Cardinality(Charging(t)) <= stores[t]
    BY <1>0
  <2>1. Charging(t) = {}
    BY DEF Init, Charging, NoRun
  <2> QED
    BY <2>1, FS_EmptySet DEF Init
<1>2. TypeOK /\ TypeOK' /\ ChargesHaveResults /\ [Next]_vars => ChargesHaveResults'
  <2> SUFFICES ASSUME RowsOK, RunsOK, CreatorsOK, RowsOK', [Next]_vars, NEW s \in Tasks,
                      charges[s] + Cardinality(Charging(s)) <= stores[s]
               PROVE  charges'[s] + Cardinality(Charging(s)') <= stores'[s]
    BY <1>0, TypeParts DEF ChargesHaveResults, Charging, TypeOK, RowsOK
  <2>t. charges[s] \in Nat /\ stores[s] \in Nat
    BY DEF RowsOK
  <2>c. IsFiniteSet(Charging(s)) /\ Cardinality(Charging(s)) \in Nat
    BY ChargingFinite
  <2>i. NoRun.at # "charge"
    BY DEF NoRun
  <2>1. ASSUME NEW p \in Procs, NEW t \in Tasks, Execution(p, t)
        PROVE  charges'[s] + Cardinality(Charging(s)') <= stores'[s]
    <3>1. CASE Moves(p, t)
      <4>1. PICK r : Become(p, t, r) /\ r.at # "charge"
        BY <3>1 DEF Moves, Working
      <4>2. Settles(s)
        BY <3>1, <4>1, MoveSettles DEF Moves, Settles
      <4> QED
        BY <4>2, SettlesKeeps
    <3>2. CASE SaveFails(p, t)
      <4>1. Settles(s)
        BY <2>i, <3>2, MoveSettles DEF SaveFails, Settles
      <4> QED
        BY <4>1, SettlesKeeps
    <3>3. CASE Save(p, t) /\ (run[p][t].verdict # "completed" \/ s # t)
      <4>1. charges' = charges /\ stores'[s] = stores[s]
        BY <3>3 DEF Save, RowsOK
      <4>2. Charging(s)' \subseteq Charging(s)
        <5>1. CASE s # t
          BY <3>3, <5>1 DEF Save, Become, Charging, RunsOK
        <5>2. CASE run[p][t].verdict # "completed"
          BY <2>i, <3>3, <5>2, MoveSettles DEF Save
        <5> QED
          BY <3>3, <5>1, <5>2
      <4> QED
        BY <4>1, <4>2, SettlesKeeps DEF Settles
    <3>4. CASE Save(p, t) /\ run[p][t].verdict = "completed" /\ s = t
      <4>1. charges' = charges /\ stores'[s] = stores[s] + 1
        BY <3>4 DEF Save, RowsOK
      <4>2. Charging(s)' \subseteq Charging(s) \cup {p}
        BY <3>4 DEF Save, Become, Charging, RunsOK
      <4>3. /\ IsFiniteSet(Charging(s) \cup {p})
            /\ Cardinality(Charging(s) \cup {p}) \in Nat
            /\ Cardinality(Charging(s) \cup {p}) <= Cardinality(Charging(s)) + 1
        <5>1. Cardinality(Charging(s) \cup {p}) =
                IF p \in Charging(s) THEN Cardinality(Charging(s))
                                    ELSE Cardinality(Charging(s)) + 1
          BY <2>c, FS_AddElement
        <5>2. IsFiniteSet(Charging(s) \cup {p})
          BY <2>c, FS_AddElement
        <5> QED
          BY <2>c, <5>1, <5>2
      <4>4. /\ IsFiniteSet(Charging(s)')
            /\ Cardinality(Charging(s)') <= Cardinality(Charging(s) \cup {p})
        BY <4>2, <4>3, FS_Subset
      <4>5. Cardinality(Charging(s)') \in Nat
        BY <4>4, FS_CardinalityType
      <4> QED
        BY <2>t, <2>c, <4>1, <4>3, <4>4, <4>5
    <3>5. CASE Charge(p, t)
      <4>1. CASE s # t
        <5>1. Settles(s)
          BY <2>i, <3>5, <4>1, MoveSettles DEF Charge, Settles, RowsOK
        <5> QED
          BY <5>1, SettlesKeeps
      <4>2. CASE s = t
        <5>1. p \in Charging(s) /\ Charging(s)' = Charging(s) \ {p}
          BY <2>i, <3>5, <4>2 DEF Charge, Become, Charging, RunsOK
        <5>2. Cardinality(Charging(s)') = Cardinality(Charging(s)) - 1
          BY <2>c, <5>1, FS_RemoveElement
        <5>3. PICK n \in {0, 1} : charges' = [charges EXCEPT ![t] = @ + n]
          BY <3>5 DEF Charge
        <5>4. charges'[s] = charges[s] + n /\ stores'[s] = stores[s]
          BY <3>5, <4>2, <5>3 DEF Charge, RowsOK
        <5> QED
          BY <2>t, <2>c, <5>2, <5>4
      <4> QED
        BY <4>1, <4>2
    <3> QED
      BY <2>1, <3>1, <3>2, <3>3, <3>4, <3>5, WorkMoves
  <2>2. ASSUME NEW c \in Creators, NEW lost \in BOOLEAN, Record(c, lost)
        PROVE  Settles(s)
    <3>1. creator[c].task \in Tasks
      BY <2>2 DEF Record, CreatorsOK, CreatorOK
    <3>2. Ready.at # "charge"
      BY DEF Ready, NoRun
    <3> QED
      BY <2>2, <3>1, <3>2 DEF Record, Settles, Charging, RunsOK
  <2>3. ASSUME NEW p \in Workers, NEW batch \in SUBSET Tasks, Claim(p, batch)
        PROVE  Settles(s)
    <3>1. [NoRun EXCEPT !.at = "queued"].at # "charge"
      BY DEF NoRun
    <3> QED
      BY <2>3, <3>1 DEF Claim, Settles, Charging, RunsOK, Procs
  <2>4. ASSUME NEW p \in Procs, Crash(p)
        PROVE  Settles(s)
    BY <2>i, <2>4 DEF Crash, Settles, Charging, RunsOK
  <2>5. CASE UNCHANGED <<run, charges, stores>>
    BY <2>5 DEF Settles, Charging
  <2> QED
    BY <2>1, <2>2, <2>3, <2>4, <2>5, SettlesKeeps
    DEF Next, Creation, Poll, Environment, vars, Lookup, Insert, Requeue, Age,
        ExpireRecord, ExpireCommit, LateSetNX
<1> QED
  BY <1>1, <1>2, TypeInvariant, PTL DEF Spec

(***************************************************************************)
(* Idempotency keys.                                                       *)
(***************************************************************************)
\* A row that is not inserted yet has no key; a handler that writes the
\* record has inserted its task under its key; no save undoes an insert,
\* because a run saves a verdict.
FreshInv ==
    /\ \A t \in Tasks : status[t] = "none" => keyOf[t] = None
    /\ \A c \in Creators : creator[c].at = "record" =>
         /\ status[creator[c].task] # "none"
         /\ keyOf[creator[c].task] = creator[c].key
    /\ \A p \in Procs, t \in Tasks :
         run[p][t].at = "save" => run[p][t].verdict \in Verdicts

\* What holds of a key as long as nobody looked it up in a gap of its
\* record: one handler at work, no task before its insert, one task after.
KeyInv(k) ==
    /\ \A s, t \in Tasks : keyOf[s] = k /\ keyOf[t] = k => s = t
    /\ \A t \in Tasks : record[k] = t => keyOf[t] = k
    /\ \A c, d \in Creators : creator[c].key = k /\ creator[d].key = k => c = d
    /\ \A c \in Creators : creator[c].at = "insert" /\ creator[c].key = k =>
           \A t \in Tasks : keyOf[t] # k

KeysInv == \A k \in Keys : ~doubtful[k] => KeyInv(k)

LEMMA KeysApart == (\A k \in Keys : k # None) /\ (\A t \in Tasks : t # None)
BY GenerationJobsAssumption

LEMMA FreshInit == Init => FreshInv /\ KeysInv
<1> SUFFICES ASSUME Init PROVE FreshInv /\ KeysInv
  OBVIOUS
<1>1. \A c \in Creators : creator[c].at = "idle" /\ creator[c].key = None
  BY DEF Init, NoCreator
<1>2. \A p \in Procs, t \in Tasks : run[p][t].at = "idle"
  BY DEF Init, NoRun
<1>3. \A t \in Tasks : keyOf[t] = None
  BY DEF Init
<1>4. \A k \in Keys : record[k] = None
  BY DEF Init
<1> QED
  BY <1>1, <1>2, <1>3, <1>4, KeysApart DEF FreshInv, KeysInv, KeyInv

\* Rows stay inserted, and only their insert gives them a key.
LEMMA FreshStep == TypeOK /\ FreshInv /\ [Next]_vars => FreshInv'
<1> SUFFICES ASSUME RowsOK, RunsOK, CreatorsOK, FreshInv, [Next]_vars
             PROVE  FreshInv'
  BY TypeParts
<1>0. \A c \in Creators : creator[c].at = "record" => creator[c].task \in Tasks
  BY DEF CreatorsOK, CreatorOK
<1>i. NoRun.at # "save" /\ Ready.at # "save" /\ [NoRun EXCEPT !.at = "queued"].at # "save"
      /\ [NoRun EXCEPT !.at = "charge"].at # "save" /\ NoCreator.at = "idle"
  BY DEF NoRun, Ready, NoCreator
<1>1. ASSUME NEW p \in Procs, NEW t \in Tasks, Execution(p, t)
      PROVE  FreshInv'
  <2>1. CASE Moves(p, t)
    <3>1. PICK r : Become(p, t, r) /\ Working(r)
      BY <2>1 DEF Moves
    <3> QED
      <4>1. \A q \in Procs, s \in Tasks :
              run'[q][s].at = "save" => run'[q][s].verdict \in Verdicts
        BY <3>1 DEF Working, Become, RunsOK, FreshInv
      <4> QED
        BY <2>1, <4>1 DEF Moves, FreshInv
  <2>2. CASE Save(p, t)
    <3>1. status'[t] # "none" /\ \A s \in Tasks : s # t => status'[s] = status[s]
      BY <2>2 DEF Save, FreshInv, RowsOK, Verdicts
    <3>2. UNCHANGED <<creator, keyOf>>
      BY <2>2 DEF Save
    <3>3. \A q \in Procs, s \in Tasks : run'[q][s].at = "save" => run'[q][s] = run[q][s]
      BY <1>i, <2>2 DEF Save, Become, RunsOK
    <3>4. \A s \in Tasks : status'[s] = "none" => status[s] = "none"
      BY <3>1
    <3> QED
      BY <1>0, <3>2, <3>3, <3>4 DEF FreshInv
  <2>3. CASE SaveFails(p, t) \/ Charge(p, t)
    <3>1. UNCHANGED <<status, creator, keyOf>>
      BY <2>3 DEF SaveFails, Charge
    <3>2. Become(p, t, NoRun)
      BY <2>3 DEF SaveFails, Charge
    <3>3. \A q \in Procs, s \in Tasks : run'[q][s].at = "save" => run'[q][s] = run[q][s]
      BY <1>i, <3>2 DEF Become, RunsOK
    <3> QED
      BY <3>1, <3>3 DEF FreshInv
  <2> QED
    BY <1>1, <2>1, <2>2, <2>3, WorkMoves
<1>2. ASSUME NEW c \in Creators, NEW k \in Keys \cup {None}, Lookup(c, k)
      PROVE  FreshInv'
  <2>1. \A d \in Creators : creator'[d].at = "record" => creator'[d] = creator[d]
    BY <1>2 DEF Lookup, CreatorsOK, NoCreator
  <2> QED
    BY <1>2, <2>1 DEF Lookup, FreshInv
<1>3. ASSUME NEW c \in Creators, NEW t \in Tasks, NEW sync \in BOOLEAN, Insert(c, t, sync)
      PROVE  FreshInv'
  <2>1. status'[t] # "none" /\ keyOf'[t] = creator[c].key
    BY <1>3 DEF Insert, RowsOK
  <2>2. \A s \in Tasks : s # t => status'[s] = status[s] /\ keyOf'[s] = keyOf[s]
    BY <1>3 DEF Insert, RowsOK
  <2>3. creator'[c].task = t /\ creator'[c].key = creator[c].key
    BY <1>3 DEF Insert, CreatorsOK, CreatorOK
  <2>4. \A d \in Creators : d # c => creator'[d] = creator[d]
    BY <1>3 DEF Insert, CreatorsOK
  <2>5. \A d \in Creators : d # c /\ creator[d].at = "record" => creator[d].task # t
    BY <1>3 DEF Insert, FreshInv
  <2>6. run' = run
    BY <1>3 DEF Insert
  <2> QED
    BY <1>0, <2>1, <2>2, <2>3, <2>4, <2>5, <2>6 DEF FreshInv
<1>4. ASSUME NEW c \in Creators, NEW lost \in BOOLEAN, Record(c, lost)
      PROVE  FreshInv'
  <2>1. \A d \in Creators : creator'[d].at = "record" => creator'[d] = creator[d]
    BY <1>i, <1>4 DEF Record, CreatorsOK
  <2>2. \A q \in Procs, s \in Tasks : run'[q][s].at = "save" => run'[q][s] = run[q][s]
    BY <1>0, <1>i, <1>4 DEF Record, RunsOK
  <2> QED
    BY <1>4, <2>1, <2>2 DEF Record, FreshInv
<1>5. ASSUME NEW p \in Workers, Requeue(p)
      PROVE  FreshInv'
  <2>1. \A t \in Tasks : status'[t] = "none" <=> status[t] = "none"
    BY <1>5 DEF Requeue, StaleTasks
  <2> QED
    BY <1>0, <1>5, <2>1 DEF Requeue, FreshInv
<1>6. ASSUME NEW p \in Workers, NEW batch \in SUBSET Tasks, Claim(p, batch)
      PROVE  FreshInv'
  <2>1. \A t \in Tasks : status'[t] = "none" <=> status[t] = "none"
    BY <1>6 DEF Claim
  <2>2. \A q \in Procs, s \in Tasks : run'[q][s].at = "save" => run'[q][s] = run[q][s]
    BY <1>i, <1>6 DEF Claim, RunsOK, Procs
  <2> QED
    BY <1>0, <1>6, <2>1, <2>2 DEF Claim, FreshInv
<1>7. ASSUME NEW p \in Procs, Crash(p)
      PROVE  FreshInv'
  <2>1. \A d \in Creators : creator'[d].at = "record" => creator'[d] = creator[d]
    BY <1>i, <1>7 DEF Crash
  <2>2. \A q \in Procs, s \in Tasks : run'[q][s].at = "save" => run'[q][s] = run[q][s]
    BY <1>i, <1>7 DEF Crash, RunsOK
  <2> QED
    BY <1>7, <2>1, <2>2 DEF Crash, FreshInv
<1>8. CASE UNCHANGED <<run, creator, status, keyOf>>
  BY <1>8 DEF FreshInv
<1> QED
  BY <1>1, <1>2, <1>3, <1>4, <1>5, <1>6, <1>7, <1>8
  DEF Next, Creation, Poll, Environment, vars, Age, ExpireRecord, ExpireCommit, LateSetNX

LEMMA KeysStep == TypeOK /\ FreshInv /\ KeysInv /\ [Next]_vars => KeysInv'
<1> SUFFICES ASSUME RowsOK, RunsOK, CreatorsOK, FreshInv, KeysInv, [Next]_vars,
                    NEW k \in Keys, ~doubtful'[k]
             PROVE  KeyInv(k)'
  BY TypeParts DEF KeysInv
<1>0. k # None /\ NoCreator.key = None
  BY KeysApart DEF NoCreator
<1>1. ASSUME NEW c \in Creators, NEW j \in Keys \cup {None}, Lookup(c, j)
      PROVE  KeyInv(k)'
  <2>1. \A d \in Creators : d # c => creator'[d] = creator[d]
    BY <1>1 DEF Lookup, CreatorsOK
  <2>2. creator'[c].key = j /\ creator[c].key = None
    <3>1. creator'[c] = [NoCreator EXCEPT !.at = "insert", !.key = j]
      BY <1>1 DEF Lookup, CreatorsOK
    <3>2. [NoCreator EXCEPT !.at = "insert", !.key = j].key = j
      BY DEF NoCreator
    <3> QED
      BY <1>0, <1>1, <3>1, <3>2 DEF Lookup
  <2>3. UNCHANGED <<record, keyOf>>
    BY <1>1 DEF Lookup
  <2> DEFINE gap == \/ expired[k]
                    \/ \E d \in Creators : creator[d].key = k
                    \/ record[k] = None /\ \E t \in Tasks : keyOf[t] = k
  <2>4. ~(doubtful[k] \/ (k = j /\ gap))
    BY <1>1, Zenon DEF Lookup
  <2>5. KeyInv(k)
    BY <2>4 DEF KeysInv
  <2>6. CASE j # k
    BY <1>0, <2>1, <2>2, <2>3, <2>5, <2>6 DEF KeyInv
  <2>7. CASE j = k
    <3>1. record[k] = None \/ expired[k]
      BY <1>0, <1>1, <2>7 DEF Lookup
    <3>2. (\A d \in Creators : creator[d].key # k) /\ \A t \in Tasks : keyOf[t] # k
      <4>1. ~gap
        <5> HIDE DEF gap
        <5> QED
          BY <2>4, <2>7, Zenon
      <4>2. ~expired[k]
        BY <4>1, Zenon
      <4>3. ~\E d \in Creators : creator[d].key = k
        BY <4>1, Zenon
      <4>4. ~(record[k] = None /\ \E t \in Tasks : keyOf[t] = k)
        BY <4>1, Zenon
      <4> QED
        BY <3>1, <4>2, <4>3, <4>4, Zenon
    <3>3. \A d \in Creators : creator'[d].key = k => d = c
      BY <2>1, <3>2
    <3> QED
      BY <2>3, <2>5, <3>2, <3>3 DEF KeyInv
  <2> QED
    BY <2>6, <2>7
<1>2. ASSUME NEW c \in Creators, NEW t \in Tasks, NEW sync \in BOOLEAN, Insert(c, t, sync)
      PROVE  KeyInv(k)'
  <2>1. \A d \in Creators : d # c => creator'[d] = creator[d]
    BY <1>2 DEF Insert, CreatorsOK
  <2>2. creator'[c].key = creator[c].key /\ creator'[c].at = "record"
    BY <1>2 DEF Insert, CreatorsOK, CreatorOK
  <2>3. keyOf'[t] = creator[c].key /\ \A s \in Tasks : s # t => keyOf'[s] = keyOf[s]
    BY <1>2 DEF Insert, RowsOK
  <2>4. keyOf[t] = None /\ creator[c].at = "insert"
    BY <1>2 DEF Insert, FreshInv
  <2>5. record' = record /\ KeyInv(k)
    BY <1>2 DEF Insert, KeysInv
  <2>6. CASE creator[c].key # k
    BY <1>0, <2>1, <2>2, <2>3, <2>4, <2>5, <2>6 DEF KeyInv
  <2>7. CASE creator[c].key = k
    <3>1. \A s \in Tasks : keyOf[s] # k /\ record[k] # s
      BY <2>4, <2>5, <2>7 DEF KeyInv
    <3>2. \A s \in Tasks : keyOf'[s] = k => s = t
      BY <2>3, <3>1
    <3>3. \A d \in Creators : creator'[d].key = k => d = c
      BY <2>1, <2>5, <2>7 DEF KeyInv
    <3> QED
      BY <2>2, <2>5, <3>1, <3>2, <3>3 DEF KeyInv
  <2> QED
    BY <2>6, <2>7
<1>3. ASSUME NEW c \in Creators, NEW lost \in BOOLEAN, Record(c, lost)
      PROVE  KeyInv(k)'
  <2>1. \A d \in Creators : creator'[d].key = k => creator'[d] = creator[d]
    BY <1>0, <1>3 DEF Record, CreatorsOK
  <2>2. keyOf' = keyOf /\ KeyInv(k)
    BY <1>3 DEF Record, KeysInv
  <2>3. \A t \in Tasks : record'[k] = t => keyOf[t] = k
    <3>1. keyOf[creator[c].task] = creator[c].key
      BY <1>3 DEF Record, FreshInv
    <3>2. record'[k] = record[k] \/ (k = creator[c].key /\ record'[k] = creator[c].task)
      BY <1>3 DEF Record
    <3> QED
      BY <2>2, <3>1, <3>2 DEF KeyInv
  <2> QED
    BY <2>1, <2>2, <2>3 DEF KeyInv
<1>4. ASSUME NEW p \in Procs, Crash(p)
      PROVE  KeyInv(k)'
  <2>1. \A d \in Creators : creator'[d].key = k => creator'[d] = creator[d]
    BY <1>0, <1>4 DEF Crash
  <2> QED
    BY <1>4, <2>1 DEF Crash, KeysInv, KeyInv
<1>5. CASE UNCHANGED <<creator, record, keyOf, doubtful>>
  BY <1>5 DEF KeysInv, KeyInv
<1>6. ASSUME NEW p \in Procs, NEW t \in Tasks, Execution(p, t)
      PROVE  UNCHANGED <<creator, record, keyOf, doubtful>>
  BY <1>6, WorkMoves DEF Moves, Save, SaveFails, Charge
<1> QED
  BY <1>1, <1>2, <1>3, <1>4, <1>5, <1>6
  DEF Next, Creation, Poll, Environment, vars, Requeue, Claim, Age, ExpireRecord,
      ExpireCommit, LateSetNX

\* Under a key that nobody looked up while its record was missing or had
\* expired there is one task, and the record names a task of that key.
THEOREM DuplicatesHaveACause == Spec => []DuplicateHasCause
<1>1. KeysInv => DuplicateHasCause
  BY DEF KeysInv, KeyInv, DuplicateHasCause
<1> QED
  BY FreshInit, FreshStep, KeysStep, TypeInvariant, <1>1, PTL DEF Spec

(***************************************************************************)
(* The life of a task.                                                     *)
(***************************************************************************)
\* Some goroutine works on t.
Busy(t) == \E p \in Procs : Live(p, t)

\* The phase of a task, read off its row and its goroutines.
Reads(t) ==
    /\ overlapped[t] => Life(t) = "overlapped"
    /\ ~overlapped[t] =>
         /\ status[t] = "none" => Life(t) = "absent"
         /\ status[t] = "pending" => Life(t) = "waiting"
         /\ status[t] = "processing" /\ Owned(t) => Life(t) = "running"
         /\ status[t] = "processing" /\ ~Owned(t) => Life(t) = "orphaned"
         /\ status[t] = "completed" /\ Busy(t) => Life(t) = "owed"
         /\ status[t] = "completed" /\ ~Busy(t) => Life(t) = "settled"
         /\ status[t] = "failed" => Life(t) = "failed"

LEMMA LifeReads == ASSUME NEW t PROVE Reads(t) /\ Reads(t)'
<1>1. Reads(t)
  BY DEF Reads, Life, Busy
<1>2. Reads(t)'
  BY DEF Reads, Life, Busy
<1> QED
  BY <1>1, <1>2

\* The turns a life takes without a charge.
Turns == {<<"absent", "waiting">>, <<"absent", "running">>, <<"waiting", "running">>,
          <<"running", "owed">>, <<"running", "failed">>, <<"running", "waiting">>,
          <<"running", "orphaned">>, <<"orphaned", "waiting">>,
          <<"running", "overlapped">>, <<"owed", "settled">>}

LEMMA LifeTurns ==
    ASSUME NEW t \in Tasks,
           \/ /\ <<Life(t), Life(t)'>> \in Turns \/ Life(t)' = Life(t)
              /\ charges'[t] = charges[t]
           \/ /\ Life(t) = "owed" /\ Life(t)' = "settled"
              /\ charges'[t] \in {charges[t], charges[t] + 1}
           \/ Life(t) = "overlapped" /\ Life(t)' = "overlapped"
    PROVE  Contract!Step(t)
<1>1. [s \in Tasks |-> Life(s)][t] = Life(t) /\ [s \in Tasks |-> Life(s)]'[t] = Life(t)'
  OBVIOUS
<1> QED
  BY <1>1 DEF Turns, Contract!Step, Contract!Create, Contract!Claim, Contract!Finish,
              Contract!Die, Contract!Recover, Contract!Overlap, Contract!Settle,
              Contract!Anything, Contract!Rest, Contract!Turn, Contract!Free

\* A step that leaves the row of t alone and gives it no new owner: t rests,
\* or its run dies, or its charge is lost.
LEMMA LifeKeeps ==
    ASSUME RowsOK, NEW t \in Tasks,
           status'[t] = status[t], charges'[t] = charges[t],
           overlapped'[t] = overlapped[t],
           status[t] = "processing" /\ Owned(t)' => Owned(t),
           status[t] = "completed" /\ Busy(t)' => Busy(t)
    PROVE  Contract!Step(t)
<1>1. status[t] \in Statuses
  BY DEF RowsOK
<1>2. <<Life(t), Life(t)'>> \in Turns \/ Life(t)' = Life(t)
  BY <1>1, LifeReads DEF Reads, Statuses, Turns
<1> QED
  BY <1>2, LifeTurns

\* No owner comes from nowhere.
LEMMA OwnersKept ==
    ASSUME NEW t, \A p \in Procs : Live(p, t)' => Live(p, t),
           \A c \in Creators : Holds(c, t)' => Holds(c, t)
    PROVE  (Owned(t)' => Owned(t)) /\ (Busy(t)' => Busy(t))
BY DEF Owned, Busy, Holds

\* What a goroutine does to the task it works on, and to the others.
LEMMA ExecutionLives ==
    ASSUME RowsOK, RunsOK, FreshInv, OwnerInv, NEW p \in Procs, NEW s \in Tasks,
           Execution(p, s), NEW t \in Tasks
    PROVE  Contract!Step(t)
<1>u. creator' = creator /\ overlapped' = overlapped
  BY DEF Execution, Attempt, Start, GiveUp, Pick, Reuse, ReadCommit, Ensure,
         Reload, SetNX, Call, Answer, AttemptFails, Save, SaveFails, Charge
<1>r. PICK r : run' = [run EXCEPT ![p][s] = r]
  BY DEF Execution, Attempt, Start, GiveUp, Pick, Reuse, ReadCommit, Ensure, Become,
         Reload, SetNX, Call, Answer, AttemptFails, Save, SaveFails, Charge
<1>l. run'[p][s] = r
  BY <1>r DEF RunsOK
<1>o. CASE overlapped[t]
  BY <1>o, <1>u, LifeReads, LifeTurns DEF Reads
<1>1. CASE t # s
  <2>1. status'[t] = status[t] /\ charges'[t] = charges[t]
    BY <1>1 DEF RowsOK, Execution, Attempt, Start, GiveUp, Pick, Reuse, ReadCommit,
                Ensure, Reload, SetNX, Call, Answer, AttemptFails, Save, SaveFails, Charge
  <2>2. \A q \in Procs : Live(q, t)' => Live(q, t)
    BY <1>1, <1>r DEF RunsOK, Live
  <2>3. \A c \in Creators : Holds(c, t)' => Holds(c, t)
    BY <1>u DEF Holds
  <2> QED
    BY <1>u, <2>1, <2>2, <2>3, OwnersKept, LifeKeeps
<1>2. CASE t = s /\ ~overlapped[t]
  <2>0. SoleInv(t)
    BY <1>2 DEF OwnerInv
  <2>1. CASE Moves(p, s)
    <3>1. Busy(t) /\ Owned(t)
      BY <1>2, <2>1 DEF Moves, Busy, Owned
    <3> QED
      BY <1>2, <2>1, <3>1, LifeKeeps DEF Moves
  <2>2. CASE SaveFails(p, s)
    <3>1. Busy(t) /\ Owned(t)
      BY <1>2, <2>2 DEF SaveFails, Live, Busy, Owned
    <3> QED
      BY <1>2, <2>2, <3>1, LifeKeeps DEF SaveFails
  <2>3. CASE Save(p, s)
    <3>1. Live(p, t) /\ run[p][t].at = "save"
      BY <1>2, <2>3 DEF Save, Live
    <3>2. status[t] = "processing" /\ Owned(t)
      BY <2>0, <3>1 DEF SoleInv, RowOf, Owned
    <3>3. status'[t] \in Verdicts /\ status'[t] = run[p][t].verdict
          /\ charges'[t] = charges[t]
      BY <1>2, <2>3 DEF Save, FreshInv, RowsOK
    <3>4. status'[t] = "completed" => Busy(t)'
      <4>1. [NoRun EXCEPT !.at = "charge"].at # "idle"
        BY DEF NoRun
      <4>2. run'[p][t] = IF status'[t] = "completed" THEN [NoRun EXCEPT !.at = "charge"]
                                                     ELSE NoRun
        BY <1>2, <2>3, <3>3 DEF Save, Become, RunsOK
      <4>3. status'[t] = "completed" => run'[p][t].at # "idle"
        BY <4>1, <4>2
      <4> QED
        BY <4>3 DEF Busy, Live
    <3>5. <<Life(t), Life(t)'>> \in Turns
      BY <1>2, <1>u, <3>2, <3>3, <3>4, LifeReads DEF Reads, Verdicts, Turns
    <3> QED
      BY <3>3, <3>5, LifeTurns
  <2>4. CASE Charge(p, s)
    <3>1. Live(p, t) /\ run[p][t].at = "charge" /\ run'[p][t] = NoRun
      BY <1>2, <2>4 DEF Charge, Live, Become, RunsOK
    <3>2. status[t] = "completed" /\ Busy(t) /\ status'[t] = "completed"
      BY <2>0, <2>4, <3>1 DEF SoleInv, RowOf, Busy, Charge
    <3>3. \A q \in Procs : ~Live(q, t)'
      <4>1. NoRun.at = "idle"
        BY DEF NoRun
      <4>2. \A q \in Procs : q # p => ~Live(q, t)
        BY <2>0, <3>1 DEF SoleInv
      <4>3. \A q \in Procs : q # p => run'[q][t] = run[q][t]
        BY <1>r DEF RunsOK
      <4> QED
        BY <3>1, <4>1, <4>2, <4>3 DEF Live
    <3>4. Life(t) = "owed" /\ Life(t)' = "settled"
      BY <1>2, <1>u, <3>2, <3>3, LifeReads DEF Reads, Busy
    <3>5. charges'[t] \in {charges[t], charges[t] + 1}
      BY <1>2, <2>4 DEF Charge, RowsOK
    <3> QED
      BY <3>4, <3>5, LifeTurns
  <2> QED
    BY <2>1, <2>2, <2>3, <2>4, WorkMoves
<1> QED
  BY <1>o, <1>1, <1>2

\* A handler creates a task, records it and hands it to its goroutine.
LEMMA CreationLives ==
    ASSUME RowsOK, RunsOK, CreatorsOK, OwnerInv, Creation, NEW t \in Tasks
    PROVE  Contract!Step(t)
<1>u. overlapped' = overlapped
  BY DEF Creation, Lookup, Insert, Record
<1>n. NoCreator.task = None /\ None # t
  BY GenerationJobsAssumption DEF NoCreator
<1>o. CASE overlapped[t]
  BY <1>o, <1>u, LifeReads, LifeTurns DEF Reads
<1> SUFFICES ASSUME ~overlapped[t] PROVE Contract!Step(t)
  BY <1>o
<1>i. SoleInv(t)
  BY DEF OwnerInv
<1>1. ASSUME NEW c \in Creators, NEW k \in Keys \union {None}, Lookup(c, k)
      PROVE  Contract!Step(t)
  <2>1. \A d \in Creators : Holds(d, t)' => Holds(d, t)
    BY <1>1, <1>n DEF Lookup, Holds, NoCreator, CreatorsOK
  <2>2. \A p \in Procs : Live(p, t)' => Live(p, t)
    BY <1>1 DEF Lookup, Live
  <2> QED
    BY <1>1, <1>u, <2>1, <2>2, OwnersKept, LifeKeeps DEF Lookup
<1>2. ASSUME NEW c \in Creators, NEW s \in Tasks, NEW sync \in BOOLEAN, Insert(c, s, sync)
      PROVE  Contract!Step(t)
  <2>1. creator'[c].task = s /\ creator'[c].sync = sync
        /\ \A d \in Creators : d # c => creator'[d] = creator[d]
    BY <1>2 DEF Insert, CreatorsOK, CreatorOK
  <2>2. run' = run /\ charges' = charges
    BY <1>2 DEF Insert
  <2>3. CASE s # t
    <3>1. \A d \in Creators : Holds(d, t)' => Holds(d, t)
      BY <2>1, <2>3 DEF Holds
    <3>2. \A p \in Procs : Live(p, t)' => Live(p, t)
      BY <2>2 DEF Live
    <3>3. status'[t] = status[t]
      BY <1>2, <2>3 DEF Insert, RowsOK
    <3> QED
      BY <1>u, <2>2, <3>1, <3>2, <3>3, OwnersKept, LifeKeeps
  <2>4. CASE s = t
    <3>1. status[t] = "none" /\ status'[t] = IF sync THEN "processing" ELSE "pending"
      BY <1>2, <2>4 DEF Insert, RowsOK
    <3>2. sync => Owned(t)'
      BY <2>1, <2>4 DEF Owned
    <3>3. <<Life(t), Life(t)'>> \in Turns
      BY <1>u, <3>1, <3>2, LifeReads DEF Reads, Turns
    <3> QED
      BY <2>2, <3>3, LifeTurns
  <2> QED
    BY <2>3, <2>4
<1>3. ASSUME NEW c \in Creators, NEW lost \in BOOLEAN, Record(c, lost)
      PROVE  Contract!Step(t)
  <2>1. \A d \in Creators : Holds(d, t)' => Holds(d, t)
    BY <1>3, <1>n DEF Record, Holds, CreatorsOK
  <2>2. status' = status /\ charges' = charges
    BY <1>3 DEF Record
  <2>3. CASE Holds(c, t)
    <3>1. status[t] = "processing" /\ Owned(t)
      BY <1>i, <2>3 DEF SoleInv, Owned, Holds
    <3> QED
      BY <1>u, <2>2, <3>1, LifeKeeps
  <2>4. CASE ~Holds(c, t)
    <3>1. creator[c].task \in Tasks
      BY <1>3 DEF Record, CreatorsOK, CreatorOK
    <3>2. \A p \in Procs : run'[p][t] = run[p][t]
      <4>1. CASE creator[c].sync
        <5>1. t # creator[c].task
          BY <2>4, <4>1 DEF Holds
        <5> QED
          BY <1>3, <3>1, <4>1, <5>1 DEF Record, RunsOK, Procs
      <4>2. CASE ~creator[c].sync
        BY <1>3, <4>2 DEF Record
      <4> QED
        BY <4>1, <4>2
    <3>3. \A p \in Procs : Live(p, t)' => Live(p, t)
      BY <3>2 DEF Live
    <3> QED
      BY <1>u, <2>1, <2>2, <3>3, OwnersKept, LifeKeeps
  <2> QED
    BY <2>3, <2>4
<1> QED
  BY <1>1, <1>2, <1>3 DEF Creation

\* A worker puts rows back that look abandoned, and takes rows that wait.
LEMMA WorkerLives ==
    ASSUME RowsOK, RunsOK, NEW p \in Workers, Requeue(p) \/ Poll(p), NEW t \in Tasks
    PROVE  Contract!Step(t)
<1>0. p \in Procs /\ creator' = creator /\ charges' = charges
  BY DEF Requeue, Poll, Claim, Procs
<1>h. \A c \in Creators : Holds(c, t)' => Holds(c, t)
  BY <1>0 DEF Holds
<1>1. CASE Requeue(p)
  <2>1. run' = run
    BY <1>1 DEF Requeue
  <2>2. \A q \in Procs : Live(q, t)' => Live(q, t)
    BY <2>1 DEF Live
  <2>3. overlapped'[t] = (overlapped[t] \/ (t \in StaleTasks /\ Owned(t)))
    BY <1>1, Zenon DEF Requeue
  <2>4. CASE t \notin StaleTasks
    <3>1. status'[t] = status[t]
      BY <1>1, <2>4 DEF Requeue
    <3>2. overlapped'[t] = overlapped[t]
      BY <2>3, <2>4 DEF RowsOK
    <3> QED
      BY <1>0, <1>h, <2>2, <3>1, <3>2, OwnersKept, LifeKeeps
  <2>5. CASE t \in StaleTasks
    <3>1. status[t] = "processing" /\ status'[t] = "pending"
      BY <1>1, <2>5 DEF Requeue, StaleTasks
    <3>2. CASE overlapped[t]
      <4>1. overlapped'[t]
        BY <2>3, <3>2
      <4> QED
        BY <3>2, <4>1, LifeReads, LifeTurns DEF Reads
    <3>3. CASE ~overlapped[t] /\ Owned(t)
      <4>1. overlapped'[t]
        BY <2>3, <2>5, <3>3
      <4>2. <<Life(t), Life(t)'>> \in Turns
        BY <3>1, <3>3, <4>1, LifeReads DEF Reads, Turns
      <4> QED
        BY <1>0, <4>2, LifeTurns
    <3>4. CASE ~overlapped[t] /\ ~Owned(t)
      <4>1. ~overlapped'[t]
        BY <2>3, <3>4
      <4>2. <<Life(t), Life(t)'>> \in Turns
        BY <3>1, <3>4, <4>1, LifeReads DEF Reads, Turns
      <4> QED
        BY <1>0, <4>2, LifeTurns
    <3> QED
      BY <3>2, <3>3, <3>4
  <2> QED
    BY <2>4, <2>5
<1>2. ASSUME NEW batch \in SUBSET Tasks, Claim(p, batch)
      PROVE  Contract!Step(t)
  <2>1. overlapped' = overlapped
    BY <1>2 DEF Claim
  <2>2. CASE overlapped[t]
    BY <2>1, <2>2, LifeReads, LifeTurns DEF Reads
  <2>3. CASE t \notin batch
    <3>1. status'[t] = status[t] /\ \A q \in Procs : run'[q][t] = run[q][t]
      BY <1>0, <1>2, <2>3 DEF Claim, RunsOK
    <3>2. \A q \in Procs : Live(q, t)' => Live(q, t)
      BY <3>1 DEF Live
    <3> QED
      BY <1>0, <1>h, <2>1, <3>1, <3>2, OwnersKept, LifeKeeps
  <2>4. CASE t \in batch /\ ~overlapped[t]
    <3>1. status[t] = "pending" /\ status'[t] = "processing"
      BY <1>2, <2>4 DEF Claim
    <3>2. Owned(t)'
      <4>1. run'[p][t] = [NoRun EXCEPT !.at = "queued"]
        BY <1>0, <1>2, <2>4 DEF Claim, RunsOK
      <4>2. [NoRun EXCEPT !.at = "queued"].at # "idle"
        BY DEF NoRun
      <4> QED
        BY <1>0, <4>1, <4>2 DEF Owned, Live
    <3>3. <<Life(t), Life(t)'>> \in Turns
      BY <2>1, <2>4, <3>1, <3>2, LifeReads DEF Reads, Turns
    <3> QED
      BY <1>0, <3>3, LifeTurns
  <2> QED
    BY <2>2, <2>3, <2>4
<1> QED
  BY <1>1, <1>2 DEF Poll

\* Time and crashes take owners away and give none.
LEMMA EnvironmentLives ==
    ASSUME RowsOK, RunsOK, Environment \/ UNCHANGED vars, NEW t \in Tasks
    PROVE  Contract!Step(t)
<1>1. status' = status /\ charges' = charges /\ overlapped' = overlapped
  BY DEF Environment, ExpireRecord, Age, ExpireCommit, LateSetNX, Crash, vars
<1>2. /\ \A p \in Procs : Live(p, t)' => Live(p, t)
      /\ \A c \in Creators : Holds(c, t)' => Holds(c, t)
  <2>1. ASSUME NEW q \in Procs, Crash(q)
        PROVE  /\ \A p \in Procs : Live(p, t)' => Live(p, t)
               /\ \A c \in Creators : Holds(c, t)' => Holds(c, t)
    <3>1. NoRun.at = "idle" /\ NoCreator.task = None /\ None # t
      BY GenerationJobsAssumption DEF NoRun, NoCreator
    <3>2. \A p \in Procs : run'[p][t] = NoRun \/ run'[p][t] = run[p][t]
      BY <2>1 DEF Crash, RunsOK
    <3>3. \A c \in Creators : creator'[c] = NoCreator \/ creator'[c] = creator[c]
      BY <2>1 DEF Crash
    <3> QED
      BY <3>1, <3>2, <3>3 DEF Live, Holds
  <2>2. CASE run' = run /\ creator' = creator
    BY <2>2 DEF Live, Holds
  <2> QED
    BY <2>1, <2>2 DEF Environment, ExpireRecord, Age, ExpireCommit, LateSetNX, vars
<1> QED
  BY <1>1, <1>2, OwnersKept, LifeKeeps

\* The queue implements JobLife: without overlap every task has one run at a
\* time, is requeued only when that run is gone, and is charged at most once,
\* between its result and its rest; rows, goroutines and handlers have no
\* other effect on it.
THEOREM ImplementsJobLife == Spec => Implements
<1>1. Init => Contract!Init
  <2> SUFFICES ASSUME Init PROVE Contract!Init
    OBVIOUS
  <2>1. \A t \in Tasks : Life(t) = "absent"
    BY LifeReads DEF Init, Reads
  <2> QED
    BY <2>1 DEF Init, Contract!Init
<1>2. TypeOK /\ TypeOK' /\ FreshInv /\ OwnerInv /\ [Next]_vars
      => [Contract!Next]_Contract!vars
  <2> SUFFICES ASSUME RowsOK, RunsOK, CreatorsOK, RowsOK', FreshInv, OwnerInv, [Next]_vars
               PROVE  Contract!Next
    BY TypeParts DEF TypeOK, RowsOK
  <2>1. ASSUME NEW t \in Tasks PROVE Contract!Step(t)
    BY ExecutionLives, CreationLives, WorkerLives, EnvironmentLives DEF Next
  <2>2. \A t \in Tasks : Life(t)' \in Contract!Phases
    <3>1. \A t \in Tasks : status'[t] \in Statuses
      BY DEF RowsOK
    <3> QED
      BY <3>1, LifeReads DEF Reads, Statuses, Contract!Phases
  <2>3. [t \in Tasks |-> Life(t)]' \in [Tasks -> Contract!Phases]
    BY <2>2
  <2>4. charges' \in [Tasks -> Nat]
    BY DEF RowsOK
  <2> QED
    BY <2>1, <2>3, <2>4 DEF Contract!Next
<1> QED
  BY <1>1, <1>2, OwnerInit, OwnerStep, FreshInit, FreshStep, TypeInvariant, PTL
  DEF Spec, Implements, Contract!Spec
===========================================================================
