------------------------------ MODULE Executor ------------------------------
(***************************************************************************)
(* The executor's run of a plan (internal/tooling/executor.go): priority   *)
(* groups one after another, each cut into steps of tasks that do not      *)
(* overlap, the tasks of a step on a pool of workers, a task's processes   *)
(* one by one (a process per file) or on a pool of the task's own (chunks  *)
(* of a long file list), and two ways for the run to be cancelled: a       *)
(* failure under fail-fast, and an interruption.                           *)
(***************************************************************************)
EXTENDS Naturals, Sequences, FiniteSets

CONSTANTS
  Tasks,
  Plan,         \* the priority groups, each the sequence of its tasks
  Processes,    \* how many processes each task spawns for what is not cached
  Chunked,      \* the tasks whose processes are chunks
  Overlaps,     \* the pairs of tasks that HasOverlap
  MaxWorkers,
  Interrupts    \* may the run be interrupted?

Tasked(g) == {Plan[g][i] : i \in DOMAIN Plan[g]}

\* The planner puts every task into one group, once.
ASSUME ExecutorAssumption ==
  /\ IsFiniteSet(Tasks)
  /\ Plan \in Seq(Seq(Tasks))
  /\ \A t \in Tasks : \E g \in DOMAIN Plan : t \in Tasked(g)
  /\ \A g \in DOMAIN Plan : \A i, j \in DOMAIN Plan[g] : Plan[g][i] = Plan[g][j] => i = j
  /\ \A g, h \in DOMAIN Plan : Tasked(g) \cap Tasked(h) # {} => g = h
  /\ Processes \in [Tasks -> Nat \ {0}]
  /\ Chunked \subseteq Tasks
  /\ \A pair \in Overlaps : <<pair[2], pair[1]>> \in Overlaps
  /\ MaxWorkers \in Nat \ {0}
  /\ Interrupts \in BOOLEAN

VARIABLES
  failFast,   \* how Execute was called
  group,      \* the priority group that runs
  rest,       \* the places in it of the tasks that are in no step yet
  step,       \* the tasks of the step that runs
  task,       \* where each task is
  procs,      \* where each of its processes is
  result,     \* what each task came to
  cause,      \* why the run's context is cancelled
  run         \* whether Execute runs, and what it returned

vars == <<failFast, group, rest, step, task, procs, result, cause, run>>

Units(t) == 1 .. Processes[t]

Init ==
  /\ failFast \in BOOLEAN
  /\ group = 0
  /\ rest = {}
  /\ step = {}
  /\ task = [t \in Tasks |-> "planned"]
  /\ procs = [t \in Tasks |-> [u \in Units(t) |-> "idle"]]
  /\ result = [t \in Tasks |-> "none"]
  /\ cause = "none"
  /\ run = "running"

Cancelled    == cause # "none"

Reason       == IF cause = "failfast" THEN "cancelled" ELSE "interrupted"
Unsuccessful == {t \in Tasks : result[t] \notin {"none", "passed"}}
OwnFailures  == {t \in Tasks : result[t] = "failed"}

(***************************************************************************)
(* Groups and steps.                                                       *)
(***************************************************************************)

\* Mutant of Fits: only the step's first task is compared.
FitsFirst(taken, i) == \A j \in taken : (\A k \in taken : j <= k) /\ j < i =>
                         <<Plan[group][j], Plan[group][i]>> \notin Overlaps

Fits(taken, i) == \A j \in taken : j < i => <<Plan[group][j], Plan[group][i]>> \notin Overlaps

\* detectParallelGroups: the next step takes, in plan order, every task that
\* overlaps none it has taken.
Taken == CHOOSE taken \in SUBSET rest : \A i \in rest : i \in taken <=> Fits(taken, i)

NextGroup ==
  /\ run = "running" /\ step = {} /\ rest = {}
  /\ group < Len(Plan) /\ ~Cancelled
  /\ group' = group + 1
  /\ rest' = DOMAIN Plan[group + 1]
  /\ UNCHANGED <<failFast, step, task, procs, result, cause, run>>

Return ==
  /\ run = "running" /\ step = {} /\ rest = {}
  /\ group = Len(Plan) \/ Cancelled
  /\ run' = "ok"
  /\ UNCHANGED <<failFast, group, rest, step, task, procs, result, cause>>

\* A step of one task runs it at once; several wait for workers.
NextStep ==
  LET joined == {Plan[group][i] : i \in Taken}
  IN  /\ run = "running" /\ step = {} /\ rest # {} /\ ~Cancelled
      /\ step' = joined
      /\ rest' = rest \ Taken
      /\ task' = [t \in Tasks |-> IF t \notin joined THEN task[t]
                                  ELSE IF joined = {t} THEN "starting" ELSE "waiting"]
      /\ UNCHANGED <<failFast, group, procs, result, cause, run>>

SkipSteps ==
  /\ run = "running" /\ step = {} /\ rest # {} /\ Cancelled
  /\ rest' = {}
  /\ UNCHANGED <<failFast, group, step, task, procs, result, cause, run>>

\* Mutant of StepOver: the step ends with its first task.
StepOverEarly == step # {} /\ \E t \in step : task[t] = "settled"

StepOver == step # {} /\ \A t \in step : task[t] = "settled"

\* The error names the failures that are not cancellations, if there are any.
EndStep ==
  /\ run = "running" /\ StepOver
  /\ step' = {}
  /\ run' = IF ~failFast \/ step \cap Unsuccessful = {} THEN "running"
            ELSE IF OwnFailures # {} THEN "failed" ELSE "failed, no failed tools found"
  /\ UNCHANGED <<failFast, group, rest, task, procs, result, cause>>

Interrupt ==
  /\ Interrupts /\ run = "running" /\ ~Cancelled
  /\ cause' = "interrupt"
  /\ UNCHANGED <<failFast, group, rest, step, task, procs, result, run>>

(***************************************************************************)
(* A task.                                                                 *)
(***************************************************************************)
OnlyTask(next, t) ==
  /\ task' = [task EXCEPT ![t] = next]
  /\ UNCHANGED <<failFast, group, rest, step, procs, result, cause, run>>

EndsAs(t, state, outcome) ==
  /\ task' = [task EXCEPT ![t] = state]
  /\ result' = [result EXCEPT ![t] = outcome]
  /\ UNCHANGED <<failFast, group, rest, step, cause, run>>

Ends(t, outcome) == EndsAs(t, "ended", outcome)

Skipped(t) == [procs EXCEPT ![t] = [u \in Units(t) |-> "notStarted"]]

Workers == {t \in step : task[t] \in {"slot", "starting", "running", "ended"}}

FreeWorker == Cardinality(Workers) < MaxWorkers

GetWorker(t) ==
  /\ task[t] = "waiting" /\ FreeWorker
  /\ OnlyTask("slot", t)

\* Cancelled while it waited, or found cancelled once it has a worker.
SkipTask(t) ==
  /\ task[t] \in {"waiting", "slot"} /\ Cancelled
  /\ EndsAs(t, "settled", Reason)
  /\ procs' = Skipped(t)

StartTask(t) ==
  /\ task[t] = "slot" /\ ~Cancelled
  /\ OnlyTask("starting", t)

\* The app's command, then the unit's verdict or the cached files.
Resolve(t) ==
  /\ task[t] = "starting"
  /\ OnlyTask("running", t)

ResolveFails(t) ==
  /\ task[t] = "starting"
  /\ \/ Ends(t, "failed")
     \/ Cancelled /\ Ends(t, Reason)
  /\ procs' = Skipped(t)

Replay(t) ==
  /\ task[t] = "starting"
  /\ Ends(t, "passed")
  /\ procs' = [procs EXCEPT ![t] = [u \in Units(t) |-> "cached"]]

\* Mutant of Outcome: a task a cancellation reached is cancelled.
OutcomeHidden(t) ==
  IF \A u \in Units(t) : procs[t][u] = "passed" THEN "passed"
  ELSE IF \E u \in Units(t) : procs[t][u] \in {"stopped", "notStarted"} THEN Reason
  ELSE "failed"

\* mergeChunkResults, and executePerFile's: a failure of its own is not hidden
\* by a cancellation that then reached the rest.
Outcome(t) ==
  IF \A u \in Units(t) : procs[t][u] = "passed" THEN "passed"
  ELSE IF \E u \in Units(t) : procs[t][u] = "failed" THEN "failed"
  ELSE Reason

Quiet(t) == \A u \in Units(t) : procs[t][u] \notin {"idle", "slot", "running"}

EndTask(t) ==
  /\ task[t] = "running" /\ Quiet(t)
  /\ Ends(t, Outcome(t))
  /\ UNCHANGED procs

FailsFast(t) == failFast /\ result[t] # "passed"

\* The first cause stands.
Settle(t) ==
  /\ task[t] = "ended"
  /\ task' = [task EXCEPT ![t] = "settled"]
  /\ cause' = IF FailsFast(t) /\ ~Cancelled THEN "failfast" ELSE cause
  /\ UNCHANGED <<failFast, group, rest, step, procs, result, run>>

(***************************************************************************)
(* Its processes.                                                          *)
(***************************************************************************)
OnlyProcs(t, next) ==
  /\ procs' = [procs EXCEPT ![t] = next]
  /\ UNCHANGED <<failFast, group, rest, step, task, result, cause, run>>

Moves(t, u, state) == OnlyProcs(t, [procs[t] EXCEPT ![u] = state])

IdleSkipped(t) == [u \in Units(t) |-> IF procs[t][u] = "idle" THEN "notStarted" ELSE procs[t][u]]

Parallel(t) == t \in Chunked /\ Processes[t] > 1

\* One process per file, in order; a failing file ends the loop under fail-fast.
NextFile(t) ==
  /\ task[t] = "running" /\ ~Parallel(t) /\ ~Cancelled
  /\ \E u \in Units(t) :
       /\ procs[t][u] = "idle" /\ \A v \in 1 .. u - 1 : procs[t][v] \in {"passed", "failed"}
       /\ failFast => \A v \in 1 .. u - 1 : procs[t][v] = "passed"
       /\ Moves(t, u, "running")

SkipFiles(t) ==
  /\ task[t] = "running" /\ ~Parallel(t)
  /\ \E u \in Units(t) : procs[t][u] = "idle"
  /\ \A u \in Units(t) : procs[t][u] # "running"
  /\ Cancelled \/ (failFast /\ \E u \in Units(t) : procs[t][u] = "failed")
  /\ OnlyProcs(t, IdleSkipped(t))

\* Mutant of ChunkSlots: tasks and chunks share one pool.
SharedSlots(t) ==
  Cardinality(Workers) + Cardinality({x \in step \X UNION {Units(s) : s \in step} :
    x[2] \in Units(x[1]) /\ Parallel(x[1]) /\ procs[x[1]][x[2]] \in {"slot", "running"}}) < MaxWorkers

\* Each chunked task has a pool of MaxWorkers of its own.
ChunkSlots(t) == Cardinality({u \in Units(t) : procs[t][u] \in {"slot", "running"}}) < MaxWorkers

GetChunkWorker(t, u) ==
  /\ task[t] = "running" /\ Parallel(t)
  /\ procs[t][u] = "idle" /\ ChunkSlots(t)
  /\ Moves(t, u, "slot")

SkipChunk(t, u) ==
  /\ task[t] = "running" /\ Parallel(t) /\ Cancelled
  /\ procs[t][u] \in {"idle", "slot"}
  /\ Moves(t, u, "notStarted")

StartChunk(t, u) ==
  /\ procs[t][u] = "slot" /\ ~Cancelled
  /\ Moves(t, u, "running")

\* A process that ended before the stop reached it keeps its own result, as
\* does one that could not be started.
Exit(t, u) ==
  /\ procs[t][u] = "running"
  /\ \E state \in {"passed", "failed"} : Moves(t, u, state)

Stop(t, u) ==
  /\ procs[t][u] = "running" /\ Cancelled
  /\ Moves(t, u, "stopped")

Task(t) ==
  \/ GetWorker(t) \/ SkipTask(t) \/ StartTask(t)
  \/ Resolve(t) \/ ResolveFails(t) \/ Replay(t)
  \/ NextFile(t) \/ SkipFiles(t)
  \/ \E u \in Units(t) : \/ GetChunkWorker(t, u) \/ SkipChunk(t, u) \/ StartChunk(t, u)
                         \/ Exit(t, u) \/ Stop(t, u)
  \/ EndTask(t) \/ Settle(t)

Scheduler == NextGroup \/ Return \/ NextStep \/ SkipSteps \/ EndStep

Next == Scheduler \/ Interrupt \/ \E t \in Tasks : Task(t)

Spec     == Init /\ [][Next]_vars
\* Every goroutine gets its turn, and a tool's process ends.
FairSpec == Spec /\ WF_vars(Scheduler) /\ \A t \in Tasks : WF_vars(Task(t))

(***************************************************************************)
(* Properties.                                                             *)
(***************************************************************************)
ProcStates == {"idle", "slot", "running", "passed", "failed", "stopped", "notStarted", "cached"}

\* The state has its type.
TypeOK ==
  /\ failFast \in BOOLEAN
  /\ group \in 0 .. Len(Plan)
  /\ rest \subseteq IF group = 0 THEN {} ELSE DOMAIN Plan[group]
  /\ step \subseteq Tasks
  /\ task \in [Tasks -> {"planned", "waiting", "slot", "starting", "running", "ended", "settled"}]
  /\ \A t \in Tasks : procs[t] \in [Units(t) -> ProcStates]
  /\ result \in [Tasks -> {"none", "passed", "failed", "cancelled", "interrupted"}]
  /\ cause \in {"none", "failfast", "interrupt"}
  /\ run \in {"running", "ok", "failed", "failed, no failed tools found"}

Busy(t) == task[t] \in {"slot", "starting", "running", "ended"}
Spawned == {x \in Tasks \X UNION {Units(s) : s \in Tasks} :
              x[2] \in Units(x[1]) /\ procs[x[1]][x[2]] = "running"}

\* Two tools at work at the same time never touch the same files.
NoOverlap ==
  \A t, s \in Tasks : t # s /\ Busy(t) /\ Busy(s) => <<t, s>> \notin Overlaps

\* A group starts only when all before it have fully ended and, under
\* fail-fast, succeeded.
GroupBarrier ==
  \A g \in DOMAIN Plan : \A i \in DOMAIN Plan[g] : task[Plan[g][i]] # "planned" =>
    \A h \in 1 .. g - 1 : \A j \in DOMAIN Plan[h] :
      /\ task[Plan[h][j]] = "settled"
      /\ failFast => result[Plan[h][j]] = "passed"

\* Execute returns only when no tool it spawned is still running.
NothingLeftRunning == run # "running" => Spawned = {}

\* No more tasks run at once than there are workers.
TaskCap == Cardinality({t \in Tasks : Busy(t)}) <= MaxWorkers

\* A failure of a tool's own is reported as one, even when the run was
\* cancelled before the task had checked everything it was given.
OwnFailureShown ==
  \A t \in Tasks : task[t] \in {"ended", "settled"} /\ (\E u \in Units(t) : procs[t][u] = "failed")
                   => result[t] = "failed"

\* Fail-fast has a culprit: the run cancels itself only under fail-fast, and
\* only after a task failed on its own.
FailFastHasACulprit == cause = "failfast" => failFast /\ OwnFailures # {}

\* With fail-fast off and no interruption everything the plan holds is run to
\* its end, whatever failed.
KeepGoing ==
  ~failFast /\ run = "ok" /\ cause # "interrupt" =>
    \A t \in Tasks : task[t] = "settled" /\ \A u \in Units(t) : procs[t][u] # "stopped"

\* Execute returns.
Returns == <>(run # "running")

\* As they are checked.
\* Groups follow each other, no more tasks run than there are workers, and a run
\* that is over has left nothing behind.
Orderly == TypeOK /\ TaskCap /\ GroupBarrier /\ NothingLeftRunning

\* A failure is told as one and a cancellation as one, whichever came first, and
\* neither stops more than it should.
FailuresTold == OwnFailureShown /\ FailFastHasACulprit /\ KeepGoing
=============================================================================
