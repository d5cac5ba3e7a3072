--------------------------- MODULE ExecutorProofs ---------------------------
(***************************************************************************)
(* Theorems about Executor, for every plan, pool size and chunking: who    *)
(* may work at the same time, when a group may start, and that failures    *)
(* and cancellations are told apart.                                       *)
(***************************************************************************)
EXTENDS Executor, WellFoundedInduction, FiniteSetTheorems, TLAPS

(***************************************************************************)
(* The choice of a step exists: first fit, by induction over the places.   *)
(***************************************************************************)

LEMMA LeastNumber ==
  ASSUME NEW T, T \subseteq Nat, T # {}
  PROVE  \E n \in T : \A m \in T : n <= m
<1>1. \E n \in T : \A m \in T : ~ (<<m, n>> \in OpToRel(<, Nat))
  BY WFMin, NatLessThanWellFounded
<1>2. \E n \in T : \A m \in T : ~ (m < n)
  BY <1>1 DEF OpToRel
<1>. QED BY <1>2

\* The places taken from the first n.
TakenUpTo(n, taken) ==
  /\ taken \in SUBSET rest /\ \A i \in taken : i < n
  /\ \A i \in rest : i < n => (i \in taken <=> Fits(taken, i))

LEMMA NextPlace ==
  ASSUME rest \subseteq Nat, NEW n \in Nat, NEW taken, TakenUpTo(n, taken)
  PROVE  \E more : TakenUpTo(n + 1, more)
<1>1. CASE n \in rest /\ Fits(taken, n)
  <2>. DEFINE more == taken \cup {n}
  <2>1. ASSUME NEW i \in rest, i < n
        PROVE  i \in more <=> Fits(more, i)
    <3>1. i \in Nat /\ ~(n < i) /\ i # n
      BY <2>1
    <3>2. Fits(more, i) <=> Fits(taken, i)
      BY <3>1 DEF Fits
    <3>. QED BY <2>1, <3>1, <3>2 DEF TakenUpTo
  <2>2. Fits(more, n)
    BY <1>1 DEF Fits
  <2>3. \A i \in rest : i < n + 1 => i < n \/ i = n
    OBVIOUS
  <2>4. more \in SUBSET rest /\ \A i \in more : i < n + 1
    BY <1>1 DEF TakenUpTo
  <2>. QED BY <2>1, <2>2, <2>3, <2>4 DEF TakenUpTo
<1>2. CASE ~(n \in rest /\ Fits(taken, n))
  <2>1. \A i \in rest : i < n + 1 => i < n \/ i = n
    OBVIOUS
  <2>2. n \notin taken
    BY DEF TakenUpTo
  <2>3. \A i \in taken : i < n + 1
    BY DEF TakenUpTo
  <2>. QED BY <1>2, <2>1, <2>2, <2>3 DEF TakenUpTo
<1>. QED BY <1>1, <1>2

LEMMA TakenFits ==
  ASSUME rest \subseteq Nat, NEW top \in Nat, \A i \in rest : i < top
  PROVE  Taken \subseteq rest /\ \A i \in rest : i \in Taken <=> Fits(Taken, i)
<1>. DEFINE Bad == {n \in Nat : ~\E taken : TakenUpTo(n, taken)}
<1>1. Bad = {}
  <2>1. SUFFICES ASSUME Bad # {} PROVE FALSE
    OBVIOUS
  <2>2. PICK n \in Bad : \A m \in Bad : n <= m
    BY <2>1, LeastNumber
  <2>3. TakenUpTo(0, {})
    BY DEF TakenUpTo
  <2>4. n # 0
    BY <2>2, <2>3
  <2>5. n - 1 \in Nat /\ n - 1 \notin Bad
    BY <2>2, <2>4
  <2>6. \E taken : TakenUpTo(n - 1, taken)
    BY <2>5
  <2>. QED BY <2>2, <2>5, <2>6, NextPlace
<1>2. \E taken : TakenUpTo(top, taken)
  BY <1>1
<1>3. \E taken \in SUBSET rest : \A i \in rest : i \in taken <=> Fits(taken, i)
  BY <1>2 DEF TakenUpTo
<1>. QED BY <1>3 DEF Taken

(***************************************************************************)
(* The inductive invariant.                                                *)
(***************************************************************************)

Typed == TypeOK /\ procs = [t \in Tasks |-> procs[t]]

AtWork(t) == task[t] \notin {"planned", "settled"}

\* Only tasks of the step are at work; what is in no step yet, and what belongs
\* to a later group, is still planned; and the step's tasks fit together.
Whereabouts ==
  /\ step \subseteq IF group = 0 THEN {} ELSE Tasked(group)
  /\ \A t \in Tasks : AtWork(t) => t \in step
  /\ \A t \in step : task[t] # "planned"
  /\ \A i \in rest : task[Plan[group][i]] = "planned"
  /\ \A g \in DOMAIN Plan : g > group => \A t \in Tasked(g) : task[t] = "planned"
  /\ \A t, s \in step : t # s => <<t, s>> \notin Overlaps
  /\ run # "running" => step = {}

\* Unless the run is cancelled, the group loses no task; the groups before it
\* are over and, under fail-fast, succeeded.
Behind ==
  /\ ~Cancelled /\ group # 0 =>
       \A i \in DOMAIN Plan[group] : task[Plan[group][i]] = "planned" => i \in rest
  /\ \A t \in Tasks : failFast /\ ~Cancelled /\ task[t] = "settled" => result[t] = "passed"
  /\ \A g \in DOMAIN Plan : g < group =>
       \A t \in Tasked(g) : task[t] = "settled" /\ (failFast => result[t] = "passed")
  /\ run = "ok" /\ ~Cancelled => \A t \in Tasks : task[t] = "settled"

\* How far a task's processes can be, and what its result says of them.
Fit(t) ==
  /\ task[t] \in {"planned", "waiting", "slot", "starting"} => \A u \in Units(t) : procs[t][u] = "idle"
  /\ task[t] \in {"ended", "settled"} => Quiet(t)
  /\ task[t] = "running" => \A u \in Units(t) : procs[t][u] # "cached"
  /\ ~Cancelled => \A u \in Units(t) : procs[t][u] # "stopped"
  /\ task[t] = "running" /\ ~Cancelled /\ (\E u \in Units(t) : procs[t][u] = "notStarted") =>
       \E u \in Units(t) : procs[t][u] = "failed"
  /\ task[t] \in {"ended", "settled"} <=> result[t] # "none"
  /\ ~Cancelled => result[t] \in {"none", "passed", "failed"}
  /\ task[t] \in {"ended", "settled"} /\ (\E u \in Units(t) : procs[t][u] = "failed") => result[t] = "failed"

ProcsFit == \A t \in Tasks : Fit(t)

IInv == /\ Typed /\ Whereabouts /\ Behind /\ ProcsFit /\ TaskCap
        /\ FailFastHasACulprit

(***************************************************************************)
(* What the steps of a task have in common.                                *)
(***************************************************************************)

Moved(t) ==
  /\ t \in step /\ AtWork(t)
  /\ UNCHANGED <<failFast, group, rest, step, run>>
  /\ \A s \in Tasks : s # t => task'[s] = task[s] /\ procs'[s] = procs[s] /\ result'[s] = result[s]
  /\ Typed'
  /\ task'[t] # "planned"
  /\ cause' = cause \/ (cause = "none" /\ cause' = "failfast" /\ failFast /\ result'[t] = "failed")
  /\ task'[t] = "settled" /\ failFast /\ ~Cancelled' => result'[t] = "passed"
  /\ Busy(t)' => Busy(t) \/ FreeWorker
  /\ Fit(t)'
  /\ result[t] # "none" => result'[t] = result[t]

LEMMA BusyAreWorkers ==
  ASSUME IInv
  PROVE  /\ {t \in Tasks : Busy(t)} = Workers
         /\ IsFiniteSet(Workers) /\ Cardinality(Workers) \in Nat
<1>1. {t \in Tasks : Busy(t)} = Workers
  <2>1. step \subseteq Tasks /\ \A t \in Tasks : AtWork(t) => t \in step
    BY DEF IInv, Typed, TypeOK, Whereabouts
  <2>2. \A t : Busy(t) => AtWork(t)
    BY DEF Busy, AtWork
  <2>. QED BY <2>1, <2>2 DEF Workers, Busy
<1>2. IsFiniteSet(Workers)
  BY <1>1, ExecutorAssumption, FS_Subset
<1>. QED BY <1>1, <1>2, FS_CardinalityType

LEMMA MovedKeeps ==
  ASSUME IInv, NEW t \in Tasks, Moved(t)
  PROVE  IInv'
<1>. USE DEF Moved
<1>1. Typed'
  OBVIOUS
<1>0. group \in 0 .. Len(Plan) /\ rest \subseteq (IF group = 0 THEN {} ELSE DOMAIN Plan[group])
      /\ step \subseteq Tasks /\ t \in Tasked(group) /\ group \in DOMAIN Plan
  <2>1. /\ group \in 0 .. Len(Plan) /\ rest \subseteq (IF group = 0 THEN {} ELSE DOMAIN Plan[group])
        /\ step \subseteq Tasks
    BY DEF IInv, Typed, TypeOK
  <2>2. step \subseteq IF group = 0 THEN {} ELSE Tasked(group)
    BY DEF IInv, Whereabouts
  <2>3. group # 0 /\ t \in Tasked(group)
    BY <2>2
  <2>4. DOMAIN Plan = 1 .. Len(Plan)
    BY ExecutorAssumption
  <2>. QED BY <2>1, <2>3, <2>4
<1>10. \A g \in DOMAIN Plan : Tasked(g) \subseteq Tasks
  BY ExecutorAssumption DEF Tasked
<1>11. \A g \in DOMAIN Plan : g # group => t \notin Tasked(g)
  BY <1>0, ExecutorAssumption
<1>12. \A i \in DOMAIN Plan[group] : Plan[group][i] \in Tasked(group)
  BY DEF Tasked
<1>2. Whereabouts'
  <2>1. \A s \in Tasks : AtWork(s)' => s \in step'
    BY DEF IInv, Whereabouts, AtWork
  <2>2. \A s \in step' : task'[s] # "planned"
    BY <1>0 DEF IInv, Whereabouts
  <2>3. \A i \in rest' : task'[Plan[group'][i]] = "planned"
    <3>1. SUFFICES ASSUME NEW i \in rest PROVE task'[Plan[group][i]] = "planned"
      OBVIOUS
    <3>2. Plan[group][i] \in Tasks /\ task[Plan[group][i]] = "planned"
      BY <1>0, <1>10, <1>12 DEF IInv, Whereabouts
    <3>. QED BY <3>2 DEF AtWork
  <2>4. \A g \in DOMAIN Plan : g > group' => \A s \in Tasked(g) : task'[s] = "planned"
    <3>1. SUFFICES ASSUME NEW g \in DOMAIN Plan, g > group, NEW s \in Tasked(g) PROVE task'[s] = "planned"
      OBVIOUS
    <3>2. s \in Tasks /\ task[s] = "planned"
      BY <3>1, <1>10 DEF IInv, Whereabouts
    <3>. QED BY <3>2 DEF AtWork
  <2>. QED BY <2>1, <2>2, <2>3, <2>4 DEF IInv, Whereabouts
<1>3. Behind'
  <2>0. Cancelled => Cancelled'
    BY DEF Cancelled
  <2>1. ASSUME ~Cancelled', group' # 0, NEW i \in DOMAIN Plan[group'], task'[Plan[group'][i]] = "planned"
        PROVE  i \in rest'
    <3>1. Plan[group][i] \in Tasks
      BY <2>1, <1>0, <1>10, <1>12
    <3>2. task[Plan[group][i]] = "planned"
      BY <2>1, <3>1
    <3>. QED BY <2>0, <2>1, <3>2 DEF IInv, Behind
  <2>2. ASSUME NEW s \in Tasks, failFast', ~Cancelled', task'[s] = "settled"
        PROVE  result'[s] = "passed"
    BY <2>0, <2>2 DEF IInv, Behind
  <2>3. ASSUME NEW g \in DOMAIN Plan, g < group', NEW s \in Tasked(g)
        PROVE  task'[s] = "settled" /\ (failFast' => result'[s] = "passed")
    <3>1. s \in Tasks /\ s # t
      BY <2>3, <1>0, <1>10, <1>11
    <3>. QED BY <2>3, <3>1 DEF IInv, Behind
  <2>4. run' = "ok" /\ ~Cancelled' => \A s \in Tasks : task'[s] = "settled"
    BY DEF IInv, Whereabouts
  <2>. QED BY <2>1, <2>2, <2>3, <2>4 DEF Behind
<1>4. ProcsFit'
  <2>1. SUFFICES ASSUME NEW s \in Tasks, s # t PROVE Fit(s)'
    BY DEF ProcsFit
  <2>2. Fit(s) /\ (Cancelled => Cancelled') /\ task'[s] = task[s] /\ procs'[s] = procs[s] /\ result'[s] = result[s]
    BY <2>1 DEF IInv, ProcsFit, Cancelled
  <2>. QED BY <2>2 DEF Fit, Quiet
<1>5. TaskCap'
  <2>1. {s \in Tasks : Busy(s)}' \subseteq Workers \cup (IF FreeWorker THEN {t} ELSE {})
    BY BusyAreWorkers DEF Busy
  <2>2. Cardinality(Workers) <= MaxWorkers
    BY BusyAreWorkers DEF IInv, TaskCap
  <2>. DEFINE top == Workers \cup (IF FreeWorker THEN {t} ELSE {})
  <2>3. IsFiniteSet(top) /\ Cardinality(top) <= MaxWorkers
    <3>1. CASE FreeWorker
      <4>1. IsFiniteSet(Workers \cup {t})
            /\ (Cardinality(Workers \cup {t}) = Cardinality(Workers)
                \/ Cardinality(Workers \cup {t}) = Cardinality(Workers) + 1)
        BY BusyAreWorkers, FS_AddElement
      <4>2. MaxWorkers \in Nat /\ Cardinality(Workers) < MaxWorkers
        BY <3>1, ExecutorAssumption DEF FreeWorker
      <4>. QED BY <3>1, <4>1, <4>2, BusyAreWorkers
    <3>2. CASE ~FreeWorker
      BY <3>2, <2>2, BusyAreWorkers
    <3>. QED BY <3>1, <3>2
  <2>4. Cardinality({s \in Tasks : Busy(s)}') <= Cardinality(top) /\ Cardinality(top) \in Nat
        /\ Cardinality({s \in Tasks : Busy(s)}') \in Nat
    BY <2>1, <2>3, FS_Subset, FS_CardinalityType
  <2>5. MaxWorkers \in Nat
    BY ExecutorAssumption
  <2>6. Cardinality({s \in Tasks : Busy(s)}') <= MaxWorkers
    BY <2>3, <2>4, <2>5
  <2>. QED BY <2>6 DEF TaskCap, Busy
<1>6. FailFastHasACulprit'
  <2>1. OwnFailures \subseteq OwnFailures'
    BY DEF OwnFailures
  <2>2. cause' # cause => t \in OwnFailures'
    BY DEF OwnFailures
  <2>. QED BY <2>1, <2>2 DEF IInv, FailFastHasACulprit
<1>. QED BY <1>1, <1>2, <1>3, <1>4, <1>5, <1>6 DEF IInv

(***************************************************************************)
(* Every action of a task is such a step.                                  *)
(***************************************************************************)

\* The task alone gets on.
LEMMA OnlyTaskMoves ==
  ASSUME IInv, NEW t \in Tasks, NEW next \in {"slot", "starting", "running"}, OnlyTask(next, t),
         \/ task[t] = "waiting" /\ next = "slot" /\ FreeWorker
         \/ task[t] = "slot" /\ next = "starting"
         \/ task[t] = "starting" /\ next = "running"
  PROVE  Moved(t)
<1>. USE DEF OnlyTask
<1>1. task \in [Tasks -> {"planned", "waiting", "slot", "starting", "running", "ended", "settled"}]
  BY DEF IInv, Typed, TypeOK
<1>2. task'[t] = next /\ \A s \in Tasks : s # t => task'[s] = task[s]
  BY <1>1
<1>3. t \in step /\ AtWork(t)
  BY DEF IInv, Whereabouts, AtWork
<1>4. Typed'
  BY <1>1 DEF IInv, Typed, TypeOK
<1>5. Fit(t)'
  <2>1. Fit(t)
    BY DEF IInv, ProcsFit
  <2>. QED BY <2>1, <1>2 DEF Fit, Quiet, Cancelled
<1>6. Busy(t)' => Busy(t) \/ FreeWorker
  BY DEF Busy
<1>. QED BY <1>2, <1>3, <1>4, <1>5, <1>6 DEF Moved

\* A process of a running task gets on.
LEMMA MovesMoves ==
  ASSUME IInv, NEW t \in Tasks, task[t] = "running",
         NEW row \in [Units(t) -> ProcStates], OnlyProcs(t, row),
         \A u \in Units(t) : row[u] # procs[t][u] =>
           /\ row[u] # "cached"
           /\ row[u] = "stopped" => Cancelled
           /\ row[u] = "notStarted" => Cancelled \/ \E v \in Units(t) : row[v] = "failed"
           /\ procs[t][u] # "failed"
  PROVE  Moved(t)
<1>. USE DEF OnlyProcs
<1>1. procs = [s \in Tasks |-> procs[s]]
  BY DEF IInv, Typed
<1>2. procs'[t] = row /\ \A s \in Tasks : s # t => procs'[s] = procs[s]
  BY <1>1
<1>3. t \in step /\ AtWork(t)
  BY DEF IInv, Whereabouts, AtWork
<1>4. Typed'
  <2>1. procs' = [s \in Tasks |-> procs'[s]]
    BY <1>1
  <2>2. \A s \in Tasks : procs'[s] \in [Units(s) -> ProcStates]
    BY <1>2 DEF IInv, Typed, TypeOK
  <2>. QED BY <2>1, <2>2 DEF IInv, Typed, TypeOK
<1>5. Fit(t)'
  <2>1. Fit(t)
    BY DEF IInv, ProcsFit
  <2>2. \A u \in Units(t) : procs[t][u] = "failed" => row[u] = "failed"
    OBVIOUS
  <2>3. ~Cancelled => \A u \in Units(t) : row[u] # "stopped"
    BY <2>1 DEF Fit
  <2>4. \A u \in Units(t) : row[u] # "cached"
    BY <2>1 DEF Fit
  <2>5. ~Cancelled /\ (\E u \in Units(t) : row[u] = "notStarted") =>
          \E v \in Units(t) : row[v] = "failed"
    BY <2>1, <2>2 DEF Fit
  <2>6. task'[t] = "running" /\ result'[t] = result[t] /\ (Cancelled' <=> Cancelled)
    BY DEF Cancelled
  <2>. QED BY <2>1, <2>3, <2>4, <2>5, <2>6, <1>2 DEF Fit
<1>6. Busy(t)' => Busy(t)
  BY DEF Busy
<1>. QED BY <1>2, <1>3, <1>4, <1>5, <1>6 DEF Moved

\* The task ends.
LEMMA EndsMoves ==
  ASSUME IInv, NEW t \in Tasks, AtWork(t), task[t] # "ended",
         NEW state \in {"ended", "settled"}, NEW outcome \in {"passed", "failed", "cancelled", "interrupted"},
         NEW row \in [Units(t) -> ProcStates], EndsAs(t, state, outcome), procs' = [procs EXCEPT ![t] = row],
         \A u \in Units(t) : /\ row[u] \notin {"idle", "slot", "running"}
                             /\ row[u] = "stopped" => Cancelled
                             /\ row[u] = "failed" => outcome = "failed",
         ~Cancelled => outcome \in {"passed", "failed"},
         IF state = "settled" THEN Cancelled ELSE task[t] \in {"starting", "running"}
  PROVE  Moved(t)
<1>. USE DEF EndsAs
<1>1. /\ procs = [s \in Tasks |-> procs[s]]
      /\ task \in [Tasks -> {"planned", "waiting", "slot", "starting", "running", "ended", "settled"}]
      /\ result \in [Tasks -> {"none", "passed", "failed", "cancelled", "interrupted"}]
  BY DEF IInv, Typed, TypeOK
<1>2. /\ procs'[t] = row /\ task'[t] = state /\ result'[t] = outcome
      /\ \A s \in Tasks : s # t => task'[s] = task[s] /\ procs'[s] = procs[s] /\ result'[s] = result[s]
  BY <1>1
<1>3. t \in step
  BY DEF IInv, Whereabouts
<1>4. Typed'
  <2>1. procs' = [s \in Tasks |-> procs'[s]]
    BY <1>1
  <2>2. \A s \in Tasks : procs'[s] \in [Units(s) -> ProcStates]
    BY <1>2 DEF IInv, Typed, TypeOK
  <2>3. /\ task' \in [Tasks -> {"planned", "waiting", "slot", "starting", "running", "ended", "settled"}]
        /\ result' \in [Tasks -> {"none", "passed", "failed", "cancelled", "interrupted"}]
    BY <1>1
  <2>. QED BY <2>1, <2>2, <2>3 DEF IInv, Typed, TypeOK
<1>5. Fit(t)'
  BY <1>2 DEF Fit, Quiet, Cancelled
<1>6. Busy(t)' => Busy(t)
  BY <1>2 DEF Busy
<1>7. result[t] = "none"
  BY DEF IInv, ProcsFit, Fit, AtWork
<1>. QED BY <1>2, <1>3, <1>4, <1>5, <1>6, <1>7 DEF Moved, Cancelled

LEMMA TaskMoves ==
  ASSUME IInv, NEW t \in Tasks, Task(t)
  PROVE  Moved(t)
<1>0. /\ procs = [s \in Tasks |-> procs[s]] /\ procs[t] \in [Units(t) -> ProcStates]
      /\ cause \in {"none", "failfast", "interrupt"} /\ Fit(t)
  BY DEF IInv, Typed, TypeOK, ProcsFit
<1>10. /\ Reason \in {"cancelled", "interrupted"}
       /\ [u \in Units(t) |-> "notStarted"] \in [Units(t) -> ProcStates]
       /\ [u \in Units(t) |-> "cached"] \in [Units(t) -> ProcStates]
  BY DEF Reason, ProcStates
<1>1. CASE GetWorker(t)
  BY <1>1, OnlyTaskMoves DEF GetWorker
<1>2. CASE SkipTask(t)
  <2>. USE <1>2 DEF SkipTask, Skipped
  <2>1. task[t] \in {"waiting", "slot"} /\ Cancelled /\ EndsAs(t, "settled", Reason)
    OBVIOUS
  <2>2. procs' = [procs EXCEPT ![t] = [u \in Units(t) |-> "notStarted"]]
    OBVIOUS
  <2>. QED BY <2>1, <2>2, <1>0, <1>10, EndsMoves DEF AtWork
<1>3. CASE StartTask(t)
  BY <1>3, OnlyTaskMoves DEF StartTask
<1>4. CASE Resolve(t)
  BY <1>4, OnlyTaskMoves DEF Resolve
<1>5. CASE ResolveFails(t)
  <2>1. PICK outcome \in {"failed", Reason} :
          task[t] = "starting" /\ EndsAs(t, "ended", outcome) /\ (outcome # "failed" => Cancelled)
    BY <1>5 DEF ResolveFails, Ends
  <2>2. procs' = [procs EXCEPT ![t] = [u \in Units(t) |-> "notStarted"]]
    BY <1>5 DEF ResolveFails, Skipped
  <2>. QED BY <2>1, <2>2, <1>0, <1>10, EndsMoves DEF AtWork
<1>6. CASE Replay(t)
  <2>1. task[t] = "starting" /\ EndsAs(t, "ended", "passed")
    BY <1>6 DEF Replay, Ends
  <2>2. procs' = [procs EXCEPT ![t] = [u \in Units(t) |-> "cached"]]
    BY <1>6 DEF Replay
  <2>. QED BY <2>1, <2>2, <1>0, <1>10, EndsMoves DEF AtWork
<1>7. CASE EndTask(t)
  <2>1. task[t] = "running" /\ Quiet(t) /\ EndsAs(t, "ended", Outcome(t)) /\ procs' = [procs EXCEPT ![t] = procs[t]]
    BY <1>7, <1>0 DEF EndTask, Ends
  <2>2. Outcome(t) \in {"passed", "failed", "cancelled", "interrupted"}
    BY <1>10 DEF Outcome
  <2>3. \A u \in Units(t) : procs[t][u] = "failed" => Outcome(t) = "failed"
    BY DEF Outcome
  <2>4. ~Cancelled => Outcome(t) \in {"passed", "failed"}
    <3>1. SUFFICES ASSUME ~Cancelled, \A u \in Units(t) : procs[t][u] # "failed"
                   PROVE  \A u \in Units(t) : procs[t][u] = "passed"
      BY DEF Outcome
    <3>2. SUFFICES ASSUME NEW u \in Units(t), procs[t][u] # "passed" PROVE FALSE
      OBVIOUS
    <3>3. procs[t][u] \in ProcStates
      BY <1>0
    <3>. QED BY <2>1, <3>1, <3>2, <3>3, <1>0 DEF Fit, Quiet, ProcStates
  <2>5. \A u \in Units(t) : /\ procs[t][u] \notin {"idle", "slot", "running"}
                            /\ procs[t][u] = "stopped" => Cancelled
    BY <2>1, <1>0 DEF Quiet, Fit
  <2>. QED BY <2>1, <2>2, <2>3, <2>4, <2>5, <1>0, EndsMoves DEF AtWork
<1>8. CASE Settle(t)
  <2>. USE <1>8 DEF Settle
  <2>1. task \in [Tasks -> {"planned", "waiting", "slot", "starting", "running", "ended", "settled"}]
    BY DEF IInv, Typed, TypeOK
  <2>2. task'[t] = "settled" /\ \A s \in Tasks : s # t => task'[s] = task[s]
    BY <2>1
  <2>3. t \in step /\ AtWork(t)
    BY DEF IInv, Whereabouts, AtWork
  <2>4. Typed'
    BY <2>1 DEF IInv, Typed, TypeOK
  <2>5. result[t] # "none" /\ (~Cancelled => result[t] \in {"passed", "failed"})
    BY <1>0 DEF Fit
  <2>6. Fit(t)'
    BY <2>2, <2>5, <1>0 DEF Fit, Quiet, Cancelled
  <2>7. cause' = cause \/ (cause = "none" /\ cause' = "failfast" /\ failFast /\ result[t] = "failed")
    BY <2>5 DEF FailsFast, Cancelled
  <2>8. failFast /\ ~Cancelled' => result[t] = "passed"
    BY DEF FailsFast, Cancelled
  <2>. QED BY <2>2, <2>3, <2>4, <2>6, <2>7, <2>8 DEF Moved, Busy
<1>9. CASE SkipFiles(t)
  <2>1. task[t] = "running" /\ OnlyProcs(t, IdleSkipped(t))
        /\ (Cancelled \/ \E u \in Units(t) : procs[t][u] = "failed")
    BY <1>9 DEF SkipFiles
  <2>2. IdleSkipped(t) \in [Units(t) -> ProcStates]
    BY <1>0 DEF IdleSkipped, ProcStates
  <2>3. \A u \in Units(t) : IdleSkipped(t)[u] = IF procs[t][u] = "idle" THEN "notStarted" ELSE procs[t][u]
    BY DEF IdleSkipped
  <2>. QED BY <2>1, <2>2, <2>3, MovesMoves
<1>11. ASSUME NEW u \in Units(t), NEW state \in {"slot", "running", "passed", "failed", "stopped", "notStarted"},
              Moves(t, u, state), task[t] = "running", procs[t][u] \in {"idle", "slot", "running"},
              state \in {"stopped", "notStarted"} => Cancelled
       PROVE  Moved(t)
  <2>. DEFINE row == [procs[t] EXCEPT ![u] = state]
  <2>1. row \in [Units(t) -> ProcStates] /\ OnlyProcs(t, row)
    BY <1>0, <1>11 DEF Moves, ProcStates
  <2>2. \A v \in Units(t) : row[v] = IF v = u THEN state ELSE procs[t][v]
    BY <1>0
  <2>. HIDE DEF row
  <2>. QED BY <2>1, <2>2, <1>11, MovesMoves
<1>12. CASE NextFile(t)
  BY <1>12, <1>11 DEF NextFile
<1>13. ASSUME NEW u \in Units(t),
              \/ GetChunkWorker(t, u) \/ SkipChunk(t, u) \/ StartChunk(t, u) \/ Exit(t, u) \/ Stop(t, u)
       PROVE  Moved(t)
  <2>1. procs[t][u] \in {"slot", "running"} => task[t] = "running"
    <3>1. task[t] \in {"planned", "waiting", "slot", "starting", "running", "ended", "settled"}
      BY DEF IInv, Typed, TypeOK
    <3>. QED BY <3>1, <1>0 DEF Fit, Quiet
  <2>. QED BY <2>1, <1>11, <1>13 DEF GetChunkWorker, SkipChunk, StartChunk, Exit, Stop
<1>. QED BY <1>1, <1>2, <1>3, <1>4, <1>5, <1>6, <1>7, <1>8, <1>9, <1>12, <1>13 DEF Task

(***************************************************************************)
(* The scheduler's actions.                                                *)
(***************************************************************************)

LEMMA InitKeeps == Init => IInv
<1>. SUFFICES ASSUME Init PROVE IInv
  OBVIOUS
<1>. USE DEF Init
<1>1. Typed
  BY ExecutorAssumption DEF Typed, TypeOK, ProcStates
<1>2. Whereabouts
  BY ExecutorAssumption DEF Whereabouts, AtWork, Tasked
<1>3. Behind
  BY ExecutorAssumption DEF Behind
<1>4. ProcsFit
  BY DEF ProcsFit, Fit
<1>5. TaskCap
  <2>1. {t \in Tasks : Busy(t)} = {}
    BY DEF Busy
  <2>2. MaxWorkers \in Nat
    BY ExecutorAssumption
  <2>. QED BY <2>1, <2>2, FS_EmptySet DEF TaskCap
<1>. QED BY <1>1, <1>2, <1>3, <1>4, <1>5 DEF IInv, FailFastHasACulprit

\* What the groups are, for the steps that go from one to the next.
LEMMA Groups ==
  ASSUME IInv
  PROVE  /\ group \in Nat /\ Len(Plan) \in Nat /\ group <= Len(Plan) /\ DOMAIN Plan = 1 .. Len(Plan)
         /\ \A g \in DOMAIN Plan : Tasked(g) \subseteq Tasks /\ DOMAIN Plan[g] = 1 .. Len(Plan[g])
                                   /\ Len(Plan[g]) \in Nat
         /\ step = {} => \A t \in Tasks : task[t] \in {"planned", "settled"}
<1>1. Plan \in Seq(Seq(Tasks))
  BY ExecutorAssumption
<1>2. \A g \in DOMAIN Plan : Plan[g] \in Seq(Tasks)
  BY <1>1
<1>3. \A g \in DOMAIN Plan : Tasked(g) \subseteq Tasks /\ DOMAIN Plan[g] = 1 .. Len(Plan[g]) /\ Len(Plan[g]) \in Nat
  BY <1>2 DEF Tasked
<1>4. group \in 0 .. Len(Plan)
  BY DEF IInv, Typed, TypeOK
<1>. QED BY <1>1, <1>3, <1>4 DEF IInv, Whereabouts, AtWork

\* The group that has nothing left is over.
LEMMA GroupOver ==
  ASSUME IInv, step = {}, rest = {}, ~Cancelled, NEW g \in DOMAIN Plan, g <= group, NEW t \in Tasked(g)
  PROVE  task[t] = "settled" /\ (failFast => result[t] = "passed")
<1>1. t \in Tasks /\ task[t] \in {"planned", "settled"}
  BY Groups
<1>2. CASE g < group
  BY <1>2 DEF IInv, Behind
<1>3. CASE g = group
  <2>1. PICK i \in DOMAIN Plan[group] : Plan[group][i] = t
    BY <1>3 DEF Tasked
  <2>2. group # 0
    BY Groups, <1>3
  <2>3. task[t] # "planned"
    BY <2>1, <2>2 DEF IInv, Behind
  <2>. QED BY <1>1, <2>3 DEF IInv, Behind
<1>. QED BY <1>2, <1>3, Groups

LEMMA NextGroupKeeps == ASSUME IInv, NextGroup PROVE IInv'
<1>. USE DEF NextGroup
<1>1. group + 1 \in DOMAIN Plan /\ group + 1 # 0
  BY Groups
<1>2. Typed'
  <2>1. group' \in 0 .. Len(Plan)
    BY Groups
  <2>2. rest' \subseteq (IF group' = 0 THEN {} ELSE DOMAIN Plan[group'])
    BY <1>1
  <2>. QED BY <2>1, <2>2 DEF IInv, Typed, TypeOK, Units
<1>3. Whereabouts'
  <2>1. \A i \in rest' : task[Plan[group'][i]] = "planned"
    BY <1>1, Groups DEF IInv, Whereabouts, Tasked
  <2>2. \A g \in DOMAIN Plan : g > group' => \A t \in Tasked(g) : task[t] = "planned"
    BY Groups DEF IInv, Whereabouts
  <2>. QED BY <2>1, <2>2 DEF IInv, Whereabouts, AtWork
<1>4. Behind'
  <2>1. \A g \in DOMAIN Plan : g < group' =>
          \A t \in Tasked(g) : task[t] = "settled" /\ (failFast => result[t] = "passed")
    <3>1. \A g \in DOMAIN Plan : g < group' => g <= group
      BY Groups
    <3>. QED BY <3>1, GroupOver
  <2>. QED BY <2>1 DEF IInv, Behind, Cancelled
<1>. QED BY <1>2, <1>3, <1>4 DEF IInv, ProcsFit, Fit, Quiet, TaskCap, Busy, FailFastHasACulprit,
             OwnFailures, Cancelled

LEMMA ReturnKeeps == ASSUME IInv, Return PROVE IInv'
<1>. USE DEF Return
<1>1. Typed'
  BY DEF IInv, Typed, TypeOK
<1>2. Whereabouts'
  BY DEF IInv, Whereabouts, AtWork
<1>3. Behind'
  <2>1. ASSUME ~Cancelled, NEW t \in Tasks PROVE task[t] = "settled"
    <3>1. PICK g \in DOMAIN Plan : t \in Tasked(g)
      BY ExecutorAssumption
    <3>2. g <= group
      BY <2>1, Groups
    <3>. QED BY <2>1, <3>1, <3>2, GroupOver
  <2>. QED BY <2>1 DEF IInv, Behind, Cancelled
<1>. QED BY <1>1, <1>2, <1>3 DEF IInv, ProcsFit, Fit, Quiet, TaskCap, Busy, FailFastHasACulprit,
             OwnFailures, Cancelled

LEMMA NextStepKeeps == ASSUME IInv, NextStep PROVE IInv'
<1>. DEFINE joined == {Plan[group][i] : i \in Taken}
<1>1. /\ run = "running" /\ step = {} /\ rest # {} /\ ~Cancelled
      /\ step' = joined /\ rest' = rest \ Taken
      /\ task' = [t \in Tasks |-> IF t \notin joined THEN task[t]
                                  ELSE IF joined = {t} THEN "starting" ELSE "waiting"]
      /\ UNCHANGED <<failFast, group, procs, result, cause, run>>
  BY DEF NextStep
<1>2. group # 0 /\ group \in DOMAIN Plan /\ rest \subseteq DOMAIN Plan[group]
  <2>1. rest \subseteq (IF group = 0 THEN {} ELSE DOMAIN Plan[group])
    BY DEF IInv, Typed, TypeOK
  <2>. QED BY <1>1, <2>1, Groups
<1>3. Taken \subseteq rest /\ \A i \in rest : i \in Taken <=> Fits(Taken, i)
  <2>1. rest \subseteq Nat /\ Len(Plan[group]) + 1 \in Nat /\ \A i \in rest : i < Len(Plan[group]) + 1
    BY <1>2, Groups
  <2>. QED BY <2>1, TakenFits
<1>4. joined \subseteq Tasked(group) /\ joined \subseteq Tasks
  BY <1>2, <1>3, Groups DEF Tasked
<1>5. \A i \in rest : Plan[group][i] \in joined <=> i \in Taken
  BY <1>2, <1>3, ExecutorAssumption
<1>6. \A t \in joined : task[t] = "planned"
  BY <1>3 DEF IInv, Whereabouts
<1>7. \A t, s \in joined : t # s => <<t, s>> \notin Overlaps
  <2>1. SUFFICES ASSUME NEW i \in Taken, NEW j \in Taken, i # j
                 PROVE  <<Plan[group][i], Plan[group][j]>> \notin Overlaps
    OBVIOUS
  <2>2. i \in Nat /\ j \in Nat /\ Fits(Taken, i) /\ Fits(Taken, j)
    BY <1>2, <1>3, Groups
  <2>3. CASE i < j
    BY <2>2, <2>3 DEF Fits
  <2>4. CASE j < i
    <3>1. <<Plan[group][j], Plan[group][i]>> \notin Overlaps
      BY <2>2, <2>4 DEF Fits
    <3>2. \A pair \in Overlaps : <<pair[2], pair[1]>> \in Overlaps
      BY ExecutorAssumption
    <3>. QED BY <3>1, <3>2
  <2>. QED BY <2>1, <2>2, <2>3, <2>4
<1>8. \A t \in Tasks : IF t \in joined THEN task'[t] \in {"starting", "waiting"} /\ task[t] = "planned"
                                       ELSE task'[t] = task[t]
  BY <1>1, <1>6
<1>9. \A t \in Tasks : task[t] \in {"planned", "settled"}
  BY <1>1, Groups
<1>. HIDE DEF joined
<1>10. Typed'
  <2>1. task' \in [Tasks -> {"planned", "waiting", "slot", "starting", "running", "ended", "settled"}]
    <3>1. task' = [t \in Tasks |-> task'[t]]
      BY <1>1
    <3>. QED BY <3>1, <1>8, <1>9
  <2>2. rest' \subseteq (IF group' = 0 THEN {} ELSE DOMAIN Plan[group'])
    BY <1>1, <1>2
  <2>. QED BY <2>1, <2>2, <1>1, <1>4 DEF IInv, Typed, TypeOK
<1>11. Whereabouts'
  <2>1. \A t \in Tasks : AtWork(t)' => t \in step'
    BY <1>1, <1>8, <1>9 DEF AtWork
  <2>2. \A t \in step' : task'[t] # "planned"
    BY <1>1, <1>4, <1>8
  <2>3. \A i \in rest' : task'[Plan[group'][i]] = "planned"
    <3>1. SUFFICES ASSUME NEW i \in rest, i \notin Taken PROVE task'[Plan[group][i]] = "planned"
      BY <1>1
    <3>2. task[Plan[group][i]] = "planned" /\ Plan[group][i] \in Tasks /\ Plan[group][i] \notin joined
      BY <3>1, <1>2, <1>5, Groups DEF IInv, Whereabouts, Tasked
    <3>. QED BY <3>2, <1>8
  <2>4. \A g \in DOMAIN Plan : g > group' => \A t \in Tasked(g) : task'[t] = "planned"
    <3>1. SUFFICES ASSUME NEW g \in DOMAIN Plan, g > group, NEW t \in Tasked(g) PROVE task'[t] = "planned"
      BY <1>1
    <3>2. t \in Tasks /\ task[t] = "planned" /\ g # group
      BY <3>1, Groups DEF IInv, Whereabouts
    <3>3. t \notin joined
      BY <3>1, <3>2, <1>2, <1>4, ExecutorAssumption
    <3>. QED BY <3>2, <3>3, <1>8
  <2>. QED BY <2>1, <2>2, <2>3, <2>4, <1>1, <1>2, <1>4, <1>7 DEF Whereabouts
<1>12. Behind'
  <2>1. ASSUME NEW i \in DOMAIN Plan[group], task'[Plan[group][i]] = "planned" PROVE i \in rest'
    <3>1. Plan[group][i] \in Tasks
      BY <1>2, Groups DEF Tasked
    <3>2. Plan[group][i] \notin joined /\ task[Plan[group][i]] = "planned"
      BY <3>1, <2>1, <1>8
    <3>3. i \in rest
      BY <3>2, <1>1, <1>2 DEF IInv, Behind
    <3>. QED BY <3>2, <3>3, <1>1, <1>5
  <2>2. \A t \in Tasks : task'[t] = "settled" <=> task[t] = "settled"
    BY <1>8
  <2>3. \A g \in DOMAIN Plan : g < group =>
          \A t \in Tasked(g) : task'[t] = "settled" /\ (failFast => result[t] = "passed")
    BY <2>2, Groups DEF IInv, Behind
  <2>. QED BY <2>1, <2>2, <2>3, <1>1 DEF IInv, Behind, Cancelled
<1>13. ProcsFit'
  <2>1. SUFFICES ASSUME NEW t \in Tasks PROVE Fit(t)'
    BY DEF ProcsFit
  <2>2. Fit(t) /\ procs'[t] = procs[t] /\ result'[t] = result[t] /\ cause' = cause
    BY <1>1 DEF IInv, ProcsFit
  <2>. QED BY <2>2, <1>8 DEF Fit, Quiet, Cancelled
<1>14. TaskCap'
  <2>1. MaxWorkers \in Nat /\ 1 <= MaxWorkers
    BY ExecutorAssumption
  <2>2. CASE \E t : joined = {t}
    <3>1. PICK t : joined = {t}
      BY <2>2
    <3>2. {s \in Tasks : Busy(s)}' = {t}
      BY <3>1, <1>1, <1>4, <1>8, <1>9 DEF Busy
    <3>. QED BY <3>2, <2>1, FS_Singleton DEF TaskCap
  <2>3. CASE ~\E t : joined = {t}
    <3>1. {s \in Tasks : Busy(s)}' = {}
      BY <2>3, <1>1, <1>9 DEF Busy
    <3>. QED BY <3>1, <2>1, FS_EmptySet DEF TaskCap
  <2>. QED BY <2>2, <2>3
<1>. QED BY <1>1, <1>10, <1>11, <1>12, <1>13, <1>14 DEF IInv, FailFastHasACulprit, OwnFailures

LEMMA SkipStepsKeeps == ASSUME IInv, SkipSteps PROVE IInv'
<1>. USE DEF SkipSteps
<1>1. Typed'
  BY DEF IInv, Typed, TypeOK
<1>2. Whereabouts'
  BY DEF IInv, Whereabouts, AtWork
<1>3. Behind'
  BY DEF IInv, Behind, Cancelled
<1>. QED BY <1>1, <1>2, <1>3 DEF IInv, ProcsFit, Fit, Quiet, TaskCap, Busy, FailFastHasACulprit,
             OwnFailures, Cancelled

LEMMA EndStepKeeps == ASSUME IInv, EndStep PROVE IInv'
<1>1. UNCHANGED <<failFast, group, rest, task, procs, result, cause>>
  BY DEF EndStep
<1>2. step' = {} /\ \A t \in step : task[t] = "settled"
  BY DEF EndStep, StepOver
<1>3. run' \in {"running", "failed", "failed, no failed tools found"}
  BY DEF EndStep
<1>4. Typed'
  BY <1>1, <1>2, <1>3 DEF IInv, Typed, TypeOK
<1>5. Whereabouts'
  BY <1>1, <1>2, <1>3 DEF IInv, Whereabouts, AtWork
<1>6. Behind'
  BY <1>1, <1>3 DEF IInv, Behind, Cancelled
<1>7. ProcsFit'
  BY <1>1 DEF IInv, ProcsFit, Fit, Quiet, Cancelled
<1>8. TaskCap' /\ FailFastHasACulprit'
  BY <1>1 DEF IInv, TaskCap, Busy, FailFastHasACulprit, OwnFailures
<1>. QED BY <1>4, <1>5, <1>6, <1>7, <1>8 DEF IInv

LEMMA InterruptKeeps == ASSUME IInv, Interrupt PROVE IInv'
<1>. USE DEF Interrupt
<1>1. Typed'
  BY DEF IInv, Typed, TypeOK
<1>2. Whereabouts'
  BY DEF IInv, Whereabouts, AtWork
<1>3. Behind'
  BY DEF IInv, Behind, Cancelled
<1>4. ProcsFit'
  BY DEF IInv, ProcsFit, Fit, Quiet, Cancelled
<1>5. TaskCap' /\ FailFastHasACulprit'
  BY DEF IInv, TaskCap, Busy, FailFastHasACulprit
<1>. QED BY <1>1, <1>2, <1>3, <1>4, <1>5 DEF IInv

(***************************************************************************)
(* The theorems.                                                           *)
(***************************************************************************)

LEMMA StepKeeps == IInv /\ [Next]_vars => IInv'
<1>. SUFFICES ASSUME IInv, [Next]_vars PROVE IInv'
  OBVIOUS
<1>1. CASE UNCHANGED vars
  <2>. USE <1>1 DEF vars
  <2>1. Typed' /\ Whereabouts' /\ Behind'
    BY DEF IInv, Typed, TypeOK, Whereabouts, AtWork, Behind, Cancelled
  <2>2. ProcsFit'
    BY DEF IInv, ProcsFit, Fit, Quiet, Cancelled
  <2>3. TaskCap' /\ FailFastHasACulprit'
    BY DEF IInv, TaskCap, Busy, FailFastHasACulprit, OwnFailures
  <2>. QED BY <2>1, <2>2, <2>3 DEF IInv
<1>2. ASSUME NEW t \in Tasks, Task(t) PROVE IInv'
  BY <1>2, TaskMoves, MovedKeeps
<1>. QED BY <1>1, <1>2, NextGroupKeeps, ReturnKeeps, NextStepKeeps, SkipStepsKeeps, EndStepKeeps,
            InterruptKeeps DEF Next, Scheduler

\* What the other theorems follow from: where every task and every process is,
\* what is behind a group, and how results relate to processes.
THEOREM Invariant == Spec => []IInv
<1>. QED BY InitKeeps, StepKeeps, PTL DEF Spec

\* Execute's order: groups follow each other once all before them have ended and,
\* under fail-fast, succeeded; no more tasks run than there are workers; and
\* Execute returns with no process of its own running.
THEOREM OrderlyHolds == Spec => []Orderly
<1>1. IInv => TypeOK /\ TaskCap
  BY DEF IInv, Typed
<1>2. IInv => GroupBarrier
  <2>1. SUFFICES ASSUME IInv, NEW g \in DOMAIN Plan, NEW i \in DOMAIN Plan[g], task[Plan[g][i]] # "planned",
                        NEW h \in 1 .. g - 1, NEW j \in DOMAIN Plan[h]
                 PROVE  task[Plan[h][j]] = "settled" /\ (failFast => result[Plan[h][j]] = "passed")
    BY DEF GroupBarrier
  <2>2. ~(g > group)
    BY <2>1 DEF IInv, Whereabouts, Tasked
  <2>3. h \in DOMAIN Plan /\ h < group
    BY <2>1, <2>2, Groups
  <2>. QED BY <2>1, <2>3 DEF IInv, Behind, Tasked
<1>3. IInv => NothingLeftRunning
  <2>1. SUFFICES ASSUME IInv, run # "running", NEW t \in Tasks, NEW u \in Units(t), procs[t][u] = "running"
                 PROVE  FALSE
    BY DEF NothingLeftRunning, Spawned
  <2>2. task[t] \in {"planned", "settled"}
    BY <2>1, Groups DEF IInv, Whereabouts
  <2>. QED BY <2>1, <2>2 DEF IInv, ProcsFit, Fit, Quiet
<1>. QED BY <1>1, <1>2, <1>3, Invariant, PTL DEF Orderly

\* detectParallelGroups: tasks that are at work at the same time never overlap.
THEOREM NoOverlapHolds == Spec => []NoOverlap
<1>1. IInv => NoOverlap
  BY DEF IInv, Whereabouts, AtWork, NoOverlap, Busy
<1>. QED BY <1>1, Invariant, PTL

\* A failure is told as one whatever was cancelled after it, fail-fast cancels
\* nothing without a failed tool, and without it and an interruption every task
\* of the plan is run to its end.
THEOREM FailuresToldHolds == Spec => []FailuresTold
<1>1. IInv => OwnFailureShown /\ FailFastHasACulprit
  BY DEF IInv, ProcsFit, Fit, OwnFailureShown
<1>2. IInv => KeepGoing
  <2>1. SUFFICES ASSUME IInv, ~failFast, run = "ok", cause # "interrupt"
                 PROVE  \A t \in Tasks : task[t] = "settled" /\ \A u \in Units(t) : procs[t][u] # "stopped"
    BY DEF KeepGoing
  <2>2. ~Cancelled
    BY <2>1 DEF IInv, Typed, TypeOK, FailFastHasACulprit, Cancelled
  <2>. QED BY <2>1, <2>2 DEF IInv, Behind, ProcsFit, Fit
<1>. QED BY <1>1, <1>2, Invariant, PTL DEF FailuresTold
=============================================================================
