------------------------------- MODULE Runner -------------------------------
(***************************************************************************)
(* One command's run (internal/runner/runner.go) and the record it leaves  *)
(* (internal/report): its operations one after another around the          *)
(* executor, the findings of every tool process matched against a baseline *)
(* and gated as the process is judged, the results folded into a report    *)
(* and handed out as events, and the code the command exits with.          *)
(*                                                                         *)
(* The executor appears as its contract, which module Executor is about:   *)
(* the steps of a plan one after another, the processes of a step's tasks  *)
(* in any order, results delivered when the step has ended, and the rest   *)
(* skipped once the run is cancelled.                                      *)
(***************************************************************************)
EXTENDS Naturals, Sequences, FiniteSets, SequencesExt

CONSTANTS
  Operations,   \* the command's operations, in order
  ToolOf,       \* the tool of each task
  Processes,    \* how many processes each task plans
  Parsed,       \* the tools whose output a declared parser reads
  Enforced,     \* those whose parser declares the severity contract
  Grave,        \* the findings at or above failOn
  Answers,      \* what a process of a task may come to
  Asked,        \* how the command may be called, and what the planner may answer
  Baselines     \* how many findings of each line the baseline may hold

Tasks    == DOMAIN ToolOf
Tools    == {ToolOf[t] : t \in Tasks}
Units(t) == 1 .. Processes[t]

\* A finding is <<tool, line, position>>: the line stands for a rule on a line of
\* a file, and is Nowhere for a finding with neither rule nor file.
Nowhere  == "nowhere"
LineOf(f) == <<f[1], f[2]>>

Apart(A, B) == A \cap B = {}

\* A plan has its steps for each operation, and every task once.
IsPlan(plan) ==
  \A op \in ToSet(Operations) :
    /\ plan[op] \in Seq(SUBSET Tasks)
    /\ \A i, j \in DOMAIN plan[op] : i # j => Apart(plan[op][i], plan[op][j])
    /\ \A other \in ToSet(Operations) \ {op} :
         Apart(UNION ToSet(plan[op]), UNION ToSet(plan[other]))

\* A finding of the tool, of finitely many; and no parser reads only part of an
\* output, unless its process failed and it found nothing.
IsAnswer(tool, a) ==
  /\ IsFiniteSet(a.found) /\ a.found \subseteq a.has
  /\ \A f \in a.found : f = <<tool, f[2], f[3]>> /\ f[3] \in Nat
  /\ a.read = "parsed" /\ (a.zero \/ a.found # {}) => a.found = a.has

ASSUME RunnerAssumption ==
  /\ Operations \in {<<"fix">>, <<"lint">>, <<"fix", "lint">>}
  /\ IsFiniteSet(Tasks)
  /\ Processes \in [Tasks -> Nat \ {0}]
  /\ \A x \in Asked :
       /\ IsPlan(x.plan)
       /\ \A op \in ToSet(Operations) : \A s \in x.skipped[op] : s[2] \in {"config", "platform", "narrow"}
  /\ \A t \in Tasks : \A a \in Answers[t] :
       /\ IsAnswer(ToolOf[t], a)
       /\ \A b \in Baselines, f \in a.found : b[LineOf(f)] \in Nat

VARIABLES
  asked,      \* the flags, the selection, and for each operation what is planned, as
              \* steps of tasks, and which tools are skipped
  held,       \* how many findings of a line the baseline holds
  at,         \* how many operations were taken up
  phase,      \* between two operations, executing one, or over
  step,       \* the step that runs
  unit,       \* what each process came to
  began,      \* the operations recorded as begun
  arrived,    \* the tasks whose results the report has
  stopped,    \* the tasks listed as stopped
  events,     \* the findings handed out as events
  short,      \* the tools whose answer is recorded as not complete
  missing,    \* those without a binary for this host
  failed,     \* has an operation, or the walk before them, failed?
  interrupted,
  exit        \* what the command exits with

vars == <<asked, held, at, phase, step, unit, began, arrived, stopped, events,
          short, missing, failed, interrupted, exit>>

Idle == [state |-> "idle", has |-> {}, found |-> {}, marked |-> {}, read |-> "none", zero |-> TRUE]

Untouched(t) == [u \in Units(t) |-> Idle]

Init ==
  /\ asked \in Asked
  /\ held \in Baselines
  /\ at = 0 /\ phase = "between" /\ step = 0
  /\ unit = [t \in Tasks |-> Untouched(t)]
  /\ began = {} /\ arrived = {} /\ stopped = {} /\ events = {}
  /\ short = {} /\ missing = {}
  /\ failed = FALSE /\ interrupted = FALSE
  /\ exit = "none"

Operation   == Operations[at]
Planned(op) == UNION ToSet(asked.plan[op])
OpOf(t)     == CHOOSE op \in ToSet(Operations) : t \in Planned(op)
Of(op, tool) == {t \in Planned(op) : ToolOf[t] = tool}

(***************************************************************************)
(* The gate: a process is judged against the baseline, then the threshold. *)
(***************************************************************************)

\* The findings an operation's judged processes reported, and those marked.
FoundIn(tasks)  == UNION {UNION {unit[t][u].found : u \in Units(t)} : t \in tasks}
MarkedIn(tasks) == UNION {UNION {unit[t][u].marked : u \in Units(t)} : t \in tasks}

OnLine(fs, line) == {f \in fs : LineOf(f) = line}

\* Mutant of MarkedOf: a finding another process reported counts again.
MarkedAgain(t, found) ==
  LET marked == MarkedIn(Planned(OpOf(t)))
      free(f) == held[LineOf(f)] - Cardinality(OnLine(marked, LineOf(f)))
  IN  {f \in found : Cardinality({g \in OnLine(found, LineOf(f)) : g[3] < f[3]}) < free(f)}

\* BaselineMatcher.Mark: what the operation has seen keeps its mark; of the others
\* of a line the first are marked, as long as the baseline holds more.
MarkedOf(t, found) ==
  LET seen   == FoundIn(Planned(OpOf(t)))
      marked == MarkedIn(Planned(OpOf(t)))
      fresh  == found \ seen
      free(f) == held[LineOf(f)] - Cardinality(OnLine(marked, LineOf(f)))
  IN  (found \cap marked) \cup
      {f \in fresh : Cardinality({g \in OnLine(fresh, LineOf(f)) : g[3] < f[3]}) < free(f)}

Gating(t, p) == IF ToolOf[t] \in Enforced THEN (p.found \cap Grave) \ p.marked ELSE {}

Passed(t, u)  == \/ unit[t][u].state = "cached"
                 \/ unit[t][u].state = "ran" /\ unit[t][u].zero /\ Gating(t, unit[t][u]) = {}
Failure(t, u) == \/ unit[t][u].state = "unset"
                 \/ unit[t][u].state = "ran" /\ ~Passed(t, u)

Ended(t)     == \A u \in Units(t) : unit[t][u].state # "idle"
Succeeds(t)  == \A u \in Units(t) : Passed(t, u)
\* Neither a pass nor a failure: a cancellation reached it before it failed.
Cancels(t)   == ~Succeeds(t) /\ ~\E u \in Units(t) : Failure(t, u)

(***************************************************************************)
(* An operation.                                                           *)
(***************************************************************************)
Cancelled == \/ interrupted
             \/ asked.failFast /\ \E t \in Planned(Operation) : Ended(t) /\ ~Succeeds(t)

Skips(reason) == {s[1] : s \in {x \in asked.skipped[Operation] : x[2] = reason}}
PartialTools  == {ToolOf[t] : t \in Planned(Operation) \cap asked.partial}

\* recordSkips and recordCoverage.
RecordCoverage ==
  /\ short' = short \cup Skips("platform") \cup Skips("narrow") \cup PartialTools
  /\ missing' = missing \cup Skips("platform")

TakeUp ==
  /\ phase = "between" /\ exit = "none"
  /\ at < Len(Operations) /\ ~interrupted /\ ~(failed /\ asked.failFast)
  /\ at' = at + 1

Unmoved == UNCHANGED <<asked, held, unit, arrived, stopped, events, interrupted, exit>>

\* The walk or the bundled checks fail: no operation is taken up.
NeverBegins ==
  /\ phase = "between" /\ at = 0 /\ ~failed
  /\ failed' = TRUE
  /\ at' = Len(Operations)
  /\ UNCHANGED <<phase, step, began, short, missing>> /\ Unmoved

PlanningFails ==
  /\ TakeUp
  /\ failed' = TRUE
  /\ UNCHANGED <<phase, step, began, short, missing>> /\ Unmoved

PlacementFails(op) == op = "lint" /\ asked.misplaced

\* No project types, or no task: what was skipped is still recorded.
NothingToRun ==
  LET op == Operations[at + 1]
  IN  /\ TakeUp
      /\ ~asked.typed \/ asked.plan[op] = <<>>
      /\ began' = began \cup {op}
      /\ IF asked.skipped[op] = {} THEN UNCHANGED <<short, missing>>
         ELSE /\ short' = short \cup {s[1] : s \in {x \in asked.skipped[op] : x[2] # "config"}}
                                \cup {ToolOf[t] : t \in Planned(op) \cap asked.partial}
              /\ missing' = missing \cup {s[1] : s \in {x \in asked.skipped[op] : x[2] = "platform"}}
      /\ failed' = (failed \/ PlacementFails(op))
      /\ UNCHANGED <<phase, step>> /\ Unmoved

\* A managed config is missing, the bundle does not seed, a tool does not install.
SetupFails ==
  LET op == Operations[at + 1]
  IN  /\ TakeUp
      /\ asked.typed /\ asked.plan[op] # <<>>
      /\ began' = began \cup {op}
      /\ failed' = TRUE
      /\ UNCHANGED <<phase, step, short, missing>> /\ Unmoved

Execute ==
  LET op == Operations[at + 1]
  IN  /\ TakeUp
      /\ asked.typed /\ asked.plan[op] # <<>>
      /\ began' = began \cup {op}
      /\ phase' = "executing" /\ step' = 1
      /\ UNCHANGED <<short, missing, failed>> /\ Unmoved

Running == phase = "executing" /\ step <= Len(asked.plan[Operation])

OnlyUnit(t, u, p) ==
  /\ Running /\ t \in asked.plan[Operation][step] /\ unit[t][u].state = "idle"
  /\ unit' = [unit EXCEPT ![t][u] = p]
  /\ UNCHANGED <<asked, held, at, phase, step, began, arrived, stopped, events,
                 short, missing, failed, interrupted, exit>>

Judged(t, a, state) ==
  [state |-> state, has |-> a.has, found |-> a.found, marked |-> MarkedOf(t, a.found),
   read |-> a.read, zero |-> a.zero]

\* A process exits; its output is parsed, its findings marked and gated.
Exit(t, u) == \E a \in Answers[t] : OnlyUnit(t, u, Judged(t, a, "ran"))

\* A process that is stopped has its output read as well.
Stop(t, u) == Running /\ Cancelled /\ \E a \in Answers[t] : OnlyUnit(t, u, Judged(t, a, "cancelled"))

\* Cancelled before it started, or after a file that failed under fail-fast.
Skip(t, u) ==
  /\ Running
  /\ Cancelled \/ (asked.failFast /\ \E v \in Units(t) : Failure(t, v))
  /\ OnlyUnit(t, u, [Idle EXCEPT !.state = "notStarted"])

\* A pass is replayed.  A parser found nothing for it to be recorded; without one
\* it stands for an exit code.
Replay(t, u) ==
  \E a \in Answers[t] :
    /\ a.zero /\ ToolOf[t] \in Parsed => a.has = {}
    /\ a.zero /\ OnlyUnit(t, u, [Idle EXCEPT !.state = "cached", !.has = a.has])

\* The app's command does not resolve, or the task cannot be set up otherwise.
Unset(t) ==
  /\ Running /\ t \in asked.plan[Operation][step] /\ unit[t] = Untouched(t)
  /\ unit' = [unit EXCEPT ![t] = [u \in Units(t) |-> [Idle EXCEPT !.state = "unset"]]]
  /\ UNCHANGED <<asked, held, at, phase, step, began, arrived, stopped, events,
                 short, missing, failed, interrupted, exit>>

(***************************************************************************)
(* The report's account of a tool.                                         *)
(***************************************************************************)
Failing(t, u) == unit[t][u].state = "ran" /\ ~unit[t][u].zero /\ unit[t][u].found = {}

\* Mutant of Ordinal: the findings of each task are numbered apart.
OrdinalApart(tasks, f) ==
  LET t == CHOOSE x \in tasks : f \in FoundIn({x})
  IN  Cardinality({g \in OnLine(FoundIn({t}), LineOf(f)) : g[3] < f[3]})

\* settleFindings: what several processes report is listed once, and the findings
\* of a line are numbered across them all, the synthetic ones among those that
\* stand nowhere.
Ordinal(tasks, f) ==
  Cardinality({g \in OnLine(FoundIn(tasks), LineOf(f)) : g[3] < f[3]})
  + IF f[2] # Nowhere THEN 0
    ELSE Cardinality({x \in tasks \X UNION {Units(t) : t \in tasks} :
                        x[2] \in Units(x[1]) /\ Failing(x[1], x[2])})

Listed(tasks) == {<<f, Ordinal(tasks, f)>> : f \in FoundIn(tasks)}

\* Mutant of Delivered: a tool's findings are handed out with its first result.
DeliveredEarly(op, tool, now) ==
  Of(op, tool) \cap now # {} /\ Of(op, tool) \cap arrived = {}

\* AddTask: the last planned task of a tool has arrived.
Delivered(op, tool, now) ==
  Of(op, tool) \cap now # {} /\ Of(op, tool) \subseteq arrived \cup now

EventsOf(op, tools, tasks) ==
  UNION {{<<op, x[1], x[2]>> : x \in Listed(Of(op, tool) \cap tasks)} : tool \in tools}

\* The results of a step are delivered when all of it has ended.
EndStep ==
  LET now == asked.plan[Operation][step]
  IN  /\ Running /\ \A t \in now : Ended(t)
      /\ step' = step + 1
      /\ arrived' = arrived \cup now
      /\ stopped' = stopped \cup {t \in now : Cancels(t)}
      /\ events' = events \cup EventsOf(Operation, {x \in Tools : Delivered(Operation, x, now)}, arrived \cup now)
      /\ UNCHANGED <<asked, held, at, phase, unit, began, short, missing, failed, interrupted, exit>>

Between == Running => Cancelled /\ \A t \in asked.plan[Operation][step] : unit[t] = Untouched(t)

\* unreachedTasks.
Unreached == Planned(Operation) \ arrived

EndOperation ==
  /\ phase = "executing" /\ Between
  /\ phase' = "between"
  /\ stopped' = stopped \cup Unreached
  /\ events' = events \cup
       EventsOf(Operation, {x \in Tools : Of(Operation, x) \cap Unreached # {}}, arrived)
  /\ failed' = (failed \/ Unreached # {} \/ PlacementFails(Operation)
                       \/ \E t \in Planned(Operation) \cap arrived : ~Succeeds(t))
  /\ RecordCoverage
  /\ UNCHANGED <<asked, held, at, step, unit, began, arrived, interrupted, exit>>

Interrupt ==
  /\ exit = "none" /\ ~interrupted
  /\ interrupted' = TRUE
  /\ UNCHANGED <<asked, held, at, phase, step, unit, began, arrived, stopped, events,
                 short, missing, failed, exit>>

(***************************************************************************)
(* The end of the run.                                                     *)
(***************************************************************************)
CoverageShort(tools) ==
  asked.required # "none" /\ (tools # {} \/ (asked.required = "repo" /\ ~asked.whole))

SkipFailure == asked.failOnSkip /\ missing # {}

\* What --explain records of the whole run, which it does not execute.
Narrowing ==
  UNION {{s[1] : s \in {x \in asked.skipped[op] : x[2] # "config"}} \cup
         {ToolOf[t] : t \in Planned(op) \cap asked.partial} : op \in ToSet(Operations)}

\* Mutant of Outcome: what the run did not cover is told first.
OutcomeCoverageFirst ==
  IF interrupted THEN "interrupted"
  ELSE IF CoverageShort(short) \/ SkipFailure THEN "not covered"
  ELSE IF failed THEN "failed"
  ELSE "ok"

Outcome ==
  IF interrupted THEN "interrupted"
  ELSE IF failed THEN "failed"
  ELSE IF CoverageShort(short) \/ SkipFailure THEN "not covered"
  ELSE "ok"

\* A report that could not be written fails a run nothing else failed.
Finish ==
  /\ phase = "between"
  /\ at = Len(Operations) \/ interrupted \/ (failed /\ asked.failFast)
  /\ phase' = "over"
  /\ exit' \in {Outcome} \cup (IF Outcome = "ok" THEN {"not exported"} ELSE {})
  /\ UNCHANGED <<asked, held, at, step, unit, began, arrived, stopped, events,
                 short, missing, failed, interrupted>>

Next ==
  \/ NeverBegins \/ PlanningFails \/ NothingToRun \/ SetupFails \/ Execute
  \/ \E t \in Tasks : \/ Unset(t)
                       \/ \E u \in Units(t) : Exit(t, u) \/ Stop(t, u) \/ Skip(t, u) \/ Replay(t, u)
  \/ EndStep \/ EndOperation \/ Interrupt \/ Finish

Spec == Init /\ [][Next]_vars

(***************************************************************************)
(* What the report says of its own completeness.                           *)
(***************************************************************************)

\* Mutant of UnitComplete: a failure whose output parses to nothing is complete.
UnitCompleteClean(t, u) ==
  CASE unit[t][u].state = "ran"    -> unit[t][u].read = "parsed"
    [] unit[t][u].state = "cached" -> ToolOf[t] \in Parsed
    [] OTHER                       -> FALSE

\* toolReasons, of one invocation.
UnitComplete(t, u) ==
  CASE unit[t][u].state = "ran"    -> unit[t][u].read = "parsed" /\ ~Failing(t, u)
    [] unit[t][u].state = "cached" -> ToolOf[t] \in Parsed
    [] OTHER                       -> FALSE

TaskComplete(t) ==
  asked.whole /\ t \notin asked.partial /\ t \in arrived /\ \A u \in Units(t) : UnitComplete(t, u)

\* judge and runReasons.
Complete ==
  /\ asked.whole
  /\ \A op \in ToSet(Operations) :
       /\ op \in began
       /\ \A s \in asked.skipped[op] : s[2] = "config"
       /\ \A t \in Planned(op) : TaskComplete(t)

\* The baseline a report is made into, and how many findings of a line it holds.
Report(op) == UNION {Listed(Of(op, tool) \cap arrived) : tool \in Tools}

NewBaseline == {<<LineOf(x[1]), x[2]>> : x \in UNION {Report(op) : op \in began}}

HeldOf(baseline, line) ==
  Cardinality({n \in 0 .. Cardinality(baseline) :
                 \A i \in 0 .. n : <<line, i>> \in baseline})

(***************************************************************************)
(* Properties.                                                             *)
(***************************************************************************)
States == {"idle", "ran", "cancelled", "notStarted", "cached", "unset"}

\* The state has its type.
TypeOK ==
  /\ asked \in Asked /\ held \in Baselines
  /\ at \in 0 .. Len(Operations) /\ step \in Nat
  /\ phase \in {"between", "executing", "over"}
  /\ DOMAIN unit = Tasks
  /\ \A t \in Tasks :
       /\ DOMAIN unit[t] = Units(t)
       /\ \A u \in Units(t) : /\ unit[t][u].state \in States
                             /\ unit[t][u].marked \subseteq unit[t][u].found
  /\ began \subseteq ToSet(Operations)
  /\ arrived \subseteq Tasks /\ stopped \subseteq Tasks
  /\ exit \in {"none", "ok", "failed", "not covered", "not exported", "interrupted"}

\* Whichever processes report the findings of a line, in whichever order they are
\* judged, an operation marks exactly as many of them as the baseline holds: a new
\* finding beside an old one is never silenced, an old one never gates for want of
\* a mark, and a finding two processes report is marked in both or in neither.
NewNeverSilenced ==
  \A op \in ToSet(Operations) :
    LET all    == FoundIn(Planned(op))
        marked == MarkedIn(Planned(op))
    IN  /\ \A line \in {LineOf(f) : f \in all} :
             Cardinality(OnLine(marked, line)) =
               IF Cardinality(OnLine(all, line)) < held[line]
               THEN Cardinality(OnLine(all, line)) ELSE held[line]
        /\ \A t \in Planned(op) : \A u \in Units(t) :
             unit[t][u].marked = unit[t][u].found \cap marked

\* A baseline made from the run's own report absorbs the run: of every line it
\* holds as many findings as each operation reported, so the same findings, however
\* they are split among processes next time, gate nothing.  A finding that stands
\* nowhere is excepted where another process of its tool failed without one: they
\* are numbered together, and the baseline leaves the failure's number out.
Numbered(op, f) ==
  f[2] # Nowhere \/ \A t \in Of(op, f[1]) \cap arrived : \A u \in Units(t) : ~Failing(t, u)

BaselineAbsorbs ==
  phase = "over" =>
    \A op \in began : \A f \in FoundIn(Planned(op) \cap arrived) :
      Numbered(op, f) =>
        HeldOf(NewBaseline, LineOf(f)) >=
          Cardinality(OnLine(FoundIn(Planned(op) \cap arrived), LineOf(f)))

\* A report that calls itself complete lists every finding there is to find by the
\* tasks that were planned, whatever was cancelled, skipped, replayed from a cache or
\* not understood on the way.
CompleteListsAll ==
  phase = "over" /\ Complete =>
    \A op \in ToSet(Operations) : \A t \in Planned(op) : \A u \in Units(t) :
      \A f \in unit[t][u].has : \E x \in Report(op) : x[1] = f

\* The findings handed out as events while an operation runs are those its report
\* lists, under the same fingerprints; and of the tasks that did not pass, those the
\* run stopped, and they alone, are listed as stopped and never as failures.
EventsAreTheReport ==
  phase # "executing" =>
    \A op \in began :
      /\ {<<x[2], x[3]>> : x \in {y \in events : y[1] = op}} = Report(op)
      /\ Planned(op) \cap (arrived \cup stopped) # {} =>
           Planned(op) \cap stopped = {t \in Planned(op) : Cancels(t)}

\* Exit code 0 means that every task every operation planned passed, and nothing
\* was found that gates; under --require-coverage, also that no tool's answer was
\* cut short.  Where no project is detected, neither is so (CoverageMeansRan).
ExitHonest ==
  /\ exit \in {"ok", "not exported", "not covered"} =>
       /\ began = ToSet(Operations) /\ stopped = {}
       /\ \A op \in ToSet(Operations) : ~PlacementFails(op)
       /\ asked.typed => \A op \in ToSet(Operations) : \A t \in Planned(op) : Succeeds(t)
  /\ exit \in {"ok", "not exported"} /\ asked.typed => ~CoverageShort(Narrowing)

\* As checked.
\* What the run tells of itself is true: a complete report lists everything, and
\* the events and the list of stopped tasks agree with the report.
ReportTrue == CompleteListsAll /\ EventsAreTheReport

\* Exit code 0 is earned.
Honest == TypeOK /\ ExitHonest

\* --require-coverage turns an incomplete answer into a failure: under it a run that
\* exits 0 ran every task it planned.
CoverageMeansRan ==
  exit = "ok" /\ asked.required # "none" =>
    \A op \in ToSet(Operations) : \A t \in Planned(op) : Ended(t)
=============================================================================
