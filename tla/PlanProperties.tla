--------------------------- MODULE PlanProperties ---------------------------
(***************************************************************************)
(* What a plan of the planner promises.                                    *)
(***************************************************************************)
EXTENDS Planner

\* A planner at the same disk that remembers nothing.
Fresh == INSTANCE Planner
  WITH files <- Walk, projects <- DetectAll(Walk),
       rules <- ConfigRules \o (IF IgnoreFile \in Walk THEN ignoreFile ELSE <<>>),
       globMemo <- <<>>, memberMemo <- <<>>, guardMemo <- <<>>

\* The walk, the memos, the plan and the cut are of their types.
TypeOK ==
  /\ cwd \in Dirs /\ widen \in Widens
  /\ ready \in BOOLEAN /\ seed.walked \in BOOLEAN
  /\ files \cup seed.files \subseteq FirstTree \cup Volatile
  /\ \A p \in projects : p.type \in Types
  /\ \A d \in DOMAIN memberMemo : memberMemo[d] \subseteq files
  /\ request \in Requests \cup {Idle}
  /\ \A t \in TasksOf(plan) : t.tool \in Tools /\ t.coverage \in {"complete", "partial"}
  /\ plans \in 0 .. MaxPlans /\ edits \in 0 .. MaxEdits

\* The tasks of the plan made from the walk that the planner holds.
Planned == IF ready THEN TasksOf(plan) ELSE {}

\* No tool is given a file twice by one plan, however projects nest: fixing a
\* file from two directories at once, or twice, is what the nearest-parent
\* assignment of groupFilesByProject exists to prevent.
FileOnce ==
  \A t1, t2 \in TasksOf(plan) :
    t1.tool = t2.tool /\ t1 # t2 => t1.files \cap t2.files = {}

\* A run of the whole repository leaves out no file that a tool's globs match,
\* unless .datamitsuignore disables the tool for the file or for its project:
\* neither the shortcut for a tool disabled everywhere nor the cut into projects
\* loses one.
NothingMissed ==
  ready /\ plan.sel.mode = "all" =>
    \A t \in {u \in Tools : Applicable(u) /\ ~ToolOf[u].skip /\ ToolOf[u].available
                             /\ (plan.for.tools = {} \/ u \in plan.for.tools)
                             /\ plan.for.op \in DOMAIN ToolOf[u].ops} :
      LET o == ToolOf[t].ops[plan.for.op]
      IN  \A f \in Enabled(t, Matching(files, o.globs)) :
            \/ Matches(f, o.exclude)
            \/ o.scope = "per-project" /\ IsProjectDisabled(t, Nearest(f, ProjectsFor(t)))
            \/ \E task \in TasksOf(plan) : task.tool = t /\ f \in task.files

\* A task recorded as covering its unit was given every file that a run of the
\* whole repository would give the tool there, whatever was selected: a verdict
\* recorded for less would skip files nobody checked (coverageFor).
CoverageHonest ==
  \A t \in Planned :
    t.coverage = "complete" /\ InferGranularity(t.op) # "file" /\ ArgsReferenceFiles(t.op) =>
      {f \in Enabled(t.tool, Matching(files, t.op.globs)) :
         ~Matches(f, t.op.exclude) /\ Nearest(f, ProjectsFor(t.tool)) = UnitOf(t.project)}
        \subseteq t.files

\* What a task can rewrite: the files in its command, or, when the command names
\* none, all of its directory that its globs match.
Touched(t) ==
  IF ArgsReferenceFiles(t.op) \/ t.op.scope = "per-file" THEN t.files
  ELSE {f \in files : Under(UnitOf(t.project), f)
                      /\ (t.op.globs = {} \/ Matches(f, t.op.globs))}

Selected == IF plan.sel.mode = "paths" THEN plan.sel.paths ELSE {f \in files : Under(cwd, f)}

\* Under the policy "target" a run never touches a file outside what was named
\* or stood in, except that a tool whose verdict is about the whole repository
\* runs from its root.
StaysOnTarget ==
  widen = "target" =>
    \A t \in Planned :
      \/ Touched(t) \subseteq Selected
      \/ InferGranularity(t.op) = "repo" /\ cwd = Root

Misplaced(t) ==
  {f \in t.files : /\ Nearest(f, ProjectsFor(t.tool)) # UnitOf(t.project)
                   /\ ~IsProjectDisabled(t.tool, Nearest(f, ProjectsFor(t.tool)))}

\* A per-project tool runs each file in the file's nearest project, when the
\* paths that were named lie below the current directory.
OwnProject ==
  (plan.sel.mode = "paths" => \A f \in plan.sel.paths : Under(cwd, f)) =>
    \A t \in Planned : t.op.scope = "per-project" => Misplaced(t) = {}

\* Tasks of one priority that HasOverlap lets run together touch no file in
\* common when they run in the same directory.
DisjointInPlace ==
  \A p \in DOMAIN plan.groups : \A t1, t2 \in plan.groups[p] :
    t1 # t2 /\ t1.project = t2.project /\ ~HasOverlap(t1, t2) => Touched(t1) \cap Touched(t2) = {}

\* The same of tasks in any two directories, as HasOverlap has it.  The code
\* says otherwise: the directory of a per-file task is its file's, that of a
\* per-project task the project's, and they differ for a file below the top.
DisjointEverywhere ==
  \A p \in DOMAIN plan.groups : \A t1, t2 \in plan.groups[p] :
    t1 # t2 /\ ~HasOverlap(t1, t2) => Touched(t1) \cap Touched(t2) = {}

\* A chunked command line gives every file once, in order, and no chunk is empty.
CutLosesNothing == FlattenSeq(argv.chunks) = argv.files /\ <<>> \notin ToSet(argv.chunks)

LineLength(chunk) ==
  LET length[n \in 0 .. Len(chunk)] == IF n = 0 THEN BaseLength ELSE length[n - 1] + FileLength(chunk[n])
  IN  length[Len(chunk)]

\* Only a chunk of one file may exceed the limit of the command line.
CutFits == \A chunk \in ToSet(argv.chunks) : Len(chunk) > 1 => LineLength(chunk) <= argv.limit

\* Every plan, of however long-lived a planner, is made with the guard files
\* that are on the disk.
GuardsCurrent ==
  [][\A t \in TasksOf(plan') :
       plan' # plan /\ InferGranularity(t.op) # "file" =>
         t.guards = Fresh!UnitGuards(UnitOf(t.project), t.op)]_vars

\* A planner whose walk is the tree as it stands plans what a new one would:
\* none of its memos outlives the walk it was taken from.
PlanIsFresh ==
  [][request # Idle /\ plan' # plan /\ files = Walk
       /\ rules = ConfigRules \o (IF IgnoreFile \in Walk THEN ignoreFile ELSE <<>>) =>
       plan' = Fresh!PlanFor(request)]_vars

\* As they are checked.
\* The cut of a command line is a partition of its files into lines that fit.
CutIsRight == CutLosesNothing /\ CutFits

\* Every file the rules leave a tool is in exactly one of its tasks, the one of
\* the file's project, and in exactly one of the command lines a task is cut into.
EachFileOnce == TypeOK /\ FileOnce /\ NothingMissed /\ OwnProject /\ CutIsRight

\* Nothing a plan is made from is older than the walk it belongs to.
NothingStale == GuardsCurrent /\ PlanIsFresh
=============================================================================
