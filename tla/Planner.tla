------------------------------ MODULE Planner ------------------------------
(***************************************************************************)
(* The planner (internal/tooling/planner.go, with the unit half of         *)
(* verdict.go): which tasks an operation comes to, for a selection made in *)
(* a directory of the repository, and the memos a long-lived planner       *)
(* answers from (the walk, the globs, the members of a unit, the guards).  *)
(*                                                                         *)
(* A path is the sequence of its names, so "inside" is "has as a prefix"   *)
(* and the root is the empty sequence.  A glob is a directory and an       *)
(* ending, "*" for any.                                                    *)
(***************************************************************************)
EXTENDS Naturals, Sequences, FiniteSets, SequencesExt

CONSTANTS
  Tools,        \* their names
  ToolOf,       \* types, skip, available, and ops: the operations it declares
  Types,        \* the project types
  Marker,       \* the glob that marks a directory as a project of a type
  Endings,      \* the endings each file name has
  SuffixOf,     \* <<a, b>> when ending a is a suffix of ending b
  GuardNames,   \* names that guard every directory below them
  Untracked,    \* names the walk passes over (.gitignore)
  ConfigRules,  \* the rules of the configuration, before those of the file
  FirstTree, Volatile,   \* the files there at first, and those that come and go
  RuleFiles,    \* what .datamitsuignore may hold: rules, or Malformed
  Dirs, Widens, Requests, Limits,
  BaseLength,   \* of a command without its files
  MaxPlans, MaxEdits

Root      == <<>>
NoProject == <<"">>       \* a task's ProjectPath left unset
AnyGlob   == [under |-> Root, ending |-> "*"]
Malformed == <<[malformed |-> TRUE]>>

\* The files there may be and those that may be named, and the paths they have.
Known == FirstTree \cup Volatile \cup UNION {r.paths : r \in Requests}
Path  == {p \in Seq(STRING) : \A n \in DOMAIN p : p[n] # ""}
KnownRules == UNION {ToSet(rs) : rs \in RuleFiles \cup {ConfigRules}}

\* What the validation of a configuration and the walk of a repository ensure.
ASSUME PathsAssumption ==
  /\ Known \subseteq Path \ {Root} /\ Dirs \subseteq Path \ Known
  /\ \A f \in Known : \A a, b \in Endings[Last(f)] :
       a = b \/ <<a, b>> \in SuffixOf \/ <<b, a>> \in SuffixOf
  /\ RuleFiles \cup {ConfigRules} \subseteq Seq(KnownRules)
  /\ IsFiniteSet(Known) /\ BaseLength \in Nat /\ Limits \subseteq Nat
  /\ MaxPlans \in Nat /\ MaxEdits \in Nat

VARIABLES
  cwd, widen,           \* fixed with the planner
  tree, ignoreFile,     \* the disk
  ready, files, projects, rules,   \* the walk and what was derived from it
  seed,                 \* a walk handed over by the caller, not yet consumed
  globMemo, memberMemo, guardMemo,
  request,              \* what Plan is being asked, or Idle
  plan,                 \* the last one made
  argv,                 \* the chunks a task of it was cut into
  plans, edits

disk     == <<tree, ignoreFile, edits>>
walk     == <<ready, files, projects, rules, seed>>
memos    == <<globMemo, memberMemo, guardMemo>>
vars     == <<cwd, widen, disk, walk, memos, request, plan, argv, plans>>

NoSeed == [walked |-> FALSE, files |-> {}]
Idle   == [op |-> "none"]
NoPlan == [for |-> Idle, sel |-> [mode |-> "empty"], groups |-> <<>>, skipped |-> {}]

(***************************************************************************)
(* Paths, globs, ignore rules, projects.                                   *)
(***************************************************************************)

Under(dir, path) == IsPrefix(dir, path)
StrictlyUnder(dir, path) == IsStrictPrefix(dir, path)
Ancestors(dir)   == {SubSeq(dir, 1, n) : n \in 0 .. Len(dir)}
Matches(path, globs) ==
  \E g \in globs : Under(g.under, path) /\ g.ending \in Endings[Last(path)] \cup {"*"}
Matching(paths, globs) == {f \in paths : Matches(f, globs)}

Walk == {f \in tree : Last(f) \notin Untracked}
DetectAll(walked) ==
  UNION {{[type |-> y, path |-> Front(f)] : f \in Matching(walked, {Marker[y]})} : y \in Types}

\* The last rule that matches and is about the tool, or about every tool, decides.
IsDisabled(tool, path) ==
  LET said == {n \in DOMAIN rules : rules[n].tool \in {tool, "*"} /\ Matches(path, {rules[n].glob})}
  IN  \E n \in said : ~rules[n].invert /\ \A m \in said : m <= n
IsProjectDisabled(tool, dir) == IsDisabled(tool, Append(dir, "x"))

DisabledEverywhere(tool) ==
  LET named == {r \in ToSet(rules) : r.tool \in {tool, "*"}}
  IN  /\ \A r \in named : ~r.invert
      /\ \E r \in named : r.glob = AnyGlob
Enabled(tool, paths) == {f \in paths : ~IsDisabled(tool, f)}

ArgsReferenceFiles(o) == o.arity \in {"many", "one"}
InferGranularity(o) ==
  IF o.granularity # "" THEN o.granularity
  ELSE CASE o.scope = "per-file"   -> "file"
         [] o.scope = "repository" -> IF ArgsReferenceFiles(o) THEN "file" ELSE "repo"
         [] OTHER                  -> "unit"

\* There are three scopes; a verdict about files needs a command that names them,
\* and one of a repository is never about less (config/config.go, validate.go).
ASSUME OperationsAssumption ==
  \A t \in Tools : \A k \in DOMAIN ToolOf[t].ops :
    LET o == ToolOf[t].ops[k]
    IN  /\ o.scope \in {"repository", "per-project", "per-file"}
        /\ InferGranularity(o) \in {"file", "unit", "repo"}
        /\ InferGranularity(o) = "file" => ArgsReferenceFiles(o) \/ o.scope = "per-file"
        /\ o.scope = "repository" => InferGranularity(o) # "unit"

Applicable(tool) ==
  ToolOf[tool].types = {} \/ \E p \in projects : p.type \in ToolOf[tool].types

(***************************************************************************)
(* Selections.                                                             *)
(***************************************************************************)

NewSelection(paths, fileScoped) ==
  CASE paths # {}  -> [mode |-> "paths", paths |-> paths]
    [] paths = {} /\ fileScoped -> [mode |-> "empty"]
    [] paths = {} /\ ~fileScoped /\ cwd # Root -> [mode |-> "subtree", dir |-> cwd]
    [] OTHER -> [mode |-> "all"]
All == [mode |-> "all"]

Swept(globs) == IF globs \in DOMAIN globMemo THEN globMemo[globs] ELSE Matching(files, globs)
MatchFiles(sel, o) ==
  {f \in (IF sel.mode = "paths" THEN Matching(sel.paths, o.globs) ELSE Swept(o.globs)) :
     ~Matches(f, o.exclude)}

\* A path that was named is a decision; the directory one stands in is not.
ToCwd(sel, paths) ==
  IF sel.mode = "paths" THEN paths ELSE {f \in paths : Under(cwd, f)}

\* Mutant of PermitsUnit: under "target" the unit of a named path runs too.
PermitsNamedUnit(sel, unit) ==
  \/ widen = "repo" \/ sel.mode = "all"
  \/ sel.mode = "subtree" /\ (Under(sel.dir, unit) \/ Under(unit, sel.dir))
  \/ sel.mode = "paths" /\ \E f \in sel.paths : Under(unit, f)

PermitsUnit(sel, unit) ==
  \/ widen = "repo"
  \/ sel.mode = "all"
  \/ sel.mode = "subtree" /\ \/ Under(sel.dir, unit)
                             \/ widen = "unit" /\ Under(unit, sel.dir)
  \/ sel.mode = "paths" /\ widen = "unit" /\ \E f \in sel.paths : Under(unit, f)

(***************************************************************************)
(* A unit's inputs: what its verdict is about.                             *)
(***************************************************************************)

UnitOf(project) == IF project = NoProject THEN Root ELSE project
UnitMembers(unit) ==
  IF unit \in DOMAIN memberMemo THEN memberMemo[unit] ELSE {f \in files : StrictlyUnder(unit, f)}
GuardsAbove(unit) == {f \in tree : Last(f) \in GuardNames /\ Front(f) \in Ancestors(unit)}
Guards(unit) == IF unit \in DOMAIN guardMemo THEN guardMemo[unit] ELSE GuardsAbove(unit)
UnitGuards(unit, o) ==
  Guards(unit) \cup {f \in tree : Last(f) \in o.invalidateOn /\ Front(f) \in Ancestors(unit)}

\* Mutant of CoverageFor: the denominator is the task's own file list.
CoverageOwn(tool, o, members, given) ==
  IF ~ArgsReferenceFiles(o) \/ given \subseteq given THEN "complete" ELSE "partial"

\* Whether the files given are all that a run of the whole unit would be given.
CoverageFor(tool, o, members, given) ==
  LET full == {f \in Enabled(tool, Matching(members, o.globs)) : ~Matches(f, o.exclude)}
  IN  IF ~ArgsReferenceFiles(o) \/ full \subseteq given THEN "complete" ELSE "partial"

\* attachUnit: a file-granularity operation has no unit beyond its files.
TaskOf(tool, o, project, given) ==
  LET unit == UnitOf(project)
      task(members, guards, coverage) ==
        [tool |-> tool, op |-> o, project |-> project, files |-> given,
         members |-> members, guards |-> guards, coverage |-> coverage]
  IN  IF InferGranularity(o) = "file" THEN task({}, {}, "complete")
      ELSE task(UnitMembers(unit), UnitGuards(unit, o), CoverageFor(tool, o, UnitMembers(unit), given))

(***************************************************************************)
(* Tasks per project.                                                      *)
(***************************************************************************)

\* The nearest of the directories a file is in; a file in none is the root's.
Nearest(path, dirs) ==
  LET above == {d \in dirs : StrictlyUnder(d, path)}
  IN  IF above = {} THEN Root ELSE CHOOSE d \in above : \A e \in above : Len(e) <= Len(d)

\* filterProjectLocationsToSubtree: those below, and the nearest one around.
NearCwd(dirs) ==
  LET around == {d \in dirs : Under(d, cwd)}
  IN  IF cwd = Root THEN dirs
      ELSE {d \in dirs : Under(cwd, d)} \cup
           {d \in around : \A e \in around : Len(e) <= Len(d)}

ProjectsFor(tool) ==
  {p.path : p \in {q \in projects : ToolOf[tool].types = {} \/ q.type \in ToolOf[tool].types}}

\* Mutant of PerProject: a file is every enclosing project's.
PerEveryProject(tool, given, restrict) ==
  LET near == IF restrict THEN NearCwd(ProjectsFor(tool)) ELSE ProjectsFor(tool)
  IN  {[project |-> d, files |-> {f \in given : StrictlyUnder(d, f)}] : d \in near}

\* The files shared out among the projects; with none, a task for each project.
Shares(given, near, restrict) ==
  LET reach(d) == ~restrict \/ Under(cwd, d) \/ Under(d, cwd)
  IN  IF given = {} THEN {[project |-> d, files |-> {}] : d \in near}
      ELSE {[project |-> d, files |-> {f \in given : Nearest(f, near) = d}] :
              d \in {e \in {Nearest(f, near) : f \in given} : reach(e)}}

\* With no project there is one task without a directory, unless the run was
\* started below the root.
OrFallback(tool, given, restrict, near, kept) ==
  IF near # {} /\ (given = {} \/ kept # {}) THEN kept
  ELSE IF (restrict /\ cwd # Root) \/ IsProjectDisabled(tool, Root) THEN {}
       ELSE {[project |-> NoProject, files |-> given]}

\* createPerProjectTasksInScope: the directories to run in, with their files.
PerProject(tool, given, restrict) ==
  LET among(near) == OrFallback(tool, given, restrict, near,
                       {s \in Shares(given, near, restrict) : ~IsProjectDisabled(tool, s.project)})
  IN  among(IF restrict THEN NearCwd(ProjectsFor(tool)) ELSE ProjectsFor(tool))

Nothing == [tasks |-> {}, narrowedAway |-> FALSE]

\* collectUnitTasks: an operation whose arguments name no file reads its whole
\* unit, and one of declared unit granularity is given the unit's whole list.
UnitTasks(tool, o, sel, given) ==
  LET named   == ArgsReferenceFiles(o)
      widened == named /\ o.granularity = "unit"
      full    == IF ~widened THEN {} ELSE PerProject(tool, Enabled(tool, MatchFiles(All, o)), FALSE)
      whole(shares, inputs) ==
        {[s EXCEPT !.files = IF widened THEN UNION {t.files : t \in {u \in inputs : u.project = s.project}}
                             ELSE @] : s \in {t \in shares : PermitsUnit(sel, t.project)}}
      run(shares) == IF named /\ ~widened THEN shares
                     ELSE {s \in whole(shares, full) : widened => s.files # {}}
      tasksOf(shares, kept) ==
        [tasks |-> {[TaskOf(tool, o, s.project, s.files) EXCEPT !.coverage = IF widened THEN "complete" ELSE @] :
                      s \in kept},
         narrowedAway |-> kept = {} /\ shares # {}]
      among(shares) == tasksOf(shares, run(shares))
  IN  among(PerProject(tool, given, TRUE))

(***************************************************************************)
(* Which tasks of one priority may run at the same time.                   *)
(***************************************************************************)

\* Mutant of GlobsOverlap: an ending that is a suffix of another is overlooked.
GlobsEqual(globs1, globs2) ==
  globs1 = {} \/ globs2 = {} \/
    LET one == {g.ending : g \in globs1}
        two == {g.ending : g \in globs2}
    IN  "*" \in one \cup two \/ one \cap two # {}

GlobsOverlap(globs1, globs2) ==
  \/ globs1 = {} \/ globs2 = {}
  \/ \E g \in globs1, h \in globs2 :
       \/ "*" \in {g.ending, h.ending} \/ g.ending = h.ending
       \/ <<g.ending, h.ending>> \in SuffixOf \/ <<h.ending, g.ending>> \in SuffixOf

HasOverlap(t1, t2) ==
  \/ "repository" \in {t1.op.scope, t2.op.scope}
  \/ /\ NoProject \in {t1.project, t2.project} \/ t1.project = t2.project
     /\ t1.op.scope = "per-file" /\ t2.op.scope = "per-file" => t1.files = t2.files
     /\ GlobsOverlap(t1.op.globs, t2.op.globs)

(***************************************************************************)
(* collectTasks: what one tool contributes.                                *)
(***************************************************************************)

RepositoryTask(tool, o, sel) ==
  LET repoWide == InferGranularity(o) = "repo"
      matched  == MatchFiles(IF repoWide /\ widen = "repo" THEN All ELSE sel, o)
      given    == Enabled(tool, IF InferGranularity(o) = "file" THEN ToCwd(sel, matched) ELSE matched)
  IN  IF repoWide /\ cwd # Root /\ widen # "repo" THEN [tasks |-> {}, narrowedAway |-> TRUE]
      ELSE IF (o.globs = {} /\ IsProjectDisabled(tool, Root)) \/ (o.globs # {} /\ given = {})
      THEN Nothing
      ELSE [tasks |-> {TaskOf(tool, o, Root, given)}, narrowedAway |-> FALSE]

ProjectTasks(tool, o, sel) ==
  LET given == Enabled(tool, ToCwd(sel, MatchFiles(sel, o)))
  IN  IF given = {} /\ o.globs # {} THEN Nothing ELSE UnitTasks(tool, o, sel, given)

FileTasks(tool, o, sel) ==
  [tasks |-> {TaskOf(tool, o, Front(f), {f}) : f \in Enabled(tool, ToCwd(sel, MatchFiles(sel, o)))},
   narrowedAway |-> FALSE]

Collect(tool, o, sel) ==
  CASE o.scope = "repository" -> RepositoryTask(tool, o, sel)
    [] o.scope = "per-file"   -> FileTasks(tool, o, sel)
    [] OTHER                  -> ProjectTasks(tool, o, sel)

Considered(op) ==
  {t \in Tools : Applicable(t) /\ op \in DOMAIN ToolOf[t].ops /\ ~DisabledEverywhere(t)}
Runnable(op) == {t \in Considered(op) : ~ToolOf[t].skip /\ ToolOf[t].available}

\* The plan that the contributions come to, and the tools left out of it.
Assembled(r, sel, got) ==
  LET wanted(t) == r.tools = {} \/ t \in r.tools
      grouped(tasks) == [p \in {t.op.priority : t \in tasks} |-> {t \in tasks : t.op.priority = p}]
      reason(t) == IF ToolOf[t].skip THEN "config"
                   ELSE IF ~ToolOf[t].available THEN "platform"
                   ELSE "not-narrowable"
  IN  [for |-> r, sel |-> sel,
       groups |-> grouped(UNION {got[t].tasks : t \in {u \in DOMAIN got : wanted(u)}}),
       skipped |-> {[tool |-> t, reason |-> reason(t)] :
                      t \in {u \in Considered(r.op) : wanted(u) /\ (u \in DOMAIN got => got[u].narrowedAway)}}]

PlanFor(r) ==
  LET planned(sel) == IF sel.mode = "empty" THEN [NoPlan EXCEPT !.for = r, !.sel = sel]
        ELSE Assembled(r, sel, [t \in Runnable(r.op) |-> Collect(t, ToolOf[t].ops[r.op], sel)])
  IN  planned(NewSelection(r.paths, r.fileScoped))

(***************************************************************************)
(* The planner's operations.                                               *)
(***************************************************************************)

IgnoreFile == <<".datamitsuignore">>
NoCut == [files |-> <<>>, limit |-> 0, chunks |-> <<>>]

Init ==
  /\ cwd \in Dirs /\ widen \in Widens
  /\ tree = FirstTree /\ ignoreFile \in RuleFiles \ {Malformed}
  /\ ready = FALSE /\ files = {} /\ projects = {} /\ rules = <<>>
  /\ seed = NoSeed
  /\ globMemo = <<>> /\ memberMemo = <<>> /\ guardMemo = <<>>
  /\ request = Idle /\ plan = NoPlan /\ argv = NoCut
  /\ plans = 0 /\ edits = 0

SeedFiles ==
  /\ request = Idle /\ ~ready
  /\ seed' = [walked |-> TRUE, files |-> Walk]
  /\ UNCHANGED <<cwd, widen, disk, ready, files, projects, rules, memos, request, plan, argv, plans>>

\* Mutant of Invalidate: the memos of the last walk are kept.
InvalidateWalk ==
  /\ request = Idle
  /\ ready' = FALSE /\ files' = {} /\ projects' = {} /\ rules' = <<>> /\ seed' = NoSeed
  /\ UNCHANGED <<cwd, widen, disk, memos, request, plan, argv, plans>>

Invalidate ==
  /\ request = Idle
  /\ ready' = FALSE /\ files' = {} /\ projects' = {} /\ rules' = <<>> /\ seed' = NoSeed
  /\ globMemo' = <<>> /\ memberMemo' = <<>> /\ guardMemo' = <<>>
  /\ UNCHANGED <<cwd, widen, disk, request, plan, argv, plans>>

\* initializeCache: a walk, or the seed in its place, and what follows from it.
\* It fails when .datamitsuignore cannot be read or parsed, and stays undone.
InitializeCache ==
  LET walked == IF seed.walked THEN seed.files ELSE Walk
      reads  == IgnoreFile \in walked
  IN  /\ ready' = (reads => IgnoreFile \in tree /\ ignoreFile # Malformed)
      /\ files' = walked /\ projects' = DetectAll(walked)
      /\ rules' = IF ~ready' THEN <<>> ELSE ConfigRules \o (IF reads THEN ignoreFile ELSE <<>>)
      /\ seed' = NoSeed

\* Plan, up to the collection of tasks: the guards are read from the disk, so
\* those of an earlier plan are dropped.
BeginPlan(r) ==
  /\ request = Idle /\ plans < MaxPlans
  /\ plans' = plans + 1 /\ plan' = NoPlan /\ argv' = NoCut
  /\ IF ready THEN UNCHANGED walk ELSE InitializeCache
  /\ request' = IF ready' THEN r ELSE Idle
  /\ guardMemo' = IF ready' THEN <<>> ELSE guardMemo
  /\ UNCHANGED <<cwd, widen, disk, globMemo, memberMemo>>

\* The globs that a request sweeps the walk for.
SweptBy(r) ==
  {ToolOf[t].ops[r.op].globs : t \in {u \in Runnable(r.op) :
     LET o == ToolOf[u].ops[r.op]
     IN  /\ o.globs # {}
         /\ r.paths = {} \/ o.granularity = "unit" \/ (InferGranularity(o) = "repo" /\ widen = "repo")}}

TasksOf(planned) == UNION {planned.groups[p] : p \in DOMAIN planned.groups}

\* The globs, members and guards that collecting the tasks looked up are kept.
Remember(made, units) ==
  IF made.sel.mode = "empty" THEN UNCHANGED memos
  ELSE /\ globMemo' = [g \in DOMAIN globMemo \cup SweptBy(request) |-> Swept(g)]
       /\ memberMemo' = [u \in DOMAIN memberMemo \cup (units \ {Root}) |-> UnitMembers(u)]
       /\ guardMemo' = [u \in DOMAIN guardMemo \cup units |-> Guards(u)]

\* The rest of Plan: a tool name that is not configured is an error.
FinishPlan ==
  /\ request # Idle
  /\ \E made \in {PlanFor(request)} :
       /\ plan' = IF request.tools \subseteq Tools THEN made ELSE NoPlan
       /\ Remember(made, {UnitOf(t.project) : t \in {u \in TasksOf(made) : InferGranularity(u.op) # "file"}})
  /\ request' = Idle
  /\ UNCHANGED <<cwd, widen, disk, walk, argv, plans>>

(***************************************************************************)
(* The command line of a task that takes its files as a list               *)
(* (chunkFilesByCommandLength).                                            *)
(***************************************************************************)

FileLength(f) == Len(f) + 1

Uncut == [chunks |-> <<>>, chunk |-> <<>>, length |-> BaseLength]

AddFile(limit, cut, f) ==
  IF cut.length + FileLength(f) > limit /\ cut.chunk # <<>>
  THEN [chunks |-> Append(cut.chunks, cut.chunk), chunk |-> <<f>>, length |-> BaseLength + FileLength(f)]
  ELSE [chunks |-> cut.chunks, chunk |-> Append(cut.chunk, f), length |-> cut.length + FileLength(f)]

\* Mutant of Chunks: the last chunk is lost when it holds one file.
ChunksLosingLast(given, limit) ==
  LET cut[n \in 0 .. Len(given)] == IF n = 0 THEN Uncut ELSE AddFile(limit, cut[n - 1], given[n])
      whole == cut[Len(given)]
  IN  IF Len(whole.chunk) <= 1 THEN whole.chunks ELSE Append(whole.chunks, whole.chunk)

Chunks(given, limit) ==
  LET cut[n \in 0 .. Len(given)] == IF n = 0 THEN Uncut ELSE AddFile(limit, cut[n - 1], given[n])
      whole == cut[Len(given)]
  IN  IF whole.chunk = <<>> THEN whole.chunks ELSE Append(whole.chunks, whole.chunk)

Chunk(t, limit) ==
  /\ request = Idle /\ argv = NoCut
  /\ t.op.arity = "many" /\ t.files # {}
  /\ argv' = [files |-> SetToSeq(t.files), limit |-> limit,
              chunks |-> Chunks(SetToSeq(t.files), limit)]
  /\ UNCHANGED <<cwd, widen, disk, walk, memos, request, plan, plans>>

(***************************************************************************)
(* The disk, under the planner.                                            *)
(***************************************************************************)

EditTree(f) ==
  /\ edits < MaxEdits /\ edits' = edits + 1
  /\ tree' = IF f \in tree THEN tree \ {f} ELSE tree \cup {f}
  /\ UNCHANGED <<cwd, widen, ignoreFile, walk, memos, request, plan, argv, plans>>

EditRules(content) ==
  /\ edits < MaxEdits /\ edits' = edits + 1
  /\ content # ignoreFile /\ ignoreFile' = content
  /\ UNCHANGED <<cwd, widen, tree, walk, memos, request, plan, argv, plans>>

Next ==
  \/ SeedFiles
  \/ Invalidate
  \/ \E r \in Requests : BeginPlan(r)
  \/ FinishPlan
  \/ \E t \in TasksOf(plan), limit \in Limits : Chunk(t, limit)
  \/ \E f \in Volatile : EditTree(f)
  \/ \E content \in RuleFiles : EditRules(content)

Spec == Init /\ [][Next]_vars
=============================================================================
