----------------------------- MODULE PlanProofs -----------------------------
(***************************************************************************)
(* Theorems about what a planner of Planner promises.  The memos are true  *)
(* of the walk (MemosSound), so a plan, when it is made, is a function of  *)
(* the disk; what is claimed of the tasks of a plan is shown of the plan   *)
(* as it is made (the lemmas named WhenMade) and kept, since no operation  *)
(* changes a plan, nor the walk beneath it but to drop it (PlanSteps).     *)
(***************************************************************************)
EXTENDS PlanProperties, SequenceTheorems, FiniteSetTheorems, WellFoundedInduction, TLAPS

\* The rules of the configuration, then those of the ignore file if there is one.
RulesNow == ConfigRules \o (IF IgnoreFile \in Walk THEN ignoreFile ELSE <<>>)

\* A memo of the walk says what looking again would.
MemosTrue ==
  /\ \A g \in DOMAIN globMemo : globMemo[g] = Matching(files, g)
  /\ \A u \in DOMAIN memberMemo : memberMemo[u] = {f \in files : StrictlyUnder(u, f)}

\* The walk, and all that was read with it, is of the disk as it stands.
UpToDate ==
  /\ files = Walk /\ projects = DetectAll(Walk) /\ rules = RulesNow
  /\ MemosTrue /\ guardMemo = <<>>

\* Two planners at the same disk see the same directories.
LEMMA PathsSame ==
  /\ \A d, f : Under(d, f) <=> Fresh!Under(d, f)
  /\ \A d, f : StrictlyUnder(d, f) <=> Fresh!StrictlyUnder(d, f)
  /\ \A d : Ancestors(d) = Fresh!Ancestors(d)
  /\ \A f, gs : Matches(f, gs) <=> Fresh!Matches(f, gs)
  /\ \A fs, gs : Matching(fs, gs) = Fresh!Matching(fs, gs)
  BY Zenon DEF Under, Fresh!Under, StrictlyUnder, Fresh!StrictlyUnder, Ancestors, Fresh!Ancestors,
    Matches, Fresh!Matches, Matching, Fresh!Matching, IsPrefix, Fresh!IsPrefix,
    IsStrictPrefix, Fresh!IsStrictPrefix, Last, Fresh!Last

\* What does not depend on the walk or the memos is the same of a new planner.
LEMMA OperationsSame ==
  /\ \A o : ArgsReferenceFiles(o) <=> Fresh!ArgsReferenceFiles(o)
  /\ \A o : InferGranularity(o) = Fresh!InferGranularity(o)
  /\ \A f, ds : Nearest(f, ds) = Fresh!Nearest(f, ds)
  /\ \A ds : NearCwd(ds) = Fresh!NearCwd(ds)
  /\ \A u : UnitOf(u) = Fresh!UnitOf(u)
  /\ \A sel, fs : ToCwd(sel, fs) = Fresh!ToCwd(sel, fs)
  /\ \A sel, u : PermitsUnit(sel, u) <=> Fresh!PermitsUnit(sel, u)
  /\ \A fs, s : NewSelection(fs, s) = Fresh!NewSelection(fs, s)
  /\ \A u : GuardsAbove(u) = Fresh!GuardsAbove(u)
  BY Zenon DEF ArgsReferenceFiles, Fresh!ArgsReferenceFiles, InferGranularity, Fresh!InferGranularity,
    Nearest, Fresh!Nearest, NearCwd, Fresh!NearCwd, UnitOf, Fresh!UnitOf, ToCwd, Fresh!ToCwd,
    PermitsUnit, Fresh!PermitsUnit, NewSelection, Fresh!NewSelection, GuardsAbove, Fresh!GuardsAbove,
    Under, Fresh!Under, StrictlyUnder, Fresh!StrictlyUnder, Ancestors, Fresh!Ancestors,
    NoProject, Fresh!NoProject, Root, Fresh!Root, IsPrefix, Fresh!IsPrefix,
    IsStrictPrefix, Fresh!IsStrictPrefix, Last, Fresh!Last, Front, Fresh!Front

\* A planner whose walk is up to date disables what a new one disables.
LEMMA RulesSame ==
  ASSUME UpToDate
  PROVE  /\ \A t, f : IsDisabled(t, f) <=> Fresh!IsDisabled(t, f)
         /\ \A t, d : IsProjectDisabled(t, d) <=> Fresh!IsProjectDisabled(t, d)
         /\ \A t : DisabledEverywhere(t) <=> Fresh!DisabledEverywhere(t)
         /\ \A t, fs : Enabled(t, fs) = Fresh!Enabled(t, fs)
<1>1. \A t, f : IsDisabled(t, f) <=> Fresh!IsDisabled(t, f)
  <2>. SUFFICES ASSUME NEW t, NEW f PROVE IsDisabled(t, f) <=> Fresh!IsDisabled(t, f)
    OBVIOUS
  <2>1. rules = RulesNow
    BY DEF UpToDate
  <2>. QED BY Zenon, <2>1, PathsSame DEF IsDisabled, Fresh!IsDisabled, RulesNow, IgnoreFile
<1>2. \A t, d : IsProjectDisabled(t, d) <=> Fresh!IsProjectDisabled(t, d)
  BY Zenon, <1>1 DEF IsProjectDisabled, Fresh!IsProjectDisabled
<1>3. \A t : DisabledEverywhere(t) <=> Fresh!DisabledEverywhere(t)
  BY Zenon DEF UpToDate, RulesNow, DisabledEverywhere, Fresh!DisabledEverywhere, ToSet, Fresh!ToSet,
    AnyGlob, Fresh!AnyGlob, Root, Fresh!Root
<1>4. \A t, fs : Enabled(t, fs) = Fresh!Enabled(t, fs)
  BY <1>1 DEF Enabled, Fresh!Enabled
<1>. QED BY <1>1, <1>2, <1>3, <1>4

\* Guard files are looked for on the disk by both.
LEMMA GuardsSame ==
  guardMemo = <<>> => \A u, o : UnitGuards(u, o) = Fresh!UnitGuards(u, o)
  BY PathsSame, OperationsSame DEF UnitGuards, Fresh!UnitGuards, Guards, Fresh!Guards, Last, Fresh!Last,
    Front, Fresh!Front

\* It applies the same tools, in the same directories, to the same files: a
\* true memo gives what matching the walk again would.
LEMMA WalkSame ==
  ASSUME UpToDate
  PROVE  /\ \A t : Applicable(t) <=> Fresh!Applicable(t)
         /\ \A t : ProjectsFor(t) = Fresh!ProjectsFor(t)
         /\ \A gs : Swept(gs) = Fresh!Swept(gs)
         /\ \A sel, o : MatchFiles(sel, o) = Fresh!MatchFiles(sel, o)
         /\ \A u : UnitMembers(u) = Fresh!UnitMembers(u)
         /\ \A u, o : UnitGuards(u, o) = Fresh!UnitGuards(u, o)
<1>1. \A t : Applicable(t) <=> Fresh!Applicable(t)
  BY Zenon DEF UpToDate, Applicable, Fresh!Applicable
<1>2. \A t : ProjectsFor(t) = Fresh!ProjectsFor(t)
  BY Zenon DEF UpToDate, ProjectsFor, Fresh!ProjectsFor
<1>3. \A gs : Swept(gs) = Fresh!Swept(gs)
  BY PathsSame DEF UpToDate, MemosTrue, Swept, Fresh!Swept
<1>4. \A sel, o : MatchFiles(sel, o) = Fresh!MatchFiles(sel, o)
  BY <1>3, PathsSame DEF MatchFiles, Fresh!MatchFiles
<1>5. \A u : UnitMembers(u) = Fresh!UnitMembers(u)
  BY PathsSame DEF UpToDate, MemosTrue, UnitMembers, Fresh!UnitMembers
<1>6. \A u, o : UnitGuards(u, o) = Fresh!UnitGuards(u, o)
  BY GuardsSame DEF UpToDate
<1>. QED BY <1>1, <1>2, <1>3, <1>4, <1>5, <1>6

\* It makes the same tasks and says the same of their coverage.
LEMMA TasksSame ==
  ASSUME UpToDate
  PROVE  /\ \A t, o, fs, gs : CoverageFor(t, o, fs, gs) = Fresh!CoverageFor(t, o, fs, gs)
         /\ \A t, o, d, fs : TaskOf(t, o, d, fs) = Fresh!TaskOf(t, o, d, fs)
<1>1. \A t, o, fs, gs : CoverageFor(t, o, fs, gs) = Fresh!CoverageFor(t, o, fs, gs)
  BY RulesSame, PathsSame, OperationsSame DEF CoverageFor, Fresh!CoverageFor
<1>2. \A t, o, d, fs : TaskOf(t, o, d, fs) = Fresh!TaskOf(t, o, d, fs)
  <2>. SUFFICES ASSUME NEW t, NEW o, NEW d, NEW fs PROVE TaskOf(t, o, d, fs) = Fresh!TaskOf(t, o, d, fs)
    OBVIOUS
  <2>1. /\ InferGranularity(o) = Fresh!InferGranularity(o)
        /\ UnitOf(d) = Fresh!UnitOf(d)
        /\ UnitMembers(UnitOf(d)) = Fresh!UnitMembers(UnitOf(d))
        /\ UnitGuards(UnitOf(d), o) = Fresh!UnitGuards(UnitOf(d), o)
        /\ CoverageFor(t, o, UnitMembers(UnitOf(d)), fs) = Fresh!CoverageFor(t, o, UnitMembers(UnitOf(d)), fs)
    BY <1>1, WalkSame, OperationsSame
  <2>. QED BY <2>1, Zenon DEF TaskOf, Fresh!TaskOf
<1>. QED BY <1>1, <1>2

\* It divides files among projects as a new one does.
LEMMA SharesSame ==
  ASSUME UpToDate
  PROVE  /\ \A fs, ds, r : Shares(fs, ds, r) = Fresh!Shares(fs, ds, r)
         /\ \A t, fs, r : PerProject(t, fs, r) = Fresh!PerProject(t, fs, r)
<1>1. \A fs, ds, r : Shares(fs, ds, r) = Fresh!Shares(fs, ds, r)
  BY Zenon DEF Shares, Fresh!Shares, Nearest, Fresh!Nearest, Under, Fresh!Under, StrictlyUnder, Fresh!StrictlyUnder,
     IsPrefix, Fresh!IsPrefix, IsStrictPrefix, Fresh!IsStrictPrefix, Root, Fresh!Root
<1>2. \A t, fs, r, ds, k : OrFallback(t, fs, r, ds, k) = Fresh!OrFallback(t, fs, r, ds, k)
  BY RulesSame DEF OrFallback, Fresh!OrFallback, Root, Fresh!Root, NoProject, Fresh!NoProject
<1>3. \A t, fs, r : PerProject(t, fs, r) = Fresh!PerProject(t, fs, r)
  <2>. SUFFICES ASSUME NEW t, NEW fs, NEW r PROVE PerProject(t, fs, r) = Fresh!PerProject(t, fs, r)
    OBVIOUS
  <2>. DEFINE near == IF r THEN NearCwd(ProjectsFor(t)) ELSE ProjectsFor(t)
              kept == {s \in Shares(fs, near, r) : ~IsProjectDisabled(t, s.project)}
  <2>1. near = IF r THEN Fresh!NearCwd(Fresh!ProjectsFor(t)) ELSE Fresh!ProjectsFor(t)
    BY WalkSame, OperationsSame
  <2>2. kept = {s \in Fresh!Shares(fs, near, r) : ~Fresh!IsProjectDisabled(t, s.project)}
    BY <1>1, RulesSame
  <2>3. PerProject(t, fs, r) = OrFallback(t, fs, r, near, kept)
    BY DEF PerProject
  <2>4. Fresh!PerProject(t, fs, r) = Fresh!OrFallback(t, fs, r, near, kept)
    BY <2>1, <2>2, Zenon DEF Fresh!PerProject
  <2>. QED BY <1>2, <2>3, <2>4
<1>. QED BY <1>1, <1>3

\* It makes the same tasks of units.
LEMMA UnitTasksSame ==
  ASSUME UpToDate, NEW tool, NEW o, NEW sel, NEW given
  PROVE  UnitTasks(tool, o, sel, given) = Fresh!UnitTasks(tool, o, sel, given)
<1>. DEFINE named    == ArgsReferenceFiles(o)
            widened  == named /\ o.granularity = "unit"
            full     == IF ~widened THEN {} ELSE PerProject(tool, Enabled(tool, MatchFiles(All, o)), FALSE)
            shares   == PerProject(tool, given, TRUE)
            within   == {t \in shares : PermitsUnit(sel, t.project)}
            grown(s) == [s EXCEPT !.files = IF widened THEN UNION {t.files : t \in {u \in full : u.project = s.project}}
                                            ELSE @]
            kept     == IF named /\ ~widened THEN shares
                        ELSE {s \in {grown(s) : s \in within} : widened => s.files # {}}
            task(s)  == [TaskOf(tool, o, s.project, s.files) EXCEPT !.coverage = IF widened THEN "complete" ELSE @]
            named2    == Fresh!ArgsReferenceFiles(o)
            widened2  == named2 /\ o.granularity = "unit"
            full2     == IF ~widened2 THEN {}
                         ELSE Fresh!PerProject(tool, Fresh!Enabled(tool, Fresh!MatchFiles(Fresh!All, o)), FALSE)
            shares2   == Fresh!PerProject(tool, given, TRUE)
            within2   == {t \in shares2 : Fresh!PermitsUnit(sel, t.project)}
            grown2(s) == [s EXCEPT !.files = IF widened2 THEN UNION {t.files : t \in {u \in full2 : u.project = s.project}}
                                             ELSE @]
            kept2     == IF named2 /\ ~widened2 THEN shares2
                         ELSE {s \in {grown2(s) : s \in within2} : widened2 => s.files # {}}
            task2(s)  == [Fresh!TaskOf(tool, o, s.project, s.files) EXCEPT !.coverage = IF widened2 THEN "complete" ELSE @]
<1>1. named = named2
  BY Zenon DEF ArgsReferenceFiles, Fresh!ArgsReferenceFiles
<1>2. widened = widened2
  BY <1>1, Zenon
<1>3. full = full2
  BY <1>2, WalkSame, RulesSame, SharesSame DEF All, Fresh!All
<1>4. shares = shares2
  BY SharesSame
<1>5. within = within2
  BY <1>4, OperationsSame
<1>6. {grown(s) : s \in within} = {grown2(s) : s \in within2}
  <2>. HIDE DEF widened, widened2, full, full2, within, within2
  <2>. QED BY <1>2, <1>3, <1>5, Zenon
<1>7. kept = kept2
  <2>. HIDE DEF widened, widened2, named, named2, shares, shares2, within, within2, grown, grown2
  <2>. QED BY <1>1, <1>2, <1>4, <1>6, Zenon
<1>8. {task(s) : s \in kept} = {task2(s) : s \in kept2}
  <2>1. \A s : task(s) = task2(s)
    <3>. HIDE DEF widened, widened2
    <3>. QED BY <1>2, TasksSame
  <2>. HIDE DEF task, task2, kept, kept2
  <2>. QED BY <2>1, <1>7
<1>9. UnitTasks(tool, o, sel, given)
        = [tasks |-> {task(s) : s \in kept}, narrowedAway |-> kept = {} /\ shares # {}]
  BY Zenon DEF UnitTasks
<1>10. Fresh!UnitTasks(tool, o, sel, given)
        = [tasks |-> {task2(s) : s \in kept2}, narrowedAway |-> kept2 = {} /\ shares2 # {}]
  BY Zenon DEF Fresh!UnitTasks
<1>. HIDE DEF task, task2, kept, kept2, shares, shares2
<1>. QED BY <1>4, <1>7, <1>8, <1>9, <1>10, Zenon

\* It collects the same of an operation, whatever its scope.
LEMMA CollectSame ==
  ASSUME UpToDate, NEW tool, NEW o, NEW sel
  PROVE  Collect(tool, o, sel) = Fresh!Collect(tool, o, sel)
<1>. DEFINE given == Enabled(tool, ToCwd(sel, MatchFiles(sel, o)))
<1>1. given = Fresh!Enabled(tool, Fresh!ToCwd(sel, Fresh!MatchFiles(sel, o)))
  BY WalkSame, RulesSame, OperationsSame
<1>2. ProjectTasks(tool, o, sel) = Fresh!ProjectTasks(tool, o, sel)
  <2>1. UnitTasks(tool, o, sel, given) = Fresh!UnitTasks(tool, o, sel, given)
    BY UnitTasksSame
  <2>. QED BY <1>1, <2>1, Zenon DEF ProjectTasks, Fresh!ProjectTasks, Nothing, Fresh!Nothing
<1>3. FileTasks(tool, o, sel) = Fresh!FileTasks(tool, o, sel)
  <2>1. {TaskOf(tool, o, Front(f), {f}) : f \in given} = {Fresh!TaskOf(tool, o, Front(f), {f}) : f \in given}
    <3>1. \A f : TaskOf(tool, o, Front(f), {f}) = Fresh!TaskOf(tool, o, Front(f), {f})
      BY TasksSame
    <3>. HIDE DEF given
    <3>. QED BY <3>1
  <2>. QED BY <1>1, <2>1, Zenon DEF FileTasks, Fresh!FileTasks, Front, Fresh!Front
<1>4. RepositoryTask(tool, o, sel) = Fresh!RepositoryTask(tool, o, sel)
  <2>. DEFINE repoWide == InferGranularity(o) = "repo"
              matched  == MatchFiles(IF repoWide /\ widen = "repo" THEN All ELSE sel, o)
              whole    == Enabled(tool, IF InferGranularity(o) = "file" THEN ToCwd(sel, matched) ELSE matched)
              matched2 == Fresh!MatchFiles(IF Fresh!InferGranularity(o) = "repo" /\ widen = "repo" THEN Fresh!All ELSE sel, o)
              whole2   == Fresh!Enabled(tool, IF Fresh!InferGranularity(o) = "file" THEN Fresh!ToCwd(sel, matched2) ELSE matched2)
  <2>1. InferGranularity(o) = Fresh!InferGranularity(o)
    BY OperationsSame
  <2>2. matched = matched2
    BY <2>1, WalkSame DEF All, Fresh!All
  <2>3. whole = whole2
    <3>. HIDE DEF matched, matched2
    <3>. QED BY <2>1, <2>2, RulesSame, OperationsSame
  <2>4. IsProjectDisabled(tool, Root) <=> Fresh!IsProjectDisabled(tool, Root)
    BY RulesSame
  <2>5. TaskOf(tool, o, Root, whole) = Fresh!TaskOf(tool, o, Root, whole2)
    <3>. HIDE DEF whole, whole2
    <3>. QED BY <2>3, TasksSame
  <2>6. RepositoryTask(tool, o, sel)
          = IF repoWide /\ cwd # Root /\ widen # "repo" THEN [tasks |-> {}, narrowedAway |-> TRUE]
            ELSE IF (o.globs = {} /\ IsProjectDisabled(tool, Root)) \/ (o.globs # {} /\ whole = {})
            THEN Nothing
            ELSE [tasks |-> {TaskOf(tool, o, Root, whole)}, narrowedAway |-> FALSE]
    BY Zenon DEF RepositoryTask
  <2>7. Fresh!RepositoryTask(tool, o, sel)
          = IF Fresh!InferGranularity(o) = "repo" /\ cwd # Root /\ widen # "repo" THEN [tasks |-> {}, narrowedAway |-> TRUE]
            ELSE IF (o.globs = {} /\ Fresh!IsProjectDisabled(tool, Root)) \/ (o.globs # {} /\ whole2 = {})
            THEN Nothing
            ELSE [tasks |-> {Fresh!TaskOf(tool, o, Root, whole2)}, narrowedAway |-> FALSE]
    BY Zenon DEF Fresh!RepositoryTask, Root, Fresh!Root, Nothing, Fresh!Nothing
  <2>. HIDE DEF whole, whole2
  <2>. QED BY <2>1, <2>3, <2>4, <2>5, <2>6, <2>7
<1>. QED BY <1>2, <1>3, <1>4 DEF Collect, Fresh!Collect

\* So it plans what a new one would.
LEMMA PlanSame ==
  ASSUME UpToDate, NEW r
  PROVE  PlanFor(r) = Fresh!PlanFor(r)
<1>1. \A op : Considered(op) = Fresh!Considered(op)
  BY RulesSame, WalkSame DEF Considered, Fresh!Considered
<1>2. \A op : Runnable(op) = Fresh!Runnable(op)
  BY <1>1 DEF Runnable, Fresh!Runnable
<1>3. \A sel, got : Assembled(r, sel, got) = Fresh!Assembled(r, sel, got)
  <2>. SUFFICES ASSUME NEW sel, NEW got PROVE Assembled(r, sel, got) = Fresh!Assembled(r, sel, got)
    OBVIOUS
  <2>1. Considered(r.op) = Fresh!Considered(r.op)
    BY <1>1
  <2>. QED BY <2>1, Zenon DEF Assembled, Fresh!Assembled
<1>4. NewSelection(r.paths, r.fileScoped) = Fresh!NewSelection(r.paths, r.fileScoped)
  BY OperationsSame
<1>5. \A sel : [t \in Runnable(r.op) |-> Collect(t, ToolOf[t].ops[r.op], sel)]
                 = [t \in Fresh!Runnable(r.op) |-> Fresh!Collect(t, ToolOf[t].ops[r.op], sel)]
  <2>. SUFFICES ASSUME NEW sel
                PROVE  [t \in Runnable(r.op) |-> Collect(t, ToolOf[t].ops[r.op], sel)]
                         = [t \in Fresh!Runnable(r.op) |-> Fresh!Collect(t, ToolOf[t].ops[r.op], sel)]
    OBVIOUS
  <2>1. \A t : Collect(t, ToolOf[t].ops[r.op], sel) = Fresh!Collect(t, ToolOf[t].ops[r.op], sel)
    BY CollectSame
  <2>. QED BY <1>2, <2>1
<1>. DEFINE sel == NewSelection(r.paths, r.fileScoped)
            got == [t \in Runnable(r.op) |-> Collect(t, ToolOf[t].ops[r.op], sel)]
            got2 == [t \in Fresh!Runnable(r.op) |-> Fresh!Collect(t, ToolOf[t].ops[r.op], sel)]
<1>6. PlanFor(r) = IF sel.mode = "empty" THEN [NoPlan EXCEPT !.for = r, !.sel = sel] ELSE Assembled(r, sel, got)
  BY Zenon DEF PlanFor
<1>7. Fresh!PlanFor(r) = IF sel.mode = "empty" THEN [NoPlan EXCEPT !.for = r, !.sel = sel]
                         ELSE Fresh!Assembled(r, sel, got2)
  BY <1>4, Zenon DEF Fresh!PlanFor, NoPlan, Fresh!NoPlan, Idle, Fresh!Idle
<1>8. got = got2
  BY <1>5
<1>. HIDE DEF sel, got, got2
<1>. QED BY <1>3, <1>6, <1>7, <1>8

\* What holds of the memos whatever has become of the disk.
MemosInvariant ==
  /\ ready => projects = DetectAll(files)
  /\ ~ready => globMemo = <<>> /\ memberMemo = <<>>
  /\ MemosTrue
  /\ request # Idle => ready /\ guardMemo = <<>> /\ plan = NoPlan

\* Between two invalidations a memo says of the walk what is true of it, and a
\* plan is begun with no guard remembered (Planner.Plan, Invalidate, SeedFiles).
THEOREM MemosSound == Spec => []MemosInvariant
<1>1. Init => MemosInvariant
  BY DEF Init, MemosInvariant, MemosTrue
<1>2. MemosInvariant /\ [Next]_vars => MemosInvariant'
  <2>. SUFFICES ASSUME MemosInvariant, [Next]_vars PROVE MemosInvariant'
    OBVIOUS
  <2>1. CASE SeedFiles
    BY <2>1 DEF SeedFiles, MemosInvariant, MemosTrue, Matching, Matches, memos
  <2>2. CASE Invalidate
    BY <2>2 DEF Invalidate, MemosInvariant, MemosTrue, memos
  <2>3. ASSUME NEW r \in Requests, BeginPlan(r) PROVE MemosInvariant'
    <3>1. CASE ready
      BY <2>3, <3>1 DEF BeginPlan, MemosInvariant, MemosTrue, Matching, Matches, walk, DetectAll
    <3>2. CASE ~ready
      BY <2>3, <3>2 DEF BeginPlan, InitializeCache, MemosInvariant, MemosTrue
    <3>. QED BY <3>1, <3>2
  <2>4. CASE FinishPlan
    <3>1. UNCHANGED <<ready, files, projects>> /\ request' = Idle /\ ready
      BY <2>4 DEF FinishPlan, walk, MemosInvariant
    <3>2. PICK made, units : Remember(made, units)
      BY <2>4 DEF FinishPlan
    <3>3. MemosTrue'
      <4>1. CASE made.sel.mode = "empty"
        BY <3>1, <3>2, <4>1 DEF Remember, memos, MemosInvariant, MemosTrue, Matching, Matches
      <4>2. ASSUME made.sel.mode # "empty" PROVE MemosTrue'
        <5>1. /\ globMemo' = [g \in DOMAIN globMemo \cup SweptBy(request) |-> Swept(g)]
              /\ memberMemo' = [u \in DOMAIN memberMemo \cup (units \ {Root}) |-> UnitMembers(u)]
          BY <3>2, <4>2 DEF Remember
        <5>2. \A g : Swept(g) = Matching(files, g)
          BY DEF Swept, MemosInvariant, MemosTrue
        <5>3. \A u : UnitMembers(u) = {f \in files : StrictlyUnder(u, f)}
          BY DEF UnitMembers, MemosInvariant, MemosTrue
        <5>4. \A g \in DOMAIN globMemo' : globMemo'[g] = Matching(files, g)
          BY <5>1, <5>2 DEF MemosInvariant, MemosTrue
        <5>5. \A u \in DOMAIN memberMemo' : memberMemo'[u] = {f \in files : StrictlyUnder(u, f)}
          BY <5>1, <5>3 DEF MemosInvariant, MemosTrue
        <5>. QED BY <3>1, <5>4, <5>5 DEF MemosTrue, Matching, Matches
      <4>. QED BY <4>1, <4>2
    <3>. QED BY <3>1, <3>3 DEF MemosInvariant
  <2>5. ASSUME NEW t \in TasksOf(plan), NEW limit \in Limits, Chunk(t, limit) PROVE MemosInvariant'
    BY <2>5 DEF Chunk, MemosInvariant, MemosTrue, Matching, Matches, memos, walk
  <2>6. ASSUME NEW f \in Volatile, EditTree(f) PROVE MemosInvariant'
    BY <2>6 DEF EditTree, MemosInvariant, MemosTrue, Matching, Matches, memos, walk
  <2>7. ASSUME NEW c \in RuleFiles, EditRules(c) PROVE MemosInvariant'
    BY <2>7 DEF EditRules, MemosInvariant, MemosTrue, Matching, Matches, memos, walk
  <2>8. CASE UNCHANGED vars
    BY <2>8 DEF vars, MemosInvariant, MemosTrue, Matching, Matches, memos, walk
  <2>. QED BY <2>1, <2>2, <2>3, <2>4, <2>5, <2>6, <2>7, <2>8 DEF Next
<1>. QED BY <1>1, <1>2, PTL DEF Spec

(***************************************************************************)
(* What a task is made of.                                                 *)
(***************************************************************************)

Share(d, fs) == [project |-> d, files |-> fs]
Task(tool, o, d, fs, ms, gs, c) ==
  [tool |-> tool, op |-> o, project |-> d, files |-> fs, members |-> ms, guards |-> gs, coverage |-> c]

\* The task of an operation in a directory, given files, said to cover so much.
TaskWith(tool, o, d, fs, c) ==
  IF InferGranularity(o) = "file" THEN Task(tool, o, d, fs, {}, {}, c)
  ELSE Task(tool, o, d, fs, UnitMembers(UnitOf(d)), UnitGuards(UnitOf(d), o), c)

\* The fields of a task, and what changing its coverage makes of it.
LEMMA TaskWithIs ==
  ASSUME NEW tool, NEW o, NEW d, NEW fs, NEW c
  PROVE  LET t == TaskWith(tool, o, d, fs, c)
         IN  /\ t.tool = tool /\ t.op = o /\ t.project = d /\ t.files = fs /\ t.coverage = c
             /\ InferGranularity(o) # "file" => t.guards = UnitGuards(UnitOf(d), o)
             /\ \A b : [t EXCEPT !.coverage = b] = TaskWith(tool, o, d, fs, b)
<1>1. \A ms, gs, b, e : [Task(tool, o, d, fs, ms, gs, b) EXCEPT !.coverage = e] = Task(tool, o, d, fs, ms, gs, e)
  BY DEF Task
<1>2. \A ms, gs : LET t == Task(tool, o, d, fs, ms, gs, c)
                  IN  t.tool = tool /\ t.op = o /\ t.project = d /\ t.files = fs /\ t.coverage = c /\ t.guards = gs
  BY DEF Task
<1>. QED BY <1>1, <1>2 DEF TaskWith

\* TaskOf chooses the coverage; the rest is TaskWith.
LEMMA TaskIs ==
  ASSUME NEW tool, NEW o, NEW d, NEW fs
  PROVE  TaskOf(tool, o, d, fs) =
           TaskWith(tool, o, d, fs, IF InferGranularity(o) = "file" THEN "complete"
                                    ELSE CoverageFor(tool, o, UnitMembers(UnitOf(d)), fs))
  BY DEF TaskOf, Task, TaskWith

\* Setting the coverage a task has changes nothing.
LEMMA TaskItself ==
  \A tool, o, d, fs :
    [TaskOf(tool, o, d, fs) EXCEPT !.coverage = TaskOf(tool, o, d, fs).coverage] = TaskOf(tool, o, d, fs)
<1>. SUFFICES ASSUME NEW tool, NEW o, NEW d, NEW fs
              PROVE  [TaskOf(tool, o, d, fs) EXCEPT !.coverage = TaskOf(tool, o, d, fs).coverage] = TaskOf(tool, o, d, fs)
  OBVIOUS
<1>1. PICK ms, gs, b : TaskOf(tool, o, d, fs) = Task(tool, o, d, fs, ms, gs, b)
  BY TaskIs DEF TaskWith
<1>. QED BY <1>1 DEF Task

\* What groupFilesByProject returns are pairs of a directory and files.
LEMMA ShareIs ==
  ASSUME NEW tool, NEW given
  PROVE  \A s \in PerProject(tool, given, TRUE) \cup PerProject(tool, given, FALSE) : \E d, fs : s = Share(d, fs)
<1>. SUFFICES ASSUME NEW restrict, NEW s \in PerProject(tool, given, restrict)
              PROVE  \E d, fs : s = Share(d, fs)
  BY Zenon
<1>1. \A ds : \A q \in Shares(given, ds, restrict) : \E d, fs : q = Share(d, fs)
  BY DEF Shares, Share
<1>2. \E ds, k : s \in OrFallback(tool, given, restrict, ds, k) /\ k \subseteq Shares(given, ds, restrict)
  BY DEF PerProject
<1>3. \A ds, k : OrFallback(tool, given, restrict, ds, k) \subseteq k \cup {Share(NoProject, given)}
  BY DEF OrFallback, Share
<1>. QED BY <1>1, <1>2, <1>3

\* What collecting an operation of units comes to.
UnitFiles(tool, o, d) ==
  UNION {s.files : s \in {u \in PerProject(tool, Enabled(tool, MatchFiles(All, o)), FALSE) : u.project = d}}

\* t is the task of directory d, whose share of the files given is own, and fs
\* what it is given.
IsUnitTask(tool, o, sel, given, t, d, own, fs) ==
  /\ Share(d, own) \in PerProject(tool, given, TRUE)
  /\ ArgsReferenceFiles(o) /\ o.granularity # "unit" => fs = own /\ t = TaskOf(tool, o, d, fs)
  /\ ~ArgsReferenceFiles(o) => fs = own /\ PermitsUnit(sel, d) /\ t = TaskOf(tool, o, d, fs)
  /\ ArgsReferenceFiles(o) /\ o.granularity = "unit" =>
       /\ PermitsUnit(sel, d) /\ fs = UnitFiles(tool, o, d) /\ fs # {}
       /\ t = TaskWith(tool, o, d, fs, "complete")

\* Every task of units is of one of the three forms.
LEMMA UnitTaskIs ==
  ASSUME NEW tool, NEW o, NEW sel, NEW given, NEW t \in UnitTasks(tool, o, sel, given).tasks
  PROVE  \E d, own, fs : IsUnitTask(tool, o, sel, given, t, d, own, fs)
<1>. DEFINE named    == ArgsReferenceFiles(o)
            widened  == named /\ o.granularity = "unit"
            full     == IF ~widened THEN {} ELSE PerProject(tool, Enabled(tool, MatchFiles(All, o)), FALSE)
            shares   == PerProject(tool, given, TRUE)
            within   == {u \in shares : PermitsUnit(sel, u.project)}
            grown(s) == [s EXCEPT !.files = IF widened THEN UNION {q.files : q \in {u \in full : u.project = s.project}}
                                            ELSE @]
            kept     == IF named /\ ~widened THEN shares
                        ELSE {s \in {grown(s) : s \in within} : widened => s.files # {}}
            task(s)  == [TaskOf(tool, o, s.project, s.files) EXCEPT !.coverage = IF widened THEN "complete" ELSE @]
<1>0. \A u \in shares : \E d, fs : u = Share(d, fs)
  <2>. HIDE DEF shares
  <2>1. shares = PerProject(tool, given, TRUE)
    BY DEF shares
  <2>. QED BY <2>1, ShareIs, Zenon
<1>1. UnitTasks(tool, o, sel, given)
        = [tasks |-> {task(s) : s \in kept}, narrowedAway |-> kept = {} /\ shares # {}]
  BY Zenon DEF UnitTasks
<1>2. PICK s \in kept : t = task(s)
  <2>. HIDE DEF kept, task
  <2>. QED BY <1>1
<1>3. \A d, fs : Share(d, fs).project = d /\ Share(d, fs).files = fs
  BY DEF Share
<1>4. \A d, fs, gs : [Share(d, fs) EXCEPT !.files = gs] = Share(d, gs)
  BY DEF Share
<1>5. CASE named /\ ~widened
  <2>1. s \in shares
    BY <1>2, <1>5
  <2>2. PICK d, fs : s = Share(d, fs)
    BY <1>0, <2>1
  <2>3. t = [TaskOf(tool, o, d, fs) EXCEPT !.coverage = TaskOf(tool, o, d, fs).coverage]
    BY <1>2, <1>3, <1>5, <2>2
  <2>4. t = TaskOf(tool, o, d, fs)
    <3>1. [TaskOf(tool, o, d, fs) EXCEPT !.coverage = TaskOf(tool, o, d, fs).coverage] = TaskOf(tool, o, d, fs)
      BY TaskItself
    <3>. QED BY <2>3, <3>1
  <2>. QED BY <1>5, <2>1, <2>2, <2>4 DEF IsUnitTask
<1>6. CASE ~named
  <2>1. PICK u \in within : s = grown(u)
    BY <1>2, <1>6
  <2>2. PICK d, fs : u = Share(d, fs)
    BY <1>0, <2>1
  <2>3. s = Share(d, fs)
    BY <1>3, <1>4, <1>6, <2>1, <2>2
  <2>4. t = [TaskOf(tool, o, d, fs) EXCEPT !.coverage = TaskOf(tool, o, d, fs).coverage]
    BY <1>2, <1>3, <1>6, <2>3
  <2>5. t = TaskOf(tool, o, d, fs)
    <3>1. [TaskOf(tool, o, d, fs) EXCEPT !.coverage = TaskOf(tool, o, d, fs).coverage] = TaskOf(tool, o, d, fs)
      BY TaskItself
    <3>. QED BY <2>4, <3>1
  <2>. QED BY <1>3, <1>6, <2>1, <2>2, <2>5 DEF IsUnitTask
<1>7. CASE widened
  <2>1. PICK u \in within : s = grown(u) /\ s.files # {}
    BY <1>2, <1>7
  <2>2. PICK d, own : u = Share(d, own)
    BY <1>0, <2>1
  <2>3. s = [Share(d, own) EXCEPT !.files = UnitFiles(tool, o, d)]
    <3>1. full = PerProject(tool, Enabled(tool, MatchFiles(All, o)), FALSE)
      BY <1>7
    <3>2. s = [u EXCEPT !.files = UNION {q.files : q \in {e \in full : e.project = u.project}}]
      BY <1>7, <2>1
    <3>3. u.project = d
      BY <1>3, <2>2
    <3>. QED BY <2>2, <3>1, <3>2, <3>3, Zenon DEF UnitFiles
  <2>4. s = Share(d, UnitFiles(tool, o, d))
    BY <1>4, <2>3
  <2>5. t = TaskWith(tool, o, d, UnitFiles(tool, o, d), "complete")
    <3>1. t = [TaskOf(tool, o, d, UnitFiles(tool, o, d)) EXCEPT !.coverage = "complete"]
      BY <1>2, <1>3, <1>7, <2>4
    <3>2. PICK c : TaskOf(tool, o, d, UnitFiles(tool, o, d)) = TaskWith(tool, o, d, UnitFiles(tool, o, d), c)
      BY TaskIs
    <3>3. [TaskWith(tool, o, d, UnitFiles(tool, o, d), c) EXCEPT !.coverage = "complete"]
            = TaskWith(tool, o, d, UnitFiles(tool, o, d), "complete")
      BY TaskWithIs
    <3>. QED BY <3>1, <3>2, <3>3
  <2>6. Share(d, own) \in PerProject(tool, given, TRUE) /\ PermitsUnit(sel, d) /\ UnitFiles(tool, o, d) # {}
    <3>1. u \in shares /\ PermitsUnit(sel, u.project)
      BY <2>1
    <3>2. u.project = d /\ s.files = UnitFiles(tool, o, d)
      BY <1>3, <2>2, <2>4
    <3>. QED BY <2>1, <2>2, <3>1, <3>2
  <2>. QED BY <1>7, <2>5, <2>6 DEF IsUnitTask
<1>. QED BY <1>5, <1>6, <1>7

\* A task that a tool contributes is the tool's, of the operation asked for.
LEMMA TaskOfTool ==
  ASSUME NEW tool, NEW o, NEW sel, NEW t \in Collect(tool, o, sel).tasks
  PROVE  \E d, fs : \E c \in {"complete", "partial"} : t = TaskWith(tool, o, d, fs, c)
<1>. \A x, y, z, w : CoverageFor(x, y, z, w) \in {"complete", "partial"}
  BY Zenon DEF CoverageFor
<1>1. CASE o.scope = "repository"
  <2>1. \E fs : t = TaskOf(tool, o, Root, fs)
    BY <1>1, Zenon DEF Collect, RepositoryTask, Nothing
  <2>. QED BY <2>1, TaskIs
<1>2. CASE o.scope = "per-file"
  <2>1. \E f : t = TaskOf(tool, o, Front(f), {f})
    BY <1>2 DEF Collect, FileTasks
  <2>. QED BY <2>1, TaskIs
<1>3. CASE o.scope \notin {"repository", "per-file"}
  <2>1. t \in ProjectTasks(tool, o, sel).tasks
    BY <1>3 DEF Collect
  <2>2. PICK given : t \in UnitTasks(tool, o, sel, given).tasks
    BY <2>1 DEF ProjectTasks, Nothing
  <2>3. \E d, fs : t = TaskOf(tool, o, d, fs) \/ t = TaskWith(tool, o, d, fs, "complete")
    <3>1. PICK d, own, fs : IsUnitTask(tool, o, sel, given, t, d, own, fs)
      BY <2>2, UnitTaskIs
    <3>. QED BY <3>1 DEF IsUnitTask
  <2>4. \A d, fs : \E c \in {"complete", "partial"} : TaskOf(tool, o, d, fs) = TaskWith(tool, o, d, fs, c)
    BY TaskIs
  <2>. QED BY <2>3, <2>4
<1>. QED BY <1>1, <1>2, <1>3

\* The tasks of a plan are what the tools contribute.
LEMMA TasksOfPlan ==
  ASSUME NEW r, NEW t \in TasksOf(PlanFor(r))
  PROVE  /\ PlanFor(r).for = r /\ PlanFor(r).sel = NewSelection(r.paths, r.fileScoped)
         /\ \E tool \in Runnable(r.op) : t \in Collect(tool, ToolOf[tool].ops[r.op], PlanFor(r).sel).tasks
<1>. DEFINE sel == NewSelection(r.paths, r.fileScoped)
            got == [tool \in Runnable(r.op) |-> Collect(tool, ToolOf[tool].ops[r.op], sel)]
<1>1. PlanFor(r) = IF sel.mode = "empty" THEN [NoPlan EXCEPT !.for = r, !.sel = sel] ELSE Assembled(r, sel, got)
  BY Zenon DEF PlanFor
<1>2. sel.mode # "empty"
  <2>1. [NoPlan EXCEPT !.for = r, !.sel = sel].groups = <<>>
    <3>. HIDE DEF sel
    <3>. QED BY DEF NoPlan
  <2>2. ASSUME sel.mode = "empty" PROVE FALSE
    BY <1>1, <2>1, <2>2 DEF TasksOf
  <2>. QED BY <2>2
<1>. DEFINE wanted == {tool \in DOMAIN got : r.tools = {} \/ tool \in r.tools}
            tasks == UNION {got[tool].tasks : tool \in wanted}
            groups == [p \in {u.op.priority : u \in tasks} |-> {u \in tasks : u.op.priority = p}]
<1>3. /\ Assembled(r, sel, got).groups = groups
      /\ Assembled(r, sel, got).for = r /\ Assembled(r, sel, got).sel = sel
  <2>. HIDE DEF sel, got
  <2>1. \A x, y, z, w : [for |-> x, sel |-> y, groups |-> z, skipped |-> w].groups = z
    OBVIOUS
  <2>2. PICK k : Assembled(r, sel, got) = [for |-> r, sel |-> sel, groups |-> groups, skipped |-> k]
    BY Zenon DEF Assembled
  <2>. QED BY <2>2
<1>4. \E tool \in wanted : t \in got[tool].tasks
  <2>. HIDE DEF got, wanted, sel
  <2>1. PICK p \in DOMAIN groups : t \in groups[p]
    <3>. HIDE DEF groups
    <3>. QED BY <1>1, <1>2, <1>3 DEF TasksOf
  <2>2. t \in tasks
    BY <2>1
  <2>. QED BY <2>2
<1>. QED BY <1>1, <1>2, <1>3, <1>4

\* Every plan is made with the guard files now on the disk, and a planner whose
\* walk is the tree as it stands plans what one that remembers nothing would.
THEOREM NothingStaleHolds == Spec => NothingStale
<1>. DEFINE Guarded ==
              \A t \in TasksOf(plan') :
                plan' # plan /\ InferGranularity(t.op) # "file" =>
                  t.guards = Fresh!UnitGuards(UnitOf(t.project), t.op)
            Current ==
              request # Idle /\ plan' # plan /\ files = Walk
                /\ rules = ConfigRules \o (IF IgnoreFile \in Walk THEN ignoreFile ELSE <<>>) =>
                plan' = Fresh!PlanFor(request)
<1>1. MemosInvariant /\ [Next]_vars => [Guarded /\ Current]_vars
  <2>. SUFFICES ASSUME MemosInvariant, Next PROVE Guarded /\ Current
    OBVIOUS
  <2>1. CASE FinishPlan
    <3>1. request # Idle /\ plan' \in {PlanFor(request), NoPlan} /\ plan = NoPlan /\ guardMemo = <<>>
      BY <2>1 DEF FinishPlan, MemosInvariant
    <3>2. CASE plan' = NoPlan
      BY <3>1, <3>2 
    <3>3. CASE plan' = PlanFor(request)
      <4>1. Guarded
        <5>. SUFFICES ASSUME NEW t \in TasksOf(PlanFor(request)), InferGranularity(t.op) # "file"
                      PROVE  t.guards = Fresh!UnitGuards(UnitOf(t.project), t.op)
          BY <3>3, Zenon
        <5>1. PICK tool, o, d, fs, c : t = TaskWith(tool, o, d, fs, c)
          <6>1. \E tool, o, sel : t \in Collect(tool, o, sel).tasks
            BY TasksOfPlan
          <6>. QED BY <6>1, TaskOfTool
        <5>2. t.guards = UnitGuards(UnitOf(t.project), t.op)
          BY <5>1, TaskWithIs
        <5>3. UnitGuards(UnitOf(t.project), t.op) = Fresh!UnitGuards(UnitOf(t.project), t.op)
          BY <3>1, GuardsSame
        <5>. QED BY <5>2, <5>3
      <4>2. Current
        <5>. SUFFICES ASSUME files = Walk, rules = RulesNow PROVE PlanFor(request) = Fresh!PlanFor(request)
          BY <3>3, Zenon DEF RulesNow
        <5>1. UpToDate
          BY <3>1 DEF UpToDate, MemosInvariant
        <5>. QED BY <5>1, PlanSame
      <4>. QED BY <4>1, <4>2
    <3>. QED BY <3>1, <3>2, <3>3
  <2>2. ASSUME NEW r \in Requests, BeginPlan(r) PROVE Guarded /\ Current
    <3>1. request = Idle /\ plan' = NoPlan
      BY <2>2 DEF BeginPlan
    <3>2. TasksOf(NoPlan) = {}
      BY DEF TasksOf, NoPlan
    <3>. QED BY <3>1, <3>2
  <2>3. CASE plan' = plan
    BY <2>3
  <2>4. SeedFiles \/ Invalidate => plan' = plan
    BY DEF SeedFiles, Invalidate
  <2>5. ASSUME NEW t \in TasksOf(plan), NEW limit \in Limits, Chunk(t, limit) PROVE plan' = plan
    BY <2>5 DEF Chunk
  <2>6. ASSUME NEW f \in Volatile, EditTree(f) PROVE plan' = plan
    BY <2>6 DEF EditTree
  <2>7. ASSUME NEW c \in RuleFiles, EditRules(c) PROVE plan' = plan
    BY <2>7 DEF EditRules
  <2>. HIDE DEF Guarded, Current
  <2>. QED BY <2>1, <2>2, <2>3, <2>4, <2>5, <2>6, <2>7 DEF Next
<1>2. [Guarded /\ Current]_vars => [Guarded]_vars /\ [Current]_vars
  OBVIOUS
<1>. QED BY <1>1, <1>2, MemosSound, PTL DEF NothingStale, GuardsCurrent, PlanIsFresh, Spec

(***************************************************************************)
(* Paths.                                                                  *)
(***************************************************************************)

\* A path is above another when it is a prefix of it.
LEMMA PrefixIs ==
  ASSUME NEW a \in Seq(STRING), NEW b \in Seq(STRING)
  PROVE  IsPrefix(a, b) <=> Len(a) <= Len(b) /\ \A i \in 1 .. Len(a) : a[i] = b[i]
<1>1. CASE Len(a) <= Len(b)
  <2>1. /\ SubSeq(a, 1, Len(a)) \in Seq(STRING) /\ Len(SubSeq(a, 1, Len(a))) = Len(a)
        /\ SubSeq(b, 1, Len(a)) \in Seq(STRING) /\ Len(SubSeq(b, 1, Len(a))) = Len(a)
    BY <1>1
  <2>2. \A i \in 1 .. Len(a) : SubSeq(a, 1, Len(a))[i] = a[i] /\ SubSeq(b, 1, Len(a))[i] = b[i]
    BY <1>1
  <2>. QED BY <1>1, <2>1, <2>2, SeqEqual DEF IsPrefix
<1>2. CASE ~(Len(a) <= Len(b))
  BY <1>2 DEF IsPrefix
<1>. QED BY <1>1, <1>2

\* The root is the empty path.
LEMMA RootIsPath ==
  Root \in Path /\ Len(Root) = 0
<1>1. Root \in Seq(STRING) /\ Len(Root) = 0
  BY EmptySeq DEF Root
<1>2. DOMAIN Root = 1 .. 0
  BY <1>1
<1>3. \A n \in DOMAIN Root : Root[n] # ""
  <2>1. \A n \in 1 .. 0 : FALSE
    OBVIOUS
  <2>. QED BY <1>2, <2>1, Zenon
<1>. QED BY <1>1, <1>3, Zenon DEF Path

\* The length of a path is a number.
LEMMA LenIs ==
  \A x \in Path : Len(x) \in Nat
<1>1. \A x \in Path : x \in Seq(STRING)
  BY Zenon DEF Path
<1>. QED BY <1>1

\* The order of directories: a partial order, linear above any path.
LEMMA UnderFacts ==
  ASSUME NEW a \in Path, NEW b \in Path, NEW c \in Path
  PROVE  /\ Under(Root, a) /\ Under(a, a)
         /\ a # Root => StrictlyUnder(Root, a)
         /\ Under(a, Root) => a = Root
         /\ Under(a, b) /\ Under(b, c) => Under(a, c)
         /\ Under(a, b) /\ Len(a) = Len(b) => a = b
         /\ Under(a, b) => Len(a) <= Len(b)
         /\ StrictlyUnder(a, b) <=> Under(a, b) /\ a # b
         /\ StrictlyUnder(a, b) => Len(a) < Len(b)
         /\ Under(a, c) /\ Under(b, c) /\ Len(a) <= Len(b) => Under(a, b)
<1>1. \A x, y \in Path : Under(x, y) <=> Len(x) <= Len(y) /\ \A i \in 1 .. Len(x) : x[i] = y[i]
  BY PrefixIs DEF Path, Under
<1>2. \A x, y \in Path : Len(x) = Len(y) /\ (\A i \in 1 .. Len(x) : x[i] = y[i]) => x = y
  BY SeqEqual DEF Path
<1>3. Root \in Path /\ Len(Root) = 0
  BY RootIsPath
<1>4. \A x \in Path : Len(x) \in Nat /\ (Len(x) = 0 => x = Root)
  BY <1>2, <1>3, LenIs
<1>5. \A x, y : StrictlyUnder(x, y) <=> Under(x, y) /\ x # y
  BY DEF StrictlyUnder, Under, IsStrictPrefix
<1>6. Under(Root, a) /\ Under(a, a) /\ (Under(a, Root) => a = Root)
  BY <1>1, <1>3, <1>4
<1>7. Under(a, b) /\ Len(a) = Len(b) => a = b
  BY <1>1, <1>2
<1>. QED BY <1>1, <1>3, <1>4, <1>5, <1>6, <1>7

\* A bounded set of numbers has a largest.
LEMMA MostNumber ==
  ASSUME NEW T, T \subseteq Nat, T # {}, NEW N \in Nat, \A n \in T : n <= N
  PROVE  \E n \in T : \A m \in T : m <= n
<1>. DEFINE U == {k \in Nat : N - k \in T}
<1>1. U \subseteq Nat /\ U # {}
  <2>1. PICK n \in T : TRUE
    OBVIOUS
  <2>2. N - n \in Nat /\ N - (N - n) = n
    BY <2>1
  <2>. QED BY <2>1, <2>2
<1>2. \E k \in U : \A l \in U : ~ (<<l, k>> \in OpToRel(<, Nat))
  BY <1>1, WFMin, NatLessThanWellFounded
<1>3. PICK k \in U : \A l \in U : ~ (l < k)
  BY <1>2 DEF OpToRel
<1>4. ASSUME NEW m \in T PROVE m <= N - k
  <2>1. N - m \in Nat /\ N - (N - m) = m
    BY <1>4
  <2>2. N - m \in U
    BY <2>1
  <2>3. ~ (N - m < k)
    <3>. HIDE DEF U
    <3>. QED BY <1>3, <2>2
  <2>4. k \in Nat /\ m \in Nat
    BY <1>4
  <2>. QED BY <2>3, <2>4
<1>5. N - k \in T
  OBVIOUS
<1>. QED BY <1>4, <1>5

\* A file is in a directory of its own.
LEMMA FrontIs ==
  ASSUME NEW f \in Path \ {Root}
  PROVE  /\ Front(f) \in Path /\ Len(Front(f)) = Len(f) - 1
         /\ StrictlyUnder(Front(f), f)
<1>1. f \in Seq(STRING)
  BY Zenon DEF Path
<1>2. Len(f) \in Nat /\ Len(f) # 0 /\ DOMAIN f = 1 .. Len(f)
  <2>1. Len(f) \in Nat /\ DOMAIN f = 1 .. Len(f)
    BY <1>1
  <2>2. Len(f) # 0
    BY <1>1, EmptySeq DEF Root
  <2>. QED BY <2>1, <2>2
<1>3. /\ Front(f) \in Seq(STRING) /\ Len(Front(f)) = Len(f) - 1
      /\ \A i \in 1 .. Len(f) - 1 : Front(f)[i] = f[i]
  <2>. DEFINE n == Len(f) - 1
  <2>1. n \in Int /\ n - 1 + 1 = n /\ (~(1 <= n) => n = 0)
    BY <1>2
  <2>2. \A i \in 1 .. n : f[i] \in STRING
    BY <1>1, <1>2
  <2>3. Front(f) = SubSeq(f, 1, n)
    BY DEF Front
  <2>. HIDE DEF n
  <2>4. /\ SubSeq(f, 1, n) \in Seq(STRING) /\ Len(SubSeq(f, 1, n)) = IF 1 <= n THEN n - 1 + 1 ELSE 0
        /\ \A i \in 1 .. n - 1 + 1 : SubSeq(f, 1, n)[i] = f[1 + i - 1]
    BY <2>1, <2>2, SubSeqProperties
  <2>5. \A i \in 1 .. n : SubSeq(f, 1, n)[i] = f[i]
    BY <2>1, <2>4
  <2>. QED BY <2>1, <2>3, <2>4, <2>5 DEF n
<1>4. DOMAIN Front(f) = 1 .. Len(f) - 1
  BY <1>3
<1>5. \A n \in DOMAIN Front(f) : n \in DOMAIN f /\ Front(f)[n] = f[n]
  BY <1>2, <1>3, <1>4
<1>6. \A n \in DOMAIN f : f[n] # ""
  BY Zenon DEF Path
<1>7. \A n \in DOMAIN Front(f) : Front(f)[n] # ""
  BY <1>5, <1>6, Zenon
<1>8. Front(f) \in Path
  BY <1>3, <1>7, Zenon DEF Path
<1>9. Under(Front(f), f)
  <2>1. Len(f) - 1 <= Len(f)
    BY <1>2
  <2>2. IsPrefix(Front(f), f)
    BY <1>1, <1>3, <2>1, PrefixIs
  <2>. QED BY <2>2 DEF Under
<1>10. Front(f) # f
  BY <1>2, <1>3
<1>. QED BY <1>3, <1>8, <1>9, <1>10, UnderFacts

\* The mark of no project is none of the paths.
LEMMA NoProjectIsNoPath ==
  NoProject \notin Path
<1>1. NoProject \in Path => \A n \in DOMAIN NoProject : NoProject[n] # ""
  BY Zenon DEF Path
<1>2. 1 \in DOMAIN NoProject /\ NoProject[1] = ""
  BY DEF NoProject
<1>. QED BY <1>1, <1>2, Zenon

(***************************************************************************)
(* Types.                                                                  *)
(***************************************************************************)

Shapes ==
  /\ cwd \in Dirs /\ widen \in Widens /\ ready \in BOOLEAN /\ seed.walked \in BOOLEAN
  /\ tree \subseteq FirstTree \cup Volatile /\ files \cup seed.files \subseteq FirstTree \cup Volatile
  /\ \A p \in projects : p.type \in Types /\ p.path \in Path
  /\ ignoreFile \in RuleFiles /\ rules \in Seq(KnownRules)
  /\ request \in Requests \cup {Idle}
  /\ \A t \in TasksOf(plan) : t.tool \in Tools /\ t.coverage \in {"complete", "partial"}
  /\ plans \in 0 .. MaxPlans /\ edits \in 0 .. MaxEdits

\* What a tool contributes is its own.
LEMMA TaskOfPlan ==
  ASSUME NEW r, NEW t \in TasksOf(PlanFor(r))
  PROVE  t.tool \in Tools /\ t.coverage \in {"complete", "partial"}
<1>1. PICK tool \in Runnable(r.op) : \E o, sel : t \in Collect(tool, o, sel).tasks
  BY TasksOfPlan
<1>2. PICK o, d, fs, c : c \in {"complete", "partial"} /\ t = TaskWith(tool, o, d, fs, c)
  BY <1>1, TaskOfTool
<1>3. tool \in Tools
  BY DEF Runnable, Considered
<1>. QED BY <1>2, <1>3, TaskWithIs

\* What a walk detects are directories of paths.
LEMMA Walked ==
  ASSUME NEW walked, walked \subseteq FirstTree \cup Volatile
  PROVE  \A p \in DetectAll(walked) : p.type \in Types /\ p.path \in Path
<1>. SUFFICES ASSUME NEW p \in DetectAll(walked) PROVE p.type \in Types /\ p.path \in Path
  OBVIOUS
<1>1. PICK y \in Types, f \in walked : p = [type |-> y, path |-> Front(f)]
  BY DEF DetectAll, Matching
<1>2. f \in Path \ {Root}
  BY PathsAssumption DEF Known
<1>. QED BY <1>1, <1>2, FrontIs

\* The shape of the state is kept by every operation.
LEMMA ShapesHold == Spec => []Shapes
<1>1. Init => Shapes
  <2>. SUFFICES ASSUME Init PROVE Shapes
    OBVIOUS
  <2>1. TasksOf(plan) = {}
    BY DEF Init, NoPlan, TasksOf
  <2>2. rules \in Seq(KnownRules)
    BY EmptySeq DEF Init
  <2>3. 0 \in 0 .. MaxPlans /\ 0 \in 0 .. MaxEdits
    BY PathsAssumption
  <2>4. NoSeed.walked = FALSE /\ NoSeed.files = {}
    BY DEF NoSeed
  <2>. QED BY <2>1, <2>2, <2>3, <2>4 DEF Init, Shapes
<1>2. Shapes /\ [Next]_vars => Shapes'
  <2>. SUFFICES ASSUME Shapes, [Next]_vars PROVE Shapes'
    OBVIOUS
  <2>1. CASE SeedFiles
    BY <2>1 DEF SeedFiles, Shapes, Walk, memos, disk, TasksOf
  <2>2. CASE Invalidate
    BY <2>2, EmptySeq DEF Invalidate, Shapes, NoSeed, disk, TasksOf
  <2>3. ASSUME NEW r \in Requests, BeginPlan(r) PROVE Shapes'
    <3>1. plan' = NoPlan /\ TasksOf(NoPlan) = {}
      BY <2>3 DEF BeginPlan, NoPlan, TasksOf
    <3>2. plans' \in 0 .. MaxPlans
      BY <2>3, PathsAssumption DEF BeginPlan, Shapes
    <3>3. ASSUME ~ready, InitializeCache
          PROVE  /\ ready' \in BOOLEAN /\ files' \subseteq FirstTree \cup Volatile /\ seed' = NoSeed
                 /\ \A p \in projects' : p.type \in Types /\ p.path \in Path
                 /\ rules' \in Seq(KnownRules)
      <4>. DEFINE walked == IF seed.walked THEN seed.files ELSE Walk
      <4>1. walked \subseteq FirstTree \cup Volatile
        BY DEF Shapes, Walk
      <4>2. /\ files' = walked /\ projects' = DetectAll(walked) /\ seed' = NoSeed
            /\ ready' = (IgnoreFile \in walked => IgnoreFile \in tree /\ ignoreFile # Malformed)
            /\ rules' = IF ~ready' THEN <<>> ELSE ConfigRules \o (IF IgnoreFile \in walked THEN ignoreFile ELSE <<>>)
        BY <3>3, Zenon DEF InitializeCache
      <4>3. ready' \in BOOLEAN
        BY <4>2, Zenon
      <4>4. rules' \in Seq(KnownRules)
        <5>1. ConfigRules \in Seq(KnownRules) /\ ignoreFile \in Seq(KnownRules) /\ <<>> \in Seq(KnownRules)
          BY PathsAssumption, EmptySeq DEF Shapes
        <5>. QED BY <4>2, <5>1, ConcatProperties
      <4>. QED BY <4>1, <4>2, <4>3, <4>4, Walked
    <3>4. /\ ready' \in BOOLEAN /\ files' \subseteq FirstTree \cup Volatile
          /\ seed'.walked \in BOOLEAN /\ seed'.files \subseteq FirstTree \cup Volatile
          /\ \A p \in projects' : p.type \in Types /\ p.path \in Path
          /\ rules' \in Seq(KnownRules)
      <4>1. CASE ready
        BY <2>3, <4>1 DEF BeginPlan, walk, Shapes
      <4>2. CASE ~ready
        <5>1. InitializeCache
          BY <2>3, <4>2, Zenon DEF BeginPlan
        <5>2. NoSeed.walked = FALSE /\ NoSeed.files = {}
          BY DEF NoSeed
        <5>. QED BY <3>3, <4>2, <5>1, <5>2
      <4>. QED BY <4>1, <4>2
    <3>. QED BY <2>3, <3>1, <3>2, <3>4 DEF BeginPlan, disk, Shapes
  <2>4. CASE FinishPlan
    <3>1. plan' \in {PlanFor(request), NoPlan}
      BY <2>4 DEF FinishPlan
    <3>2. TasksOf(NoPlan) = {}
      BY DEF NoPlan, TasksOf
    <3>3. \A t \in TasksOf(plan') : t.tool \in Tools /\ t.coverage \in {"complete", "partial"}
      BY <3>1, <3>2, TaskOfPlan
    <3>. QED BY <2>4, <3>3 DEF FinishPlan, disk, walk, Shapes, TasksOf
  <2>5. ASSUME NEW t \in TasksOf(plan), NEW limit \in Limits, Chunk(t, limit) PROVE Shapes'
    BY <2>5 DEF Chunk, Shapes, disk, walk, TasksOf
  <2>6. ASSUME NEW f \in Volatile, EditTree(f) PROVE Shapes'
    <3>1. edits' \in 0 .. MaxEdits
      BY <2>6, PathsAssumption DEF EditTree, Shapes
    <3>. QED BY <2>6, <3>1 DEF EditTree, Shapes, walk, TasksOf
  <2>7. ASSUME NEW c \in RuleFiles, EditRules(c) PROVE Shapes'
    <3>1. edits' \in 0 .. MaxEdits
      BY <2>7, PathsAssumption DEF EditRules, Shapes
    <3>. QED BY <2>7, <3>1 DEF EditRules, Shapes, walk, TasksOf
  <2>8. CASE UNCHANGED vars
    BY <2>8 DEF vars, Shapes, disk, walk, TasksOf
  <2>. QED BY <2>1, <2>2, <2>3, <2>4, <2>5, <2>6, <2>7, <2>8 DEF Next
<1>. QED BY <1>1, <1>2, PTL DEF Spec

\* The walk, the memos, the plan and the counters stay within their types.
THEOREM TypeCorrect == Spec => []TypeOK
<1>1. Shapes /\ MemosInvariant => TypeOK
  BY DEF Shapes, MemosInvariant, MemosTrue, TypeOK
<1>. QED BY <1>1, ShapesHold, MemosSound, PTL

(***************************************************************************)
(* What a tool is given.                                                   *)
(***************************************************************************)

\* The files an operation is looked up in.
Pool(sel) == IF sel.mode = "paths" THEN sel.paths ELSE files

\* A planner with its walk and memos in order.
Sound == Shapes /\ MemosInvariant /\ ready

\* What an operation matches, however the memo of its globs stands.
LEMMA MatchFilesIs ==
  ASSUME MemosTrue, NEW sel, NEW o
  PROVE  MatchFiles(sel, o) = {f \in Pool(sel) : Matches(f, o.globs) /\ ~Matches(f, o.exclude)}
<1>1. Swept(o.globs) = Matching(files, o.globs)
  BY DEF MemosTrue, Swept
<1>. QED BY <1>1 DEF MatchFiles, Matching, Pool

\* The four selections, and when each is made (newSelection).
LEMMA SelectionIs ==
  ASSUME NEW r \in Requests
  PROVE  LET sel == NewSelection(r.paths, r.fileScoped)
         IN  \/ sel.mode = "paths" /\ sel.paths = r.paths
             \/ sel.mode = "empty"
             \/ sel.mode = "subtree" /\ sel.dir = cwd /\ cwd # Root
             \/ sel.mode = "all" /\ sel = All /\ cwd = Root
<1>1. CASE r.paths # {}
  BY <1>1 DEF NewSelection
<1>2. CASE r.paths = {} /\ r.fileScoped
  BY <1>2 DEF NewSelection
<1>3. CASE r.paths = {} /\ ~r.fileScoped /\ cwd # Root
  BY <1>3 DEF NewSelection
<1>4. CASE r.paths = {} /\ ~r.fileScoped /\ cwd = Root
  BY <1>4 DEF NewSelection, All
<1>. QED BY <1>1, <1>2, <1>3, <1>4

\* The files a request may be about are known, and none is a directory to stand in.
LEMMA PoolKnown ==
  ASSUME Shapes, NEW r \in Requests
  PROVE  /\ Pool(NewSelection(r.paths, r.fileScoped)) \subseteq Known
         /\ files \subseteq Known /\ Known \subseteq Path \ {Root} /\ cwd \in Path \ Known
<1>1. r.paths \subseteq Known
  BY DEF Known
<1>2. files \subseteq Known
  BY DEF Shapes, Known
<1>. QED BY <1>1, <1>2, SelectionIs, PathsAssumption DEF Pool, Shapes

Near(tool, restrict) == IF restrict THEN NearCwd(ProjectsFor(tool)) ELSE ProjectsFor(tool)

\* The directories a tool is run in are paths, those near the current one among them.
LEMMA NearKnown ==
  ASSUME Shapes, NEW tool, NEW restrict
  PROVE  /\ ProjectsFor(tool) \subseteq Path
         /\ Near(tool, restrict) \subseteq ProjectsFor(tool)
<1>1. ProjectsFor(tool) \subseteq Path
  BY DEF ProjectsFor, Shapes
<1>2. \A ds : NearCwd(ds) \subseteq ds
  BY DEF NearCwd
<1>. QED BY <1>1, <1>2 DEF Near

\* The nearest directory of a file is above it, and no other is nearer.
LEMMA NearestIs ==
  ASSUME NEW f \in Path \ {Root}, NEW ds, ds \subseteq Path
  PROVE  /\ Nearest(f, ds) \in Path /\ StrictlyUnder(Nearest(f, ds), f)
         /\ Nearest(f, ds) \in ds \/ Nearest(f, ds) = Root
         /\ \A d \in ds : StrictlyUnder(d, f) => /\ Nearest(f, ds) \in ds
                                                  /\ Len(d) <= Len(Nearest(f, ds))
<1>. DEFINE above == {d \in ds : StrictlyUnder(d, f)}
<1>1. Root \in Path
  BY RootIsPath
<1>2. CASE above = {}
  BY <1>1, <1>2, UnderFacts DEF Nearest
<1>3. CASE above # {}
  <2>. DEFINE Lens == {Len(d) : d \in above}
  <2>1. Lens \subseteq Nat /\ Lens # {} /\ Len(f) \in Nat /\ \A n \in Lens : n <= Len(f)
    <3>1. Len(f) \in Nat
      BY LenIs
    <3>2. ASSUME NEW d \in above PROVE Len(d) \in Nat /\ Len(d) <= Len(f)
      <4>1. d \in Path /\ StrictlyUnder(d, f)
        OBVIOUS
      <4>2. Len(d) \in Nat /\ Len(d) < Len(f)
        BY <4>1, LenIs, UnderFacts
      <4>. QED BY <3>1, <4>2
    <3>3. Lens # {}
      BY <1>3
    <3>. QED BY <3>1, <3>2, <3>3
  <2>2. PICK n \in Lens : \A m \in Lens : m <= n
    BY <2>1, MostNumber
  <2>3. PICK d \in above : \A e \in above : Len(e) <= Len(d)
    BY <2>2
  <2>4. Nearest(f, ds) = CHOOSE x \in above : \A e \in above : Len(e) <= Len(x)
    BY <1>3 DEF Nearest
  <2>5. Nearest(f, ds) \in above /\ \A e \in above : Len(e) <= Len(Nearest(f, ds))
    BY <2>3, <2>4
  <2>. QED BY <2>5
<1>. QED BY <1>2, <1>3

Reach(restrict, d) == ~restrict \/ Under(cwd, d) \/ Under(d, cwd)
Kept(tool, given, restrict) ==
  {s \in Shares(given, Near(tool, restrict), restrict) : ~IsProjectDisabled(tool, s.project)}

\* groupFilesByProject, in the names of this module.
LEMMA PerProjectIs ==
  ASSUME NEW tool, NEW given, NEW restrict
  PROVE  PerProject(tool, given, restrict)
           = OrFallback(tool, given, restrict, Near(tool, restrict), Kept(tool, given, restrict))
  BY Zenon DEF PerProject, Near, Kept

\* A share holds the files of one directory, and every file within reach is in one.
LEMMA SharesAre ==
  ASSUME NEW given, NEW near, NEW restrict, NEW s
  PROVE  s \in Shares(given, near, restrict) <=>
           \/ given = {} /\ \E d \in near : s = Share(d, {})
           \/ \E f \in given : /\ Reach(restrict, Nearest(f, near))
                               /\ s = Share(Nearest(f, near), {g \in given : Nearest(g, near) = Nearest(f, near)})
  BY DEF Shares, Share, Reach

\* The parts of a share.
LEMMA ShareProject ==
  ASSUME NEW d, NEW own
  PROVE  Share(d, own).project = d /\ Share(d, own).files = own
  BY DEF Share

\* The files of a task are those of its directory, or all where there is none.
IsShare(tool, given, restrict, d, own) ==
  \/ /\ d = NoProject /\ own = given /\ (restrict => cwd = Root)
     /\ Near(tool, restrict) = {} \/ (given # {} /\ Kept(tool, given, restrict) = {})
  \/ /\ d \in Path /\ ~IsProjectDisabled(tool, d)
     /\ own = {f \in given : Nearest(f, Near(tool, restrict)) = d}
     /\ Near(tool, restrict) # {} /\ PerProject(tool, given, restrict) = Kept(tool, given, restrict)

\* Every share groupFilesByProject returns is of one of the two kinds.
LEMMA ShareFacts ==
  ASSUME Shapes, NEW tool, NEW given, given \subseteq Known, NEW restrict \in BOOLEAN,
         NEW d, NEW own, Share(d, own) \in PerProject(tool, given, restrict)
  PROVE  IsShare(tool, given, restrict, d, own)
<1>. DEFINE near == Near(tool, restrict)
            kept == Kept(tool, given, restrict)
<1>1. Share(d, own) \in OrFallback(tool, given, restrict, near, kept)
  BY PerProjectIs, Zenon
<1>2. CASE near # {} /\ (given = {} \/ kept # {})
  <2>1. PerProject(tool, given, restrict) = kept
    BY <1>2, PerProjectIs DEF OrFallback
  <2>2. Share(d, own) \in Shares(given, near, restrict) /\ ~IsProjectDisabled(tool, d)
    BY <2>1, ShareProject DEF Kept
  <2>3. near \subseteq Path
    BY NearKnown
  <2>4. CASE given = {}
    <3>1. PICK e \in near : Share(d, own) = Share(e, {})
      <4>. HIDE DEF near
      <4>1. ~ \E f \in given : /\ Reach(restrict, Nearest(f, near))
                               /\ Share(d, own) = Share(Nearest(f, near), {g \in given : Nearest(g, near) = Nearest(f, near)})
        BY <2>4
      <4>. QED BY <2>2, <4>1, SharesAre
    <3>2. d = e /\ own = {}
      BY <3>1, ShareProject
    <3>. QED BY <1>2, <2>1, <2>2, <2>3, <2>4, <3>2 DEF IsShare
  <2>5. CASE given # {}
    <3>1. PICK f \in given :
            Share(d, own) = Share(Nearest(f, near), {g \in given : Nearest(g, near) = Nearest(f, near)})
      BY <2>2, <2>5, SharesAre
    <3>2. d = Nearest(f, near) /\ own = {g \in given : Nearest(g, near) = d}
      BY <3>1, ShareProject
    <3>3. f \in Path \ {Root}
      BY PathsAssumption
    <3>4. d \in Path
      BY <2>3, <3>2, <3>3, NearestIs
    <3>. QED BY <1>2, <2>1, <2>2, <3>2, <3>4 DEF IsShare
  <2>. QED BY <2>4, <2>5
<1>3. CASE ~(near # {} /\ (given = {} \/ kept # {}))
  <2>1. Share(d, own) = Share(NoProject, given) /\ ~(restrict /\ cwd # Root)
    BY <1>1, <1>3 DEF OrFallback, Share
  <2>2. d = NoProject /\ own = given
    BY <2>1, ShareProject
  <2>. QED BY <1>3, <2>1, <2>2 DEF IsShare
<1>. QED BY <1>2, <1>3

\* A file whose project the rules leave alone is in the share of its project.
LEMMA ShareExists ==
  ASSUME Shapes, NEW tool, NEW given, given \subseteq Known, NEW restrict \in BOOLEAN, NEW f \in given,
         Reach(restrict, Nearest(f, Near(tool, restrict))),
         ~IsProjectDisabled(tool, Nearest(f, Near(tool, restrict))),
         Near(tool, restrict) # {} \/ (restrict => cwd = Root)
  PROVE  \E d, own : Share(d, own) \in PerProject(tool, given, restrict) /\ f \in own
<1>. DEFINE near == Near(tool, restrict)
            kept == Kept(tool, given, restrict)
            d == Nearest(f, near)
            own == {g \in given : Nearest(g, near) = d}
<1>1. Share(d, own) \in kept
  <2>1. Share(d, own) \in Shares(given, near, restrict)
    BY SharesAre
  <2>. QED BY <2>1, ShareProject DEF Kept
<1>2. CASE near # {}
  <2>1. PerProject(tool, given, restrict) = kept
    BY <1>1, <1>2, PerProjectIs DEF OrFallback
  <2>. QED BY <1>1, <2>1
<1>3. CASE near = {}
  <2>1. d = Root
    BY <1>3 DEF Nearest
  <2>2. Share(NoProject, given) \in PerProject(tool, given, restrict)
    BY <1>3, <2>1, PerProjectIs DEF OrFallback, Share
  <2>. QED BY <2>2
<1>. QED BY <1>2, <1>3

(***************************************************************************)
(* The tasks of each scope.                                                *)
(***************************************************************************)

Given(tool, o, sel) == Enabled(tool, ToCwd(sel, MatchFiles(sel, o)))

\* What a repository task is given, where it may run at all.
WholeGiven(tool, o, sel) ==
  LET matched == MatchFiles(IF InferGranularity(o) = "repo" /\ widen = "repo" THEN All ELSE sel, o)
  IN  Enabled(tool, IF InferGranularity(o) = "file" THEN ToCwd(sel, matched) ELSE matched)

\* The files an operation is given one by one.
LEMMA GivenIs ==
  ASSUME MemosTrue, NEW tool, NEW o, NEW sel
  PROVE  Given(tool, o, sel) = {f \in Pool(sel) : /\ Matches(f, o.globs) /\ ~Matches(f, o.exclude)
                                                  /\ sel.mode = "paths" \/ Under(cwd, f)
                                                  /\ ~IsDisabled(tool, f)}
  BY MatchFilesIs DEF Given, Enabled, ToCwd

\* The task of a repository operation, and where it may run.
LEMMA RepositoryTaskIs ==
  ASSUME NEW tool, NEW o, NEW sel, o.scope = "repository", NEW t \in Collect(tool, o, sel).tasks
  PROVE  /\ t = TaskOf(tool, o, Root, WholeGiven(tool, o, sel))
         /\ InferGranularity(o) = "repo" => cwd = Root \/ widen = "repo"
         /\ o.globs # {} => WholeGiven(tool, o, sel) # {}
<1>1. t \in RepositoryTask(tool, o, sel).tasks
  BY DEF Collect
<1>2. RepositoryTask(tool, o, sel)
        = IF InferGranularity(o) = "repo" /\ cwd # Root /\ widen # "repo" THEN [tasks |-> {}, narrowedAway |-> TRUE]
          ELSE IF (o.globs = {} /\ IsProjectDisabled(tool, Root)) \/ (o.globs # {} /\ WholeGiven(tool, o, sel) = {})
          THEN Nothing
          ELSE [tasks |-> {TaskOf(tool, o, Root, WholeGiven(tool, o, sel))}, narrowedAway |-> FALSE]
  BY Zenon DEF RepositoryTask, WholeGiven
<1>. QED BY <1>1, <1>2 DEF Nothing

FileTask(tool, o, f) == TaskOf(tool, o, Front(f), {f})

\* The tasks of a per-file operation are of one file each.
LEMMA FileTaskIs ==
  ASSUME NEW tool, NEW o, NEW sel, o.scope = "per-file", NEW t \in Collect(tool, o, sel).tasks
  PROVE  \E f \in Given(tool, o, sel) : t = FileTask(tool, o, f)
  BY DEF Collect, FileTasks, Given, FileTask

\* The tasks of a per-project operation are of units.
LEMMA ProjectTaskIs ==
  ASSUME NEW tool, NEW o, NEW sel, o.scope \notin {"repository", "per-file"},
         NEW t \in Collect(tool, o, sel).tasks
  PROVE  \E d, own, fs : IsUnitTask(tool, o, sel, Given(tool, o, sel), t, d, own, fs)
<1>1. t \in ProjectTasks(tool, o, sel).tasks
  BY DEF Collect
<1>2. t \in UnitTasks(tool, o, sel, Given(tool, o, sel)).tasks
  BY <1>1 DEF ProjectTasks, Nothing, Given
<1>. QED BY <1>2, UnitTaskIs

\* Its fields.
LEMMA TaskFields ==
  ASSUME NEW tool, NEW o, NEW d, NEW fs
  PROVE  LET t == TaskOf(tool, o, d, fs)
         IN  /\ t.tool = tool /\ t.op = o /\ t.project = d /\ t.files = fs
             /\ InferGranularity(o) # "file" => t.coverage = CoverageFor(tool, o, UnitMembers(UnitOf(d)), fs)
  BY TaskIs, TaskWithIs

\* A share holds files that were given.
LEMMA ShareGiven ==
  ASSUME Shapes, NEW tool, NEW given, given \subseteq Known, NEW restrict \in BOOLEAN,
         NEW d, NEW own, Share(d, own) \in PerProject(tool, given, restrict)
  PROVE  own \subseteq given
<1>1. IsShare(tool, given, restrict, d, own)
  BY ShareFacts
<1>. QED BY <1>1 DEF IsShare

\* The files of a unit are those of its share of all the files.
LEMMA UnitFilesIs ==
  ASSUME Sound, NEW tool, NEW o, NEW d, NEW f \in UnitFiles(tool, o, d)
  PROVE  /\ f \in Enabled(tool, MatchFiles(All, o))
         /\ \E own : /\ Share(d, own) \in PerProject(tool, Enabled(tool, MatchFiles(All, o)), FALSE)
                     /\ f \in own
<1>. DEFINE given == Enabled(tool, MatchFiles(All, o))
<1>1. given \subseteq Known
  <2>1. given \subseteq files
    BY MatchFilesIs DEF Enabled, Pool, All, Sound, MemosInvariant
  <2>2. files \subseteq Known
    BY DEF Sound, Shapes, Known
  <2>. QED BY <2>1, <2>2
<1>2. PICK s \in PerProject(tool, given, FALSE) : s.project = d /\ f \in s.files
  BY Zenon DEF UnitFiles
<1>3. PICK e, own : s = Share(e, own)
  <2>1. s \in PerProject(tool, given, TRUE) \cup PerProject(tool, given, FALSE)
    BY <1>2
  <2>. HIDE DEF given
  <2>. QED BY <2>1, ShareIs
<1>4. e = d /\ f \in own
  BY <1>2, <1>3, ShareProject
<1>. QED BY <1>1, <1>2, <1>3, <1>4, ShareGiven DEF Sound

\* The files of a task match the globs of its operation.
LEMMA FilesMatch ==
  ASSUME Sound, NEW r \in Requests, NEW t \in TasksOf(PlanFor(r))
  PROVE  t.files \subseteq {f \in Known : Matches(f, t.op.globs)}
<1>. DEFINE sel == PlanFor(r).sel
<1>1. PICK tool \in Runnable(r.op) : t \in Collect(tool, ToolOf[tool].ops[r.op], sel).tasks
  BY TasksOfPlan
<1>. DEFINE o == ToolOf[tool].ops[r.op]
<1>2. Pool(sel) \subseteq Known /\ files \subseteq Known
  BY TasksOfPlan, PoolKnown DEF Sound
<1>3. MemosTrue /\ Shapes
  BY DEF Sound, MemosInvariant
<1>4. Pool(All) = files
  BY DEF Pool, All
<1>5. Given(tool, o, sel) \subseteq {f \in Known : Matches(f, o.globs)}
  <2>. HIDE DEF o, sel
  <2>. QED BY <1>2, <1>3, GivenIs
<1>. HIDE DEF sel, o
<1>6. CASE o.scope = "repository"
  <2>1. t = TaskOf(tool, o, Root, WholeGiven(tool, o, sel))
    BY <1>1, <1>6, RepositoryTaskIs DEF o
  <2>2. \A s \in {sel, All} : MatchFiles(s, o) \subseteq {f \in Known : Matches(f, o.globs)}
    BY <1>2, <1>3, <1>4, MatchFilesIs
  <2>3. WholeGiven(tool, o, sel) \subseteq {f \in Known : Matches(f, o.globs)}
    BY <2>2 DEF WholeGiven, Enabled, ToCwd
  <2>. QED BY <2>1, <2>3, TaskFields
<1>7. CASE o.scope = "per-file"
  <2>1. PICK f \in Given(tool, o, sel) : t = FileTask(tool, o, f)
    BY <1>1, <1>7, FileTaskIs DEF o
  <2>. QED BY <1>5, <2>1, TaskFields DEF FileTask
<1>8. CASE o.scope \notin {"repository", "per-file"}
  <2>1. PICK d, own, fs : IsUnitTask(tool, o, sel, Given(tool, o, sel), t, d, own, fs)
    BY <1>1, <1>8, ProjectTaskIs DEF o
  <2>2. t.op = o /\ t.files = fs
    BY <2>1, TaskFields, TaskWithIs DEF IsUnitTask
  <2>3. own \subseteq {f \in Known : Matches(f, o.globs)}
    BY <1>3, <1>5, <2>1, ShareGiven DEF IsUnitTask
  <2>4. UnitFiles(tool, o, d) \subseteq {f \in Known : Matches(f, o.globs)}
    <3>1. UnitFiles(tool, o, d) \subseteq MatchFiles(All, o)
      BY UnitFilesIs DEF Enabled
    <3>. QED BY <1>2, <1>3, <1>4, <3>1, MatchFilesIs
  <2>. QED BY <2>1, <2>2, <2>3, <2>4 DEF IsUnitTask
<1>. QED BY <1>6, <1>7, <1>8

(***************************************************************************)
(* A plan keeps what held of it when it was made.                          *)
(***************************************************************************)

\* The plan is dropped, or made, or it stays, and then the walk stays or goes.
LEMMA PlanSteps ==
  ASSUME Shapes, MemosInvariant, [Next]_vars
  PROVE  \/ plan' = NoPlan
         \/ /\ Sound /\ request \in Requests /\ plan' = PlanFor(request)
            /\ UNCHANGED <<cwd, widen, ready, files, projects, rules>>
         \/ /\ plan' = plan /\ UNCHANGED <<cwd, widen>>
            /\ UNCHANGED <<ready, files, projects, rules>> \/ (~ready' /\ files' = {})
<1>1. CASE SeedFiles
  BY <1>1 DEF SeedFiles
<1>2. CASE Invalidate
  BY <1>2 DEF Invalidate
<1>3. ASSUME NEW r \in Requests, BeginPlan(r) PROVE plan' = NoPlan
  BY <1>3 DEF BeginPlan
<1>4. CASE FinishPlan
  <2>1. /\ request # Idle /\ plan' \in {PlanFor(request), NoPlan}
        /\ UNCHANGED <<cwd, widen, ready, files, projects, rules>>
    BY <1>4 DEF FinishPlan, walk
  <2>. QED BY <2>1 DEF Sound, Shapes, MemosInvariant
<1>5. ASSUME NEW t \in TasksOf(plan), NEW limit \in Limits, Chunk(t, limit)
      PROVE  UNCHANGED <<plan, cwd, widen, ready, files, projects, rules>>
  BY <1>5 DEF Chunk, walk
<1>6. ASSUME NEW f \in Volatile, EditTree(f)
      PROVE  UNCHANGED <<plan, cwd, widen, ready, files, projects, rules>>
  BY <1>6 DEF EditTree, walk
<1>7. ASSUME NEW c \in RuleFiles, EditRules(c)
      PROVE  UNCHANGED <<plan, cwd, widen, ready, files, projects, rules>>
  BY <1>7 DEF EditRules, walk
<1>8. CASE UNCHANGED vars
  BY <1>8 DEF vars, walk
<1>. QED BY <1>1, <1>2, <1>3, <1>4, <1>5, <1>6, <1>7, <1>8 DEF Next

\* The empty plan has no tasks.
LEMMA NoTasks ==
  TasksOf(NoPlan) = {} /\ DOMAIN NoPlan.groups = {}
  BY DEF TasksOf, NoPlan

(***************************************************************************)
(* Tasks that may run together touch nothing in common.                    *)
(***************************************************************************)

\* Two globs that match one file overlap, as the executor compares them.
LEMMA GlobsThatMeet ==
  ASSUME NEW f \in Known, NEW globs1, NEW globs2, Matches(f, globs1), Matches(f, globs2)
  PROVE  GlobsOverlap(globs1, globs2)
<1>1. PICK g \in globs1 : g.ending \in Endings[Last(f)] \cup {"*"}
  BY DEF Matches
<1>2. PICK h \in globs2 : h.ending \in Endings[Last(f)] \cup {"*"}
  BY DEF Matches
<1>3. \/ "*" \in {g.ending, h.ending} \/ g.ending = h.ending
      \/ <<g.ending, h.ending>> \in SuffixOf \/ <<h.ending, g.ending>> \in SuffixOf
  BY <1>1, <1>2, PathsAssumption
<1>. QED BY <1>3 DEF GlobsOverlap

\* A per-file task is given one file, in that file's directory.
LEMMA FileTaskHasOne ==
  ASSUME NEW r, NEW t \in TasksOf(PlanFor(r)), t.op.scope = "per-file"
  PROVE  \E f : t.files = {f} /\ t.project = Front(f)
<1>. DEFINE sel == PlanFor(r).sel
<1>1. PICK tool \in Runnable(r.op) : t \in Collect(tool, ToolOf[tool].ops[r.op], sel).tasks
  BY TasksOfPlan
<1>2. t.op = ToolOf[tool].ops[r.op]
  BY <1>1, TaskOfTool, TaskWithIs
<1>3. PICK f : t = FileTask(tool, t.op, f)
  BY <1>1, <1>2, FileTaskIs
<1>. QED BY <1>3, TaskFields DEF FileTask

\* The files a task touches, of the plan just made.
LEMMA TouchedMatch ==
  ASSUME Sound, NEW r \in Requests, NEW t \in TasksOf(PlanFor(r))
  PROVE  \A f \in Touched(t) : f \in Known /\ (t.op.globs = {} \/ Matches(f, t.op.globs))
<1>1. files \subseteq Known
  BY DEF Sound, Shapes, Known
<1>. QED BY <1>1, FilesMatch DEF Touched

\* When a plan is made, tasks that do not overlap touch nothing in common.
LEMMA DisjointWhenMade ==
  ASSUME Sound, NEW r \in Requests, NEW t1 \in TasksOf(PlanFor(r)), NEW t2 \in TasksOf(PlanFor(r)),
         t1.project = t2.project, ~HasOverlap(t1, t2), t1 # t2
  PROVE  Touched(t1) \cap Touched(t2) = {}
<1>1. CASE GlobsOverlap(t1.op.globs, t2.op.globs)
  <2>1. t1.op.scope = "per-file" /\ t2.op.scope = "per-file" /\ t1.files # t2.files
    BY <1>1 DEF HasOverlap
  <2>2. PICK f, g : t1.files = {f} /\ t2.files = {g}
    BY <2>1, FileTaskHasOne
  <2>3. Touched(t1) = {f} /\ Touched(t2) = {g}
    BY <2>1, <2>2 DEF Touched
  <2>. QED BY <2>1, <2>2, <2>3
<1>2. CASE ~GlobsOverlap(t1.op.globs, t2.op.globs)
  <2>1. t1.op.globs # {} /\ t2.op.globs # {}
    BY <1>2 DEF GlobsOverlap
  <2>. QED BY <1>2, <2>1, TouchedMatch, GlobsThatMeet
<1>. QED BY <1>1, <1>2

\* Tasks of one priority that HasOverlap lets run together in one directory
\* never touch the same file.
THEOREM DisjointInPlaceHolds == Spec => []DisjointInPlace
<1>1. Init => DisjointInPlace
  BY NoTasks DEF Init, DisjointInPlace
<1>2. Shapes /\ MemosInvariant /\ DisjointInPlace /\ [Next]_vars => DisjointInPlace'
  <2>. SUFFICES ASSUME Shapes, MemosInvariant, DisjointInPlace, [Next]_vars,
                       NEW p \in DOMAIN plan'.groups, NEW t1 \in plan'.groups[p], NEW t2 \in plan'.groups[p],
                       t1 # t2, t1.project = t2.project, ~HasOverlap(t1, t2)
                PROVE  Touched(t1)' \cap Touched(t2)' = {}
    BY DEF DisjointInPlace, HasOverlap, GlobsOverlap
  <2>1. CASE plan' = NoPlan
    BY <2>1, NoTasks
  <2>2. CASE /\ Sound /\ request \in Requests /\ plan' = PlanFor(request)
             /\ UNCHANGED <<cwd, widen, ready, files, projects, rules>>
    <3>1. t1 \in TasksOf(PlanFor(request)) /\ t2 \in TasksOf(PlanFor(request))
      BY <2>2 DEF TasksOf
    <3>2. Touched(t1)' = Touched(t1) /\ Touched(t2)' = Touched(t2)
      BY <2>2 DEF Touched, Matches
    <3>. QED BY <2>2, <3>1, <3>2, DisjointWhenMade
  <2>3. CASE plan' = plan /\ (UNCHANGED files \/ files' = {})
    <3>1. Touched(t1)' \subseteq Touched(t1) /\ Touched(t2)' \subseteq Touched(t2)
      BY <2>3 DEF Touched, Matches
    <3>2. Touched(t1) \cap Touched(t2) = {}
      BY <2>3 DEF DisjointInPlace
    <3>. QED BY <3>1, <3>2
  <2>. QED BY <2>1, <2>2, <2>3, PlanSteps
<1>. QED BY <1>1, <1>2, ShapesHold, MemosSound, PTL DEF Spec

(***************************************************************************)
(* Under "target" nothing outside the selection is touched.                *)
(***************************************************************************)

SelectedBy(sel) == IF sel.mode = "paths" THEN sel.paths ELSE {f \in files : Under(cwd, f)}
OnTarget(t, sel) ==
  \/ Touched(t) \subseteq SelectedBy(sel)
  \/ InferGranularity(t.op) = "repo" /\ cwd = Root

\* What is given file by file was selected.
LEMMA GivenOnTarget ==
  ASSUME Sound, NEW tool, NEW o, NEW sel
  PROVE  Given(tool, o, sel) \subseteq SelectedBy(sel)
  BY GivenIs DEF Sound, MemosInvariant, SelectedBy, Pool

\* A unit that may run under "target" lies in the directory stood in.
LEMMA UnitOnTarget ==
  ASSUME Sound, widen = "target", NEW r \in Requests, NEW sel, sel = NewSelection(r.paths, r.fileScoped),
         NEW tool, NEW given, given \subseteq Known, NEW d, NEW own,
         Share(d, own) \in PerProject(tool, given, TRUE), PermitsUnit(sel, d),
         NEW f \in files, Under(UnitOf(d), f)
  PROVE  f \in SelectedBy(sel)
<1>1. f \in Path \ {Root} /\ cwd \in Path
  BY PoolKnown DEF Sound
<1>2. CASE sel.mode = "all"
  <2>1. cwd = Root
    BY <1>2, SelectionIs
  <2>. QED BY <1>1, <1>2, <2>1, UnderFacts DEF SelectedBy
<1>3. CASE sel.mode # "all"
  <2>1. sel.mode = "subtree" /\ sel.dir = cwd /\ cwd # Root /\ Under(cwd, d)
    BY <1>3, SelectionIs DEF PermitsUnit
  <2>2. IsShare(tool, given, TRUE, d, own)
    BY ShareFacts DEF Sound
  <2>3. d \in Path
    BY <2>1, <2>2 DEF IsShare
  <2>4. UnitOf(d) = d
    BY <2>3, NoProjectIsNoPath DEF UnitOf
  <2>5. Under(cwd, f)
    BY <1>1, <2>1, <2>3, <2>4, UnderFacts
  <2>. QED BY <2>1, <2>5 DEF SelectedBy
<1>. QED BY <1>2, <1>3

\* When a plan is made under "target", no task of it reaches further.
LEMMA OnTargetWhenMade ==
  ASSUME Sound, widen = "target", NEW r \in Requests, NEW t \in TasksOf(PlanFor(r))
  PROVE  OnTarget(t, PlanFor(r).sel)
<1>. DEFINE sel == PlanFor(r).sel
<1>1. PICK tool \in Runnable(r.op) : t \in Collect(tool, ToolOf[tool].ops[r.op], sel).tasks
  BY TasksOfPlan
<1>. DEFINE o == ToolOf[tool].ops[r.op]
<1>2. /\ InferGranularity(o) \in {"file", "unit", "repo"}
      /\ InferGranularity(o) = "file" => ArgsReferenceFiles(o) \/ o.scope = "per-file"
      /\ o.scope = "repository" => InferGranularity(o) # "unit"
  BY OperationsAssumption DEF Runnable, Considered
<1>3. sel = NewSelection(r.paths, r.fileScoped)
  BY TasksOfPlan
<1>. SUFFICES OnTarget(t, sel)
  BY DEF sel
<1>. HIDE DEF sel, o
<1>4. Given(tool, o, sel) \subseteq SelectedBy(sel)
  BY GivenOnTarget
<1>5. CASE o.scope = "repository"
  <2>1. t = TaskOf(tool, o, Root, WholeGiven(tool, o, sel)) /\ (InferGranularity(o) = "repo" => cwd = Root)
    BY <1>1, <1>5, RepositoryTaskIs DEF o
  <2>2. InferGranularity(o) = "file" => WholeGiven(tool, o, sel) = Given(tool, o, sel)
    BY DEF WholeGiven, Given
  <2>3. t.op = o /\ t.files = WholeGiven(tool, o, sel)
    BY <2>1, TaskFields
  <2>. QED BY <1>2, <1>4, <1>5, <2>1, <2>2, <2>3 DEF OnTarget, Touched
<1>6. CASE o.scope = "per-file"
  <2>1. PICK f \in Given(tool, o, sel) : t = FileTask(tool, o, f)
    BY <1>1, <1>6, FileTaskIs DEF o
  <2>2. t.op = o /\ t.files = {f}
    BY <2>1, TaskFields DEF FileTask
  <2>. QED BY <1>4, <1>6, <2>1, <2>2 DEF OnTarget, Touched
<1>7. CASE o.scope \notin {"repository", "per-file"}
  <2>1. PICK d, own, fs : IsUnitTask(tool, o, sel, Given(tool, o, sel), t, d, own, fs)
    BY <1>1, <1>7, ProjectTaskIs DEF o
  <2>2. t.op = o /\ t.files = fs /\ t.project = d
    BY <2>1, TaskFields, TaskWithIs DEF IsUnitTask
  <2>3. Given(tool, o, sel) \subseteq Known
    BY <1>3, GivenIs, PoolKnown DEF Sound, MemosInvariant
  <2>4. Share(d, own) \in PerProject(tool, Given(tool, o, sel), TRUE)
    BY <2>1 DEF IsUnitTask
  <2>5. CASE ArgsReferenceFiles(o) /\ o.granularity # "unit"
    <3>1. fs \subseteq Given(tool, o, sel)
      BY <2>1, <2>3, <2>4, <2>5, ShareGiven DEF IsUnitTask, Sound
    <3>. QED BY <1>4, <2>2, <2>5, <3>1 DEF OnTarget, Touched
  <2>6. CASE ~ArgsReferenceFiles(o)
    <3>1. PermitsUnit(sel, d)
      BY <2>1, <2>6 DEF IsUnitTask
    <3>2. \A f \in Touched(t) : f \in files /\ Under(UnitOf(d), f)
      BY <1>7, <2>2, <2>6 DEF Touched
    <3>3. Touched(t) \subseteq SelectedBy(sel)
      BY <1>3, <2>3, <2>4, <3>1, <3>2, UnitOnTarget
    <3>. QED BY <3>3 DEF OnTarget
  <2>7. CASE ArgsReferenceFiles(o) /\ o.granularity = "unit"
    <3>1. PermitsUnit(sel, d) /\ fs = UnitFiles(tool, o, d)
      BY <2>1, <2>7 DEF IsUnitTask
    <3>2. ASSUME NEW f \in fs PROVE f \in files /\ Under(UnitOf(d), f)
      <4>. DEFINE all == Enabled(tool, MatchFiles(All, o))
      <4>1. PICK most : Share(d, most) \in PerProject(tool, all, FALSE) /\ f \in most
        BY <3>1, <3>2, UnitFilesIs
      <4>2. all \subseteq files
        BY MatchFilesIs DEF Enabled, Pool, All, Sound, MemosInvariant
      <4>3. all \subseteq Known /\ f \in all /\ f \in Path \ {Root}
        BY <3>1, <3>2, <4>2, UnitFilesIs, PoolKnown DEF Sound
      <4>4. IsShare(tool, all, FALSE, d, most)
        <5>. HIDE DEF all
        <5>. QED BY <4>1, <4>3, ShareFacts DEF Sound
      <4>5. CASE d = NoProject
        BY <4>2, <4>3, <4>5, UnderFacts, RootIsPath DEF UnitOf
      <4>6. CASE d # NoProject
        <5>1. Nearest(f, Near(tool, FALSE)) = d
          BY <4>1, <4>4, <4>6 DEF IsShare
        <5>2. Near(tool, FALSE) \subseteq Path
          BY NearKnown DEF Sound
        <5>3. d \in Path /\ StrictlyUnder(d, f)
          BY <4>3, <5>1, <5>2, NearestIs
        <5>. QED BY <4>2, <4>3, <4>6, <5>3, UnderFacts DEF UnitOf
      <4>. QED BY <4>5, <4>6
    <3>3. fs \subseteq SelectedBy(sel)
      BY <1>3, <2>3, <2>4, <3>1, <3>2, UnitOnTarget
    <3>. QED BY <2>2, <2>7, <3>3 DEF OnTarget, Touched
  <2>. QED BY <2>5, <2>6, <2>7
<1>. QED BY <1>5, <1>6, <1>7

\* Under "target" no task ever touches a file outside the selection, but for a
\* tool whose verdict is about the repository, run from its root.
THEOREM StaysOnTargetHolds == Spec => []StaysOnTarget
<1>1. Init => StaysOnTarget
  BY NoTasks DEF Init, StaysOnTarget, Planned
<1>2. Shapes /\ MemosInvariant /\ StaysOnTarget /\ [Next]_vars => StaysOnTarget'
  <2>. SUFFICES ASSUME Shapes, MemosInvariant, StaysOnTarget, [Next]_vars,
                       widen' = "target", ready', NEW t \in TasksOf(plan')
                PROVE  \/ Touched(t)' \subseteq Selected'
                       \/ InferGranularity(t.op) = "repo" /\ cwd' = Root
    BY DEF StaysOnTarget, Planned, TasksOf
  <2>1. CASE plan' = NoPlan
    BY <2>1, NoTasks
  <2>2. CASE /\ Sound /\ request \in Requests /\ plan' = PlanFor(request)
             /\ UNCHANGED <<cwd, widen, ready, files, projects, rules>>
    <3>1. OnTarget(t, PlanFor(request).sel)
      BY <2>2, OnTargetWhenMade
    <3>2. Touched(t)' = Touched(t) /\ Selected' = SelectedBy(PlanFor(request).sel)
      BY <2>2 DEF Touched, Matches, Selected, SelectedBy, Under
    <3>. QED BY <2>2, <3>1, <3>2 DEF OnTarget
  <2>3. CASE plan' = plan /\ UNCHANGED <<cwd, widen, ready, files, projects, rules>>
    <3>1. Touched(t)' = Touched(t) /\ Selected' = Selected
      BY <2>3 DEF Touched, Matches, Selected, Under
    <3>2. \/ Touched(t) \subseteq Selected
          \/ InferGranularity(t.op) = "repo" /\ cwd = Root
      BY <2>3 DEF StaysOnTarget, Planned
    <3>. QED BY <2>3, <3>1, <3>2
  <2>. QED BY <2>1, <2>2, <2>3, PlanSteps
<1>. QED BY <1>1, <1>2, ShapesHold, MemosSound, PTL DEF Spec

(***************************************************************************)
(* A task said to cover its unit was given all of it.                      *)
(***************************************************************************)

FullOf(t) ==
  {f \in Enabled(t.tool, Matching(files, t.op.globs)) :
     ~Matches(f, t.op.exclude) /\ Nearest(f, ProjectsFor(t.tool)) = UnitOf(t.project)}
Covering(t) ==
  t.coverage = "complete" /\ InferGranularity(t.op) # "file" /\ ArgsReferenceFiles(t.op) =>
    FullOf(t) \subseteq t.files

\* A task that attachUnit made: what lies nearest its directory is a member.
LEMMA CoveringTask ==
  ASSUME Sound, NEW tool, NEW o, NEW d, NEW fs
  PROVE  Covering(TaskOf(tool, o, d, fs))
<1>. DEFINE t == TaskOf(tool, o, d, fs)
<1>1. t.tool = tool /\ t.op = o /\ t.project = d /\ t.files = fs
  BY TaskFields
<1>2. SUFFICES ASSUME t.coverage = "complete", InferGranularity(o) # "file", ArgsReferenceFiles(o), NEW f \in FullOf(t)
               PROVE  f \in fs
  BY <1>1 DEF Covering
<1>3. CoverageFor(tool, o, UnitMembers(UnitOf(d)), fs) = "complete"
  BY <1>2, TaskFields
<1>. HIDE DEF t
<1>4. /\ f \in files /\ ~IsDisabled(tool, f) /\ Matches(f, o.globs) /\ ~Matches(f, o.exclude)
      /\ Nearest(f, ProjectsFor(tool)) = UnitOf(d)
  BY <1>1, <1>2 DEF FullOf, Enabled, Matching
<1>5. StrictlyUnder(UnitOf(d), f)
  <2>1. f \in Path \ {Root} /\ ProjectsFor(tool) \subseteq Path
    BY <1>4, PathsAssumption, NearKnown DEF Sound, Shapes, Known
  <2>. QED BY <1>4, <2>1, NearestIs
<1>6. f \in UnitMembers(UnitOf(d))
  BY <1>4, <1>5 DEF UnitMembers, Sound, MemosInvariant, MemosTrue
<1>. QED BY <1>2, <1>3, <1>4, <1>6 DEF CoverageFor, Enabled, Matching

\* A task widened to its unit: it is given the unit's share of all the files.
LEMMA CoveringWidened ==
  ASSUME Sound, NEW tool, NEW o, NEW d, UnitFiles(tool, o, d) # {}
  PROVE  Covering(TaskWith(tool, o, d, UnitFiles(tool, o, d), "complete"))
<1>. DEFINE fs  == UnitFiles(tool, o, d)
            t   == TaskWith(tool, o, d, fs, "complete")
            all == Enabled(tool, MatchFiles(All, o))
<1>1. t.tool = tool /\ t.op = o /\ t.project = d /\ t.files = fs
  BY TaskWithIs
<1>2. SUFFICES ASSUME NEW f \in FullOf(t)
               PROVE  f \in fs
  BY <1>1 DEF Covering
<1>. HIDE DEF t
<1>3. f \in all /\ Nearest(f, ProjectsFor(tool)) = UnitOf(d)
  BY <1>1, <1>2, MatchFilesIs DEF FullOf, Enabled, Matching, Pool, All, Sound, MemosInvariant
<1>4. PICK own : Share(d, own) \in PerProject(tool, all, FALSE)
  <2>1. PICK g : g \in fs
    OBVIOUS
  <2>. QED BY <2>1, UnitFilesIs
<1>5. all \subseteq Known
  BY MatchFilesIs DEF Enabled, Pool, All, Sound, MemosInvariant, Shapes, Known
<1>6. IsShare(tool, all, FALSE, d, own)
  <2>. HIDE DEF all
  <2>. QED BY <1>4, <1>5, ShareFacts DEF Sound
<1>7. f \in own
  <2>1. CASE d = NoProject
    BY <1>3, <1>6, <2>1, NoProjectIsNoPath DEF IsShare
  <2>2. CASE d # NoProject
    BY <1>3, <1>6, <2>2 DEF IsShare, UnitOf, Near
  <2>. QED BY <2>1, <2>2
<1>8. Share(d, own) \in {u \in PerProject(tool, all, FALSE) : u.project = d} /\ Share(d, own).files = own
  BY <1>4, ShareProject
<1>. QED BY <1>7, <1>8, Zenon DEF UnitFiles

\* When a plan is made, a task said to cover its unit was given all of it.
LEMMA CoveringWhenMade ==
  ASSUME Sound, NEW r \in Requests, NEW t \in TasksOf(PlanFor(r))
  PROVE  Covering(t)
<1>. DEFINE sel == PlanFor(r).sel
<1>1. PICK tool \in Runnable(r.op) : t \in Collect(tool, ToolOf[tool].ops[r.op], sel).tasks
  BY TasksOfPlan
<1>. DEFINE o == ToolOf[tool].ops[r.op]
<1>. HIDE DEF sel, o
<1>2. CASE o.scope = "repository"
  BY <1>1, <1>2, RepositoryTaskIs, CoveringTask DEF o
<1>3. CASE o.scope = "per-file"
  <2>1. PICK f : t = FileTask(tool, o, f)
    BY <1>1, <1>3, FileTaskIs DEF o
  <2>. QED BY <2>1, CoveringTask DEF FileTask
<1>4. CASE o.scope \notin {"repository", "per-file"}
  <2>1. PICK d, own, fs : IsUnitTask(tool, o, sel, Given(tool, o, sel), t, d, own, fs)
    BY <1>1, <1>4, ProjectTaskIs DEF o
  <2>. QED BY <2>1, CoveringTask, CoveringWidened DEF IsUnitTask
<1>. QED BY <1>2, <1>3, <1>4

\* A task recorded as covering its unit was given every file a run of the whole
\* repository would give the tool there (coverageFor).
THEOREM CoverageHonestHolds == Spec => []CoverageHonest
<1>1. Init => CoverageHonest
  BY NoTasks DEF Init, CoverageHonest, Planned
<1>2. Shapes /\ MemosInvariant /\ CoverageHonest /\ [Next]_vars => CoverageHonest'
  <2>. SUFFICES ASSUME Shapes, MemosInvariant, CoverageHonest, [Next]_vars,
                       ready', NEW t \in TasksOf(plan')
                PROVE  Covering(t)'
    BY DEF CoverageHonest, Planned, TasksOf, Covering, FullOf
  <2>1. CASE plan' = NoPlan
    BY <2>1, NoTasks
  <2>. SUFFICES ASSUME UNCHANGED <<files, projects, rules>>, Covering(t)
                PROVE  Covering(t)'
    <3>1. CASE /\ Sound /\ request \in Requests /\ plan' = PlanFor(request)
               /\ UNCHANGED <<cwd, widen, ready, files, projects, rules>>
      BY <3>1, CoveringWhenMade
    <3>2. CASE plan' = plan /\ UNCHANGED <<cwd, widen, ready, files, projects, rules>>
      BY <3>2 DEF CoverageHonest, Planned, Covering, FullOf
    <3>. QED BY <2>1, <3>1, <3>2, PlanSteps
  <2>2. ProjectsFor(t.tool)' = ProjectsFor(t.tool)
    BY DEF ProjectsFor
  <2>3. Enabled(t.tool, Matching(files, t.op.globs))' = Enabled(t.tool, Matching(files, t.op.globs))
    BY DEF Enabled, IsDisabled, Matching, Matches
  <2>4. FullOf(t)' = FullOf(t)
    BY <2>2, <2>3 DEF FullOf, Matches
  <2>. QED BY <2>4 DEF Covering
<1>. QED BY <1>1, <1>2, ShapesHold, MemosSound, PTL DEF Spec

(***************************************************************************)
(* No tool is given a file twice.                                          *)
(***************************************************************************)

\* Two shares with a file in common are one.
LEMMA ShareOnce ==
  ASSUME Shapes, NEW tool, NEW given, given \subseteq Known, NEW restrict \in BOOLEAN, NEW f,
         NEW d1, NEW own1, Share(d1, own1) \in PerProject(tool, given, restrict), f \in own1,
         NEW d2, NEW own2, Share(d2, own2) \in PerProject(tool, given, restrict), f \in own2
  PROVE  d1 = d2 /\ own1 = own2
<1>1. IsShare(tool, given, restrict, d1, own1) /\ IsShare(tool, given, restrict, d2, own2)
  BY ShareFacts
<1>2. Near(tool, restrict) # {} /\ PerProject(tool, given, restrict) = Kept(tool, given, restrict)
        => Kept(tool, given, restrict) # {}
  OBVIOUS
<1>. QED BY <1>1, <1>2 DEF IsShare

\* Two tasks of units that are given one file are one task.
LEMMA UnitTaskOnce ==
  ASSUME Sound, NEW tool, NEW o, NEW sel, NEW given, given \subseteq Known, NEW f,
         NEW t1, NEW d1, NEW own1, NEW fs1, IsUnitTask(tool, o, sel, given, t1, d1, own1, fs1), f \in fs1,
         NEW t2, NEW d2, NEW own2, NEW fs2, IsUnitTask(tool, o, sel, given, t2, d2, own2, fs2), f \in fs2
  PROVE  t1 = t2
<1>1. CASE ArgsReferenceFiles(o) /\ o.granularity = "unit"
  <2>. DEFINE all == Enabled(tool, MatchFiles(All, o))
  <2>1. f \in UnitFiles(tool, o, d1) /\ f \in UnitFiles(tool, o, d2)
    BY <1>1 DEF IsUnitTask
  <2>2. PICK most1 : Share(d1, most1) \in PerProject(tool, all, FALSE) /\ f \in most1
    BY <2>1, UnitFilesIs
  <2>3. PICK most2 : Share(d2, most2) \in PerProject(tool, all, FALSE) /\ f \in most2
    BY <2>1, UnitFilesIs
  <2>4. all \subseteq Known
    BY MatchFilesIs DEF Enabled, Pool, All, Sound, MemosInvariant, Shapes, Known
  <2>5. d1 = d2
    <3>. HIDE DEF all
    <3>. QED BY <2>2, <2>3, <2>4, ShareOnce DEF Sound
  <2>. QED BY <1>1, <2>5 DEF IsUnitTask
<1>2. CASE ~(ArgsReferenceFiles(o) /\ o.granularity = "unit")
  <2>1. fs1 = own1 /\ fs2 = own2 /\ t1 = TaskOf(tool, o, d1, fs1) /\ t2 = TaskOf(tool, o, d2, fs2)
    BY <1>2 DEF IsUnitTask
  <2>2. d1 = d2 /\ own1 = own2
    BY <2>1, ShareOnce DEF IsUnitTask, Sound
  <2>. QED BY <2>1, <2>2
<1>. QED BY <1>1, <1>2

\* When a plan is made, two tasks of a tool that are given one file are one task.
LEMMA OnceWhenMade ==
  ASSUME Sound, NEW r \in Requests, NEW t1 \in TasksOf(PlanFor(r)), NEW t2 \in TasksOf(PlanFor(r)),
         t1.tool = t2.tool, NEW f \in t1.files \cap t2.files
  PROVE  t1 = t2
<1>. DEFINE sel == PlanFor(r).sel
            tool == t1.tool
            o == ToolOf[tool].ops[r.op]
<1>1. t1 \in Collect(tool, o, sel).tasks /\ t2 \in Collect(tool, o, sel).tasks
  BY TasksOfPlan, TaskOfTool, TaskWithIs
<1>2. Given(tool, o, sel) \subseteq Known
  <2>1. Pool(sel) \subseteq Known
    BY TasksOfPlan, PoolKnown DEF Sound
  <2>. HIDE DEF sel, o, tool
  <2>. QED BY <2>1, GivenIs DEF Sound, MemosInvariant
<1>. HIDE DEF sel, o, tool
<1>3. CASE o.scope = "repository"
  BY <1>1, <1>3, RepositoryTaskIs
<1>4. CASE o.scope = "per-file"
  <2>1. PICK f1, f2 : t1 = FileTask(tool, o, f1) /\ t2 = FileTask(tool, o, f2)
    BY <1>1, <1>4, FileTaskIs
  <2>2. t1.files = {f1} /\ t2.files = {f2}
    BY <2>1, TaskFields DEF FileTask
  <2>. QED BY <2>1, <2>2
<1>5. CASE o.scope \notin {"repository", "per-file"}
  <2>1. PICK d1, own1, fs1 : IsUnitTask(tool, o, sel, Given(tool, o, sel), t1, d1, own1, fs1)
    BY <1>1, <1>5, ProjectTaskIs
  <2>2. PICK d2, own2, fs2 : IsUnitTask(tool, o, sel, Given(tool, o, sel), t2, d2, own2, fs2)
    BY <1>1, <1>5, ProjectTaskIs
  <2>3. t1.files = fs1 /\ t2.files = fs2
    BY <2>1, <2>2, TaskFields, TaskWithIs DEF IsUnitTask
  <2>. QED BY <1>2, <2>1, <2>2, <2>3, UnitTaskOnce
<1>. QED BY <1>3, <1>4, <1>5

\* No plan gives a tool a file twice.
LEMMA FileOnceHolds == Spec => []FileOnce
<1>1. Init => FileOnce
  BY NoTasks DEF Init, FileOnce
<1>2. Shapes /\ MemosInvariant /\ FileOnce /\ [Next]_vars => FileOnce'
  <2>. SUFFICES ASSUME Shapes, MemosInvariant, FileOnce, [Next]_vars,
                       NEW t1 \in TasksOf(plan'), NEW t2 \in TasksOf(plan'), t1.tool = t2.tool, t1 # t2
                PROVE  t1.files \cap t2.files = {}
    BY DEF FileOnce, TasksOf
  <2>2. CASE plan' = NoPlan
    BY <2>2, NoTasks
  <2>3. CASE Sound /\ request \in Requests /\ plan' = PlanFor(request)
    BY <2>3, OnceWhenMade
  <2>4. CASE plan' = plan
    BY <2>4 DEF FileOnce
  <2>. QED BY <2>2, <2>3, <2>4, PlanSteps
<1>. QED BY <1>1, <1>2, ShapesHold, MemosSound, PTL DEF Spec

(***************************************************************************)
(* A tool of units runs a file in its nearest project.                     *)
(***************************************************************************)

\* The directories around the current one that NearCwd drops are no file's nearest.
LEMMA NearestInCwd ==
  ASSUME Shapes, NEW tool, NEW f \in Known, Under(cwd, f)
  PROVE  Nearest(f, NearCwd(ProjectsFor(tool))) = Nearest(f, ProjectsFor(tool))
<1>. DEFINE ds   == ProjectsFor(tool)
            near == NearCwd(ds)
            most == Nearest(f, ds)
            here == Nearest(f, near)
<1>1. f \in Path \ {Root} /\ cwd \in Path /\ f # cwd
  BY PathsAssumption DEF Shapes
<1>2. ds \subseteq Path /\ near \subseteq ds
  BY NearKnown DEF NearCwd
<1>3. SUFFICES ASSUME cwd # Root, NEW e \in ds, StrictlyUnder(e, f) PROVE here = most
  <2>1. CASE \A e \in ds : ~StrictlyUnder(e, f)
    BY <1>2, <2>1 DEF Nearest
  <2>2. CASE cwd = Root
    BY <2>2 DEF NearCwd
  <2>. QED BY <1>3, <2>1, <2>2
<1>. HIDE DEF ds
<1>4. most \in ds /\ most \in Path /\ StrictlyUnder(most, f) /\ Under(most, f)
  BY <1>1, <1>2, <1>3, NearestIs, UnderFacts
<1>5. most \in near
  <2>1. CASE Under(cwd, most)
    BY <1>3, <1>4, <2>1 DEF NearCwd
  <2>2. CASE Under(most, cwd)
    <3>1. ASSUME NEW d \in ds, Under(d, cwd) PROVE Len(d) <= Len(most)
      <4>1. d \in Path /\ Under(d, f) /\ d # f
        BY <1>1, <1>2, <3>1, UnderFacts
      <4>2. StrictlyUnder(d, f)
        BY <1>1, <4>1, UnderFacts
      <4>. QED BY <1>1, <1>2, <4>2, NearestIs
    <3>. QED BY <1>3, <1>4, <2>2, <3>1 DEF NearCwd
  <2>. QED BY <1>1, <1>4, <2>1, <2>2, UnderFacts, LenIs
<1>. HIDE DEF near, most
<1>6. here \in near /\ here \in Path /\ Under(here, f) /\ Len(most) <= Len(here)
  <2>1. near \subseteq Path
    BY <1>2
  <2>2. here \in near /\ here \in Path /\ StrictlyUnder(here, f) /\ Len(most) <= Len(here)
    BY <1>1, <1>4, <1>5, <2>1, NearestIs
  <2>. QED BY <1>1, <2>2, UnderFacts
<1>. HIDE DEF here
<1>7. Len(here) <= Len(most)
  <2>1. here \in ds /\ StrictlyUnder(here, f)
    BY <1>1, <1>2, <1>6, NearestIs, UnderFacts DEF here
  <2>. QED BY <1>1, <1>2, <2>1, NearestIs DEF most
<1>8. Len(here) \in Nat /\ Len(most) \in Nat
  BY <1>4, <1>6, LenIs
<1>9. Len(here) = Len(most)
  BY <1>6, <1>7, <1>8
<1>. QED BY <1>1, <1>4, <1>6, <1>9, UnderFacts

\* A file is in its nearest project's share, or no project may have it.
LEMMA ShareOwn ==
  ASSUME Shapes, NEW tool, NEW given, given \subseteq Known, NEW restrict \in BOOLEAN,
         NEW d, NEW own, Share(d, own) \in PerProject(tool, given, restrict), NEW f \in own
  PROVE  \/ Nearest(f, Near(tool, restrict)) = UnitOf(d)
         \/ IsProjectDisabled(tool, Nearest(f, Near(tool, restrict)))
<1>. DEFINE near == Near(tool, restrict)
            n    == Nearest(f, near)
<1>1. IsShare(tool, given, restrict, d, own)
  BY ShareFacts
<1>2. CASE d \in Path
  BY <1>1, <1>2, NoProjectIsNoPath DEF IsShare, UnitOf
<1>3. CASE near = {}
  <2>1. n = Root
    BY <1>3 DEF Nearest
  <2>2. UnitOf(d) = Root
    BY <1>1, <1>3 DEF IsShare, UnitOf
  <2>. QED BY <2>1, <2>2
<1>4. CASE d = NoProject /\ own = given /\ (restrict => cwd = Root) /\ Kept(tool, given, restrict) = {}
  <2>1. n \in Path
    BY <1>4, PathsAssumption, NearKnown, NearestIs
  <2>2. Reach(restrict, n)
    BY <1>4, <2>1, UnderFacts DEF Reach
  <2>. DEFINE s == Share(n, {g \in given : Nearest(g, near) = n})
  <2>3. s \in Shares(given, near, restrict) /\ s.project = n
    BY <1>4, <2>2, SharesAre, ShareProject
  <2>. HIDE DEF s, n
  <2>4. IsProjectDisabled(tool, n)
    BY <1>4, <2>3 DEF Kept
  <2>. QED BY <2>4 DEF n
<1>. QED BY <1>1, <1>2, <1>3, <1>4 DEF IsShare

\* When a plan is made, every file of a per-project task is in its own project.
LEMMA OwnWhenMade ==
  ASSUME Sound, NEW r \in Requests, NEW t \in TasksOf(PlanFor(r)), t.op.scope = "per-project",
         PlanFor(r).sel.mode = "paths" => \A f \in PlanFor(r).sel.paths : Under(cwd, f)
  PROVE  Misplaced(t) = {}
<1>. DEFINE sel  == PlanFor(r).sel
            tool == t.tool
            o    == ToolOf[tool].ops[r.op]
<1>1. t \in Collect(tool, o, sel).tasks /\ t.op = o
  BY TasksOfPlan, TaskOfTool, TaskWithIs
<1>2. /\ Given(tool, o, sel) \subseteq Known
      /\ \A f \in Given(tool, o, sel) : Under(cwd, f)
  <2>1. Pool(sel) \subseteq Known /\ (sel.mode = "paths" => \A f \in sel.paths : Under(cwd, f))
    BY TasksOfPlan, PoolKnown DEF Sound
  <2>. HIDE DEF sel, o, tool
  <2>. QED BY <2>1, GivenIs DEF Sound, MemosInvariant, Pool
<1>. HIDE DEF sel, o
<1>3. PICK d, own, fs : IsUnitTask(tool, o, sel, Given(tool, o, sel), t, d, own, fs)
  BY <1>1, ProjectTaskIs
<1>4. t.files = fs /\ t.project = d
  BY <1>3, TaskFields, TaskWithIs DEF IsUnitTask
<1>5. SUFFICES ASSUME NEW f \in fs
               PROVE  \/ Nearest(f, ProjectsFor(tool)) = UnitOf(d)
                      \/ IsProjectDisabled(tool, Nearest(f, ProjectsFor(tool)))
  BY <1>4 DEF Misplaced
<1>. HIDE DEF tool
<1>6. CASE ArgsReferenceFiles(o) /\ o.granularity = "unit"
  <2>. DEFINE all == Enabled(tool, MatchFiles(All, o))
  <2>1. PICK most : Share(d, most) \in PerProject(tool, all, FALSE) /\ f \in most
    BY <1>3, <1>5, <1>6, UnitFilesIs DEF IsUnitTask
  <2>2. all \subseteq Known
    BY MatchFilesIs DEF Enabled, Pool, All, Sound, MemosInvariant, Shapes, Known
  <2>3. Near(tool, FALSE) = ProjectsFor(tool)
    BY DEF Near
  <2>. HIDE DEF all
  <2>. QED BY <2>1, <2>2, <2>3, ShareOwn DEF Sound
<1>7. CASE ~(ArgsReferenceFiles(o) /\ o.granularity = "unit")
  <2>1. Share(d, own) \in PerProject(tool, Given(tool, o, sel), TRUE) /\ f \in own
    BY <1>3, <1>5, <1>7 DEF IsUnitTask
  <2>2. f \in Known /\ Under(cwd, f)
    BY <1>2, <2>1, ShareGiven DEF Sound
  <2>3. Nearest(f, Near(tool, TRUE)) = Nearest(f, ProjectsFor(tool))
    BY <2>2, NearestInCwd DEF Near, Sound
  <2>. QED BY <1>2, <2>1, <2>3, ShareOwn DEF Sound
<1>. QED BY <1>6, <1>7

\* A per-project tool runs every file in the file's nearest project.
LEMMA OwnProjectHolds == Spec => []OwnProject
<1>1. Init => OwnProject
  BY NoTasks DEF Init, OwnProject, Planned
<1>2. Shapes /\ MemosInvariant /\ OwnProject /\ [Next]_vars => OwnProject'
  <2>. SUFFICES ASSUME Shapes, MemosInvariant, OwnProject, [Next]_vars, ready',
                       plan'.sel.mode = "paths" => \A f \in plan'.sel.paths : Under(cwd, f)',
                       NEW t \in TasksOf(plan'), t.op.scope = "per-project"
                PROVE  Misplaced(t)' = {}
    BY DEF OwnProject, Planned, TasksOf
  <2>1. CASE plan' = NoPlan
    BY <2>1, NoTasks
  <2>2. UNCHANGED <<cwd, projects, rules>> => Misplaced(t)' = Misplaced(t)
    BY DEF Misplaced, ProjectsFor, IsProjectDisabled, IsDisabled, Matches
  <2>3. CASE /\ Sound /\ request \in Requests /\ plan' = PlanFor(request)
             /\ UNCHANGED <<cwd, widen, ready, files, projects, rules>>
    BY <2>2, <2>3, OwnWhenMade DEF Under
  <2>4. CASE plan' = plan /\ UNCHANGED <<cwd, widen, ready, files, projects, rules>>
    BY <2>2, <2>4 DEF OwnProject, Planned, Under
  <2>. QED BY <2>1, <2>3, <2>4, PlanSteps
<1>. QED BY <1>1, <1>2, ShapesHold, MemosSound, PTL DEF Spec

(***************************************************************************)
(* No file is left out.                                                    *)
(***************************************************************************)

\* The shortcut for a tool disabled everywhere loses no file: each is disabled.
LEMMA DisabledEverywhereIs ==
  ASSUME Shapes, NEW tool, DisabledEverywhere(tool), NEW f \in Path
  PROVE  IsDisabled(tool, f)
<1>. DEFINE said == {n \in DOMAIN rules : rules[n].tool \in {tool, "*"} /\ Matches(f, {rules[n].glob})}
<1>1. DOMAIN rules = 1 .. Len(rules) /\ Len(rules) \in Nat /\ ToSet(rules) = {rules[n] : n \in DOMAIN rules}
  BY DEF Shapes, ToSet
<1>2. PICK k \in DOMAIN rules : rules[k].tool \in {tool, "*"} /\ rules[k].glob = AnyGlob
  BY <1>1 DEF DisabledEverywhere
<1>3. Matches(f, {AnyGlob})
  BY UnderFacts DEF Matches, AnyGlob
<1>4. \A n \in said : ~rules[n].invert
  BY <1>1 DEF DisabledEverywhere
<1>5. PICK last \in said : \A m \in said : m <= last
  <2>1. k \in said
    BY <1>2, <1>3
  <2>2. said \subseteq Nat /\ \A n \in said : n <= Len(rules)
    BY <1>1
  <2>. HIDE DEF said
  <2>. QED BY <1>1, <2>1, <2>2, MostNumber
<1>. QED BY <1>4, <1>5 DEF IsDisabled

\* The shares of a run, and what the task of one is given.
SharesOf(tool, given) == PerProject(tool, given, TRUE)
TaskFiles(tool, o, d, own) ==
  IF ArgsReferenceFiles(o) /\ o.granularity = "unit" THEN UnitFiles(tool, o, d) ELSE own

\* Every share that may run, and has files, comes to a task with its files.
LEMMA UnitTaskExists ==
  ASSUME NEW tool, NEW o, NEW sel, NEW given, NEW d, NEW own,
         Share(d, own) \in SharesOf(tool, given), PermitsUnit(sel, d), TaskFiles(tool, o, d, own) # {}
  PROVE  \E t \in UnitTasks(tool, o, sel, given).tasks : t.tool = tool /\ t.files = TaskFiles(tool, o, d, own)
<1>. DEFINE named    == ArgsReferenceFiles(o)
            widened  == named /\ o.granularity = "unit"
            full     == IF ~widened THEN {} ELSE PerProject(tool, Enabled(tool, MatchFiles(All, o)), FALSE)
            shares   == PerProject(tool, given, TRUE)
            within   == {u \in shares : PermitsUnit(sel, u.project)}
            grown(s) == [s EXCEPT !.files = IF widened THEN UNION {q.files : q \in {u \in full : u.project = s.project}}
                                            ELSE @]
            kept     == IF named /\ ~widened THEN shares
                        ELSE {s \in {grown(s) : s \in within} : widened => s.files # {}}
            task(s)  == [TaskOf(tool, o, s.project, s.files) EXCEPT !.coverage = IF widened THEN "complete" ELSE @]
            mine     == Share(d, own)
            fs       == IF widened THEN UnitFiles(tool, o, d) ELSE own
<1>1. UnitTasks(tool, o, sel, given)
        = [tasks |-> {task(s) : s \in kept}, narrowedAway |-> kept = {} /\ shares # {}]
  BY Zenon DEF UnitTasks
<1>2. mine.project = d /\ mine.files = own /\ \A gs : [mine EXCEPT !.files = gs] = Share(d, gs)
  BY DEF Share
<1>3. fs = TaskFiles(tool, o, d, own)
  BY DEF TaskFiles
<1>4. Share(d, fs) \in kept
  <2>1. mine \in within
    BY <1>2 DEF SharesOf
  <2>2. Share(d, fs).files = fs
    BY ShareProject
  <2>3. CASE widened
    <3>1. full = PerProject(tool, Enabled(tool, MatchFiles(All, o)), FALSE)
      BY <2>3
    <3>2. grown(mine) = [mine EXCEPT !.files = UNION {q.files : q \in {u \in full : u.project = d}}]
      BY <1>2, <2>3
    <3>3. grown(mine) = [mine EXCEPT !.files = UnitFiles(tool, o, d)]
      BY <3>1, <3>2, Zenon DEF UnitFiles
    <3>4. grown(mine) = Share(d, fs)
      BY <1>2, <2>3, <3>3
    <3>. HIDE DEF grown, within, mine, fs
    <3>. QED BY <1>3, <2>1, <2>2, <2>3, <3>4
  <2>4. CASE named /\ ~widened
    BY <2>1, <2>4
  <2>5. CASE ~named
    <3>1. grown(mine) = [mine EXCEPT !.files = mine.files]
      BY <2>5
    <3>2. grown(mine) = Share(d, fs)
      BY <1>2, <2>5, <3>1
    <3>. HIDE DEF grown, within, mine
    <3>. QED BY <2>1, <2>5, <3>2
  <2>. QED BY <2>3, <2>4, <2>5
<1>5. task(Share(d, fs)).tool = tool /\ task(Share(d, fs)).files = fs
  <2>. HIDE DEF fs
  <2>1. \A b : [TaskOf(tool, o, d, fs) EXCEPT !.coverage = b].tool = tool
               /\ [TaskOf(tool, o, d, fs) EXCEPT !.coverage = b].files = fs
    BY TaskIs, TaskWithIs
  <2>. QED BY <2>1, ShareProject
<1>6. task(Share(d, fs)) \in UnitTasks(tool, o, sel, given).tasks
  <2>. HIDE DEF kept, task, fs, shares
  <2>. QED BY <1>1, <1>4
<1>. QED BY <1>3, <1>5, <1>6

\* What a tool that is wanted contributes is in the plan.
LEMMA TaskPlanned ==
  ASSUME NEW r, NEW sel, sel = NewSelection(r.paths, r.fileScoped), sel.mode # "empty",
         NEW tool \in Runnable(r.op), r.tools = {} \/ tool \in r.tools,
         NEW t \in Collect(tool, ToolOf[tool].ops[r.op], sel).tasks
  PROVE  t \in TasksOf(PlanFor(r))
<1>. DEFINE got == [u \in Runnable(r.op) |-> Collect(u, ToolOf[u].ops[r.op], sel)]
            wanted == {u \in DOMAIN got : r.tools = {} \/ u \in r.tools}
            tasks == UNION {got[u].tasks : u \in wanted}
            groups == [p \in {u.op.priority : u \in tasks} |-> {u \in tasks : u.op.priority = p}]
<1>1. PlanFor(r) = Assembled(r, sel, got)
  BY Zenon DEF PlanFor
<1>2. Assembled(r, sel, got).groups = groups
  <2>. HIDE DEF got
  <2>1. \A x, y, z, w : [for |-> x, sel |-> y, groups |-> z, skipped |-> w].groups = z
    OBVIOUS
  <2>2. PICK k : Assembled(r, sel, got) = [for |-> r, sel |-> sel, groups |-> groups, skipped |-> k]
    BY Zenon DEF Assembled
  <2>. QED BY <2>1, <2>2
<1>3. t \in tasks
  <2>1. tool \in wanted /\ t \in got[tool].tasks
    OBVIOUS
  <2>. HIDE DEF got, wanted
  <2>. QED BY <2>1
<1>4. t.op.priority \in DOMAIN groups /\ t \in groups[t.op.priority]
  <2>. HIDE DEF tasks
  <2>. QED BY <1>3
<1>5. PlanFor(r).groups = groups
  BY <1>1, <1>2
<1>. HIDE DEF groups
<1>. QED BY <1>4, <1>5 DEF TasksOf

\* From the root, with nothing named, a file that the rules leave a tool of
\* units is in a task, unless they disable the tool for its project.
LEMMA UnitTaskHas ==
  ASSUME Sound, cwd = Root, NEW tool, NEW o, NEW f \in Given(tool, o, All),
         ~IsProjectDisabled(tool, Nearest(f, ProjectsFor(tool)))
  PROVE  \E t \in UnitTasks(tool, o, All, Given(tool, o, All)).tasks : t.tool = tool /\ f \in t.files
<1>. DEFINE given == Given(tool, o, All)
            all   == Enabled(tool, MatchFiles(All, o))
            n     == Nearest(f, ProjectsFor(tool))
<1>1. Near(tool, TRUE) = ProjectsFor(tool) /\ Near(tool, FALSE) = ProjectsFor(tool)
  BY DEF Near, NearCwd
<1>2. given \subseteq files /\ files \subseteq Known /\ given = all
  <2>1. Pool(All) = files /\ All.mode = "all"
    BY DEF Pool, All
  <2>2. \A g \in files : Under(cwd, g)
    BY PathsAssumption, UnderFacts DEF Sound, Shapes, Known
  <2>3. MatchFiles(All, o) \subseteq files
    BY <2>1, MatchFilesIs DEF Sound, MemosInvariant
  <2>4. ToCwd(All, MatchFiles(All, o)) = MatchFiles(All, o)
    BY <2>1, <2>2, <2>3 DEF ToCwd
  <2>. QED BY <2>1, <2>2, <2>3, <2>4 DEF Given, Enabled, Sound, Shapes, Known
<1>3. n \in Path
  BY <1>2, PathsAssumption, NearKnown, NearestIs DEF Sound
<1>4. \A e \in Path : Reach(TRUE, e)
  BY UnderFacts DEF Reach
<1>5. PICK d, own : Share(d, own) \in PerProject(tool, given, TRUE) /\ f \in own
  <2>. HIDE DEF given
  <2>. QED BY <1>1, <1>2, <1>3, <1>4, ShareExists DEF given, Sound
<1>6. SUFFICES f \in TaskFiles(tool, o, d, own)
  <2>1. PermitsUnit(All, d)
    BY DEF PermitsUnit, All
  <2>2. TaskFiles(tool, o, d, own) # {}
    BY <1>6
  <2>. HIDE DEF given
  <2>3. Share(d, own) \in SharesOf(tool, given)
    BY <1>5 DEF SharesOf
  <2>4. \E t \in UnitTasks(tool, o, All, given).tasks : t.tool = tool /\ t.files = TaskFiles(tool, o, d, own)
    BY <2>1, <2>2, <2>3, UnitTaskExists
  <2>. QED BY <1>6, <2>4 DEF given
<1>7. CASE ~(ArgsReferenceFiles(o) /\ o.granularity = "unit")
  BY <1>5, <1>7 DEF TaskFiles
<1>8. CASE ArgsReferenceFiles(o) /\ o.granularity = "unit"
  <2>1. Share(d, own) \in PerProject(tool, all, FALSE)
    <3>1. \A s : s \in Shares(given, ProjectsFor(tool), TRUE) <=> s \in Shares(given, ProjectsFor(tool), FALSE)
      <4>1. \A g \in given : Reach(TRUE, Nearest(g, ProjectsFor(tool))) /\ Reach(FALSE, Nearest(g, ProjectsFor(tool)))
        BY <1>2, <1>4, PathsAssumption, NearKnown, NearestIs DEF Sound, Reach
      <4>. TAKE s
      <4>. DEFINE near == ProjectsFor(tool)
      <4>. HIDE DEF given, near
      <4>2. s \in Shares(given, near, TRUE) <=>
              \/ given = {} /\ \E e \in near : s = Share(e, {})
              \/ \E g \in given : /\ Reach(TRUE, Nearest(g, near))
                                  /\ s = Share(Nearest(g, near), {h \in given : Nearest(h, near) = Nearest(g, near)})
        BY DEF Shares, Share, Reach
      <4>3. s \in Shares(given, near, FALSE) <=>
              \/ given = {} /\ \E e \in near : s = Share(e, {})
              \/ \E g \in given : /\ Reach(FALSE, Nearest(g, near))
                                  /\ s = Share(Nearest(g, near), {h \in given : Nearest(h, near) = Nearest(g, near)})
        BY DEF Shares, Share, Reach
      <4>. QED BY <4>1, <4>2, <4>3 DEF near
    <3>2. Kept(tool, given, TRUE) = Kept(tool, given, FALSE)
      BY <1>1, <3>1 DEF Kept
    <3>3. PerProject(tool, given, TRUE) = PerProject(tool, given, FALSE)
      BY <1>1, <3>2, PerProjectIs DEF OrFallback
    <3>. QED BY <1>2, <1>5, <3>3
  <2>2. f \in UnitFiles(tool, o, d)
    <3>1. Share(d, own) \in {u \in PerProject(tool, all, FALSE) : u.project = d} /\ Share(d, own).files = own
      BY <2>1, ShareProject
    <3>. QED BY <1>5, <3>1, Zenon DEF UnitFiles
  <2>. QED BY <1>8, <2>2 DEF TaskFiles
<1>. QED BY <1>7, <1>8

\* A plan says which request it was made for.
LEMMA PlanIsFor ==
  ASSUME NEW r
  PROVE  PlanFor(r).for = r /\ PlanFor(r).sel = NewSelection(r.paths, r.fileScoped)
<1>. DEFINE sel == NewSelection(r.paths, r.fileScoped)
<1>1. LET none == [NoPlan EXCEPT !.for = r, !.sel = sel]
      IN  none.for = r /\ none.sel = sel
  <2>. HIDE DEF sel
  <2>. QED BY DEF NoPlan
<1>2. \A got : Assembled(r, sel, got).for = r /\ Assembled(r, sel, got).sel = sel
  BY DEF Assembled
<1>3. \/ PlanFor(r) = [NoPlan EXCEPT !.for = r, !.sel = sel]
      \/ \E got : PlanFor(r) = Assembled(r, sel, got)
  BY Zenon DEF PlanFor
<1>. HIDE DEF sel
<1>4. PlanFor(r).for = r /\ PlanFor(r).sel = sel
  BY <1>1, <1>2, <1>3
<1>. QED BY <1>4 DEF sel

\* When a plan of the whole repository is made, a file its tool matches and no
\* rule disables is in a task of it.
LEMMA MissedNone ==
  ASSUME Sound, NEW r \in Requests, PlanFor(r).sel.mode = "all",
         NEW tool \in Tools, Applicable(tool), ~ToolOf[tool].skip, ToolOf[tool].available,
         r.tools = {} \/ tool \in r.tools, r.op \in DOMAIN ToolOf[tool].ops,
         NEW f \in Enabled(tool, Matching(files, ToolOf[tool].ops[r.op].globs)),
         ~Matches(f, ToolOf[tool].ops[r.op].exclude)
  PROVE  \/ /\ ToolOf[tool].ops[r.op].scope = "per-project"
            /\ IsProjectDisabled(tool, Nearest(f, ProjectsFor(tool)))
         \/ \E t \in TasksOf(PlanFor(r)) : t.tool = tool /\ f \in t.files
<1>. DEFINE sel == NewSelection(r.paths, r.fileScoped)
            o   == ToolOf[tool].ops[r.op]
<1>1. sel = All /\ cwd = Root
  BY PlanIsFor, SelectionIs
<1>2. tool \in Runnable(r.op)
  <2>1. f \in Path
    BY PathsAssumption DEF Sound, Shapes, Known, Enabled, Matching
  <2>2. ~DisabledEverywhere(tool)
    BY <2>1, DisabledEverywhereIs DEF Enabled, Sound
  <2>. QED BY <2>2 DEF Runnable, Considered
<1>. HIDE DEF sel, o
<1>3. /\ f \in files /\ Matches(f, o.globs) /\ ~Matches(f, o.exclude) /\ ~IsDisabled(tool, f)
      /\ o.globs # {} /\ o.scope \in {"repository", "per-project", "per-file"}
  BY OperationsAssumption DEF Enabled, Matching, Matches, o
<1>4. f \in MatchFiles(All, o) /\ f \in Given(tool, o, All)
  <2>1. Pool(All) = files /\ Under(cwd, f)
    BY <1>1, <1>3, PathsAssumption, UnderFacts DEF Pool, All, Sound, Shapes, Known
  <2>2. MemosTrue
    BY DEF Sound, MemosInvariant
  <2>. QED BY <1>3, <2>1, <2>2, MatchFilesIs, GivenIs
<1>5. SUFFICES \/ o.scope = "per-project" /\ IsProjectDisabled(tool, Nearest(f, ProjectsFor(tool)))
               \/ \E t \in Collect(tool, o, All).tasks : t.tool = tool /\ f \in t.files
  <2>1. All.mode # "empty"
    BY DEF All
  <2>. QED BY <1>1, <1>2, <1>5, <2>1, TaskPlanned DEF o, sel
<1>6. CASE o.scope = "repository"
  <2>1. f \in WholeGiven(tool, o, All)
    BY <1>4 DEF WholeGiven, Given, Enabled
  <2>2. RepositoryTask(tool, o, All)
          = IF InferGranularity(o) = "repo" /\ cwd # Root /\ widen # "repo" THEN [tasks |-> {}, narrowedAway |-> TRUE]
            ELSE IF (o.globs = {} /\ IsProjectDisabled(tool, Root)) \/ (o.globs # {} /\ WholeGiven(tool, o, All) = {})
            THEN Nothing
            ELSE [tasks |-> {TaskOf(tool, o, Root, WholeGiven(tool, o, All))}, narrowedAway |-> FALSE]
    BY Zenon DEF RepositoryTask, WholeGiven
  <2>3. TaskOf(tool, o, Root, WholeGiven(tool, o, All)) \in Collect(tool, o, All).tasks
    BY <1>1, <1>3, <1>6, <2>1, <2>2 DEF Collect
  <2>. QED BY <2>1, <2>3, TaskFields
<1>7. CASE o.scope = "per-file"
  <2>1. FileTask(tool, o, f) \in Collect(tool, o, All).tasks
    BY <1>4, <1>7 DEF Collect, FileTasks, Given, FileTask
  <2>. QED BY <2>1, TaskFields DEF FileTask
<1>8. CASE o.scope = "per-project" /\ ~IsProjectDisabled(tool, Nearest(f, ProjectsFor(tool)))
  <2>1. PICK t \in UnitTasks(tool, o, All, Given(tool, o, All)).tasks : t.tool = tool /\ f \in t.files
    BY <1>1, <1>4, <1>8, UnitTaskHas
  <2>2. Collect(tool, o, All) = ProjectTasks(tool, o, All)
    BY <1>8 DEF Collect
  <2>3. ProjectTasks(tool, o, All) = UnitTasks(tool, o, All, Given(tool, o, All))
    BY <1>3, <1>4 DEF ProjectTasks, Given
  <2>. QED BY <2>1, <2>2, <2>3
<1>. QED BY <1>3, <1>6, <1>7, <1>8

Missing(tool) ==
  LET o == ToolOf[tool].ops[plan.for.op]
  IN  {f \in Enabled(tool, Matching(files, o.globs)) :
         /\ ~Matches(f, o.exclude)
         /\ ~(o.scope = "per-project" /\ IsProjectDisabled(tool, Nearest(f, ProjectsFor(tool))))
         /\ \A task \in TasksOf(plan) : ~(task.tool = tool /\ f \in task.files)}
Wanted ==
  {u \in Tools : /\ Applicable(u) /\ ~ToolOf[u].skip /\ ToolOf[u].available
                 /\ (plan.for.tools = {} \/ u \in plan.for.tools)
                 /\ plan.for.op \in DOMAIN ToolOf[u].ops}

\* A run of the whole repository leaves out no file the rules do not disable.
LEMMA NothingMissedHolds == Spec => []NothingMissed
<1>1. Init => NothingMissed
  BY DEF Init, NothingMissed
<1>2. Shapes /\ MemosInvariant /\ NothingMissed /\ [Next]_vars => NothingMissed'
  <2>. SUFFICES ASSUME Shapes, MemosInvariant, NothingMissed, [Next]_vars,
                       ready', plan'.sel.mode = "all", NEW tool \in Wanted'
                PROVE  Missing(tool)' = {}
    BY DEF NothingMissed, Wanted, Missing
  <2>1. ready /\ plan.sel.mode = "all" => \A u \in Wanted : Missing(u) = {}
    BY DEF NothingMissed, Wanted, Missing
  <2>2. CASE plan' = NoPlan
    BY <2>2 DEF NoPlan
  <2>3. CASE /\ Sound /\ request \in Requests /\ plan' = PlanFor(request)
             /\ UNCHANGED <<cwd, widen, ready, files, projects, rules>>
    <3>. DEFINE o == ToolOf[tool].ops[request.op]
    <3>1. plan'.for = request
      BY <2>3, PlanIsFor
    <3>2. /\ tool \in Tools /\ ~ToolOf[tool].skip /\ ToolOf[tool].available /\ Applicable(tool)
          /\ (request.tools = {} \/ tool \in request.tools) /\ request.op \in DOMAIN ToolOf[tool].ops
      BY <2>3, <3>1 DEF Wanted, Applicable
    <3>3. \A f \in Enabled(tool, Matching(files, o.globs)) :
            \/ Matches(f, o.exclude)
            \/ o.scope = "per-project" /\ IsProjectDisabled(tool, Nearest(f, ProjectsFor(tool)))
            \/ \E t \in TasksOf(PlanFor(request)) : t.tool = tool /\ f \in t.files
      BY <2>3, <3>2, MissedNone
    <3>4. \A gs : Enabled(tool, Matching(files, gs))' = Enabled(tool, Matching(files, gs))
      BY <2>3 DEF Enabled, IsDisabled, Matching, Matches
    <3>5. \A d : IsProjectDisabled(tool, d)' = IsProjectDisabled(tool, d)
      BY <2>3 DEF IsDisabled, IsProjectDisabled, Matches
    <3>6. ProjectsFor(tool)' = ProjectsFor(tool)
      BY <2>3 DEF ProjectsFor
    <3>7. TasksOf(plan') = TasksOf(PlanFor(request))
      BY <2>3
    <3>. SUFFICES ASSUME NEW f \in Missing(tool)' PROVE FALSE
      OBVIOUS
    <3>8. /\ f \in Enabled(tool, Matching(files, o.globs)) /\ ~Matches(f, o.exclude)
          /\ ~(o.scope = "per-project" /\ IsProjectDisabled(tool, Nearest(f, ProjectsFor(tool))))
          /\ \A t \in TasksOf(plan') : ~(t.tool = tool /\ f \in t.files)
      BY <3>1, <3>4, <3>5, <3>6 DEF Missing, TasksOf
    <3>. QED BY <3>3, <3>7, <3>8
  <2>4. CASE plan' = plan /\ UNCHANGED <<cwd, widen, ready, files, projects, rules>>
    <3>1. tool \in Wanted
      BY <2>4 DEF Wanted, Applicable
    <3>2. Missing(tool)' = Missing(tool)
      BY <2>4 DEF Missing, Enabled, IsDisabled, IsProjectDisabled, Matching, Matches, ProjectsFor, TasksOf
    <3>. QED BY <2>1, <2>4, <3>1, <3>2
  <2>. QED BY <2>2, <2>3, <2>4, PlanSteps
<1>. QED BY <1>1, <1>2, ShapesHold, MemosSound, PTL DEF Spec

(***************************************************************************)
(* A command line is cut into lines that fit, and loses nothing.           *)
(***************************************************************************)

\* Induction over 0 .. n, for a set.
LEMMA UpTo ==
  ASSUME NEW n \in Nat, NEW T, 0 \in T, \A m \in 1 .. n : m - 1 \in T => m \in T
  PROVE  0 .. n \subseteq T
<1>. DEFINE left == {m \in 0 .. n : m \notin T}
<1>1. SUFFICES ASSUME left # {} PROVE FALSE
  OBVIOUS
<1>2. PICK m \in left : \A k \in left : ~(k < m)
  <2>1. left \subseteq Nat
    OBVIOUS
  <2>2. \A x, y : <<y, x>> \in OpToRel(<, Nat) <=> x \in Nat /\ y \in Nat /\ y < x
    BY DEF OpToRel
  <2>3. \E x \in left : \A y \in left : ~(<<y, x>> \in OpToRel(<, Nat))
    <3>. HIDE DEF left
    <3>. QED BY <1>1, <2>1, WFMin, NatLessThanWellFounded, Zenon
  <2>. HIDE DEF left
  <2>. QED BY <2>1, <2>2, <2>3
<1>3. m \in 1 .. n
  BY <1>2
<1>4. m - 1 \in 0 .. n /\ m - 1 < m
  BY <1>3
<1>. QED BY <1>2, <1>3, <1>4

\* f is start, and then what the steps of F make of it one after another.
Iteration(f, n, S, start, F) ==
  f \in [0 .. n -> S] /\ f[0] = start /\ \A m \in 1 .. n : f[m] = F[m][f[m - 1]]

\* There is such a function.
LEMMA Iterates ==
  ASSUME NEW n \in Nat, NEW S, NEW start \in S, NEW F \in [1 .. n -> [S -> S]]
  PROVE  \E f : Iteration(f, n, S, start, F)
<1>. DEFINE T == {k \in 0 .. n : \E f : Iteration(f, k, S, start, F)}
<1>1. 0 \in T
  <2>1. Iteration([m \in 0 .. 0 |-> start], 0, S, start, F)
    BY DEF Iteration
  <2>. QED BY <2>1
<1>2. ASSUME NEW k \in 1 .. n, k - 1 \in T PROVE k \in T
  <2>1. PICK f : Iteration(f, k - 1, S, start, F)
    BY <1>2
  <2>0. /\ f \in [0 .. k - 1 -> S] /\ f[0] = start
        /\ \A m \in 1 .. k - 1 : f[m] = F[m][f[m - 1]]
    BY <2>1 DEF Iteration
  <2>. DEFINE g == [m \in 0 .. k |-> IF m = k THEN F[k][f[k - 1]] ELSE f[m]]
  <2>2. f[k - 1] \in S /\ F[k][f[k - 1]] \in S
    BY <2>0
  <2>3. g \in [0 .. k -> S]
    BY <2>0, <2>2
  <2>4. g[0] = start
    BY <2>0
  <2>5. ASSUME NEW m \in 1 .. k PROVE g[m] = F[m][g[m - 1]]
    <3>1. m - 1 \in 0 .. k /\ m - 1 # k /\ g[m - 1] = f[m - 1]
      OBVIOUS
    <3>2. CASE m = k
      BY <3>1, <3>2
    <3>3. CASE m # k
      BY <2>0, <3>1, <3>3
    <3>. QED BY <3>2, <3>3
  <2>6. Iteration(g, k, S, start, F)
    <3>. HIDE DEF g
    <3>. QED BY <2>3, <2>4, <2>5 DEF Iteration
  <2>. HIDE DEF g
  <2>. QED BY <2>6
<1>3. n \in T
  <2>. HIDE DEF T
  <2>1. 0 .. n \subseteq T
    BY <1>1, <1>2, UpTo, Zenon
  <2>. QED BY <2>1
<1>. QED BY <1>3

(***************************************************************************)
(* The length of a command line.                                           *)
(***************************************************************************)

\* length is the length of the line after each file of chunk.
Lengths(chunk, length) ==
  length = [n \in 0 .. Len(chunk) |-> IF n = 0 THEN BaseLength ELSE length[n - 1] + FileLength(chunk[n])]

\* The length a file adds to a line is a number.
LEMMA FileLengthIs ==
  \A f \in Known : FileLength(f) \in Nat
  BY PathsAssumption, LenIs DEF FileLength

\* LineLength adds the files up one after another.
LEMMA LineLengthIs ==
  ASSUME NEW chunk \in Seq(Known)
  PROVE  \E length \in [0 .. Len(chunk) -> Nat] : /\ length[0] = BaseLength /\ LineLength(chunk) = length[Len(chunk)]
                                               /\ \A n \in 1 .. Len(chunk) : length[n] = length[n - 1] + FileLength(chunk[n])
<1>. DEFINE last == Len(chunk)
            F == [n \in 1 .. last |-> [sum \in Nat |-> sum + FileLength(chunk[n])]]
<1>1. F \in [1 .. last -> [Nat -> Nat]] /\ last \in Nat
  BY FileLengthIs
<1>2. PICK f : Iteration(f, last, Nat, BaseLength, F)
  <2>. HIDE DEF F, last
  <2>. QED BY <1>1, Iterates, PathsAssumption
<1>3. /\ f \in [0 .. last -> Nat] /\ f[0] = BaseLength
      /\ \A n \in 1 .. last : f[n] = F[n][f[n - 1]]
  BY <1>2 DEF Iteration
<1>0. \A n \in 1 .. last : f[n] = f[n - 1] + FileLength(chunk[n])
  <2>. TAKE n \in 1 .. last
  <2>. HIDE DEF F, last
  <2>1. n - 1 \in 0 .. last
    BY <1>1
  <2>2. f[n - 1] \in Nat
    BY <1>3, <2>1
  <2>. QED BY <1>3, <2>2 DEF F
<1>4. Lengths(chunk, f)
  <2>1. \A n \in 0 .. last : f[n] = IF n = 0 THEN BaseLength ELSE f[n - 1] + FileLength(chunk[n])
    BY <1>0, <1>1, <1>3
  <2>. HIDE DEF F, last
  <2>2. f = [n \in 0 .. last |-> IF n = 0 THEN BaseLength ELSE f[n - 1] + FileLength(chunk[n])]
    BY <1>3, <2>1
  <2>. QED BY <2>2, Zenon DEF Lengths, last
<1>5. LineLength(chunk) = (CHOOSE length : Lengths(chunk, length))[last]
  BY Zenon DEF LineLength, Lengths
<1>6. PICK length : Lengths(chunk, length) /\ LineLength(chunk) = length[last]
  BY <1>4, <1>5
<1>. HIDE DEF F
<1>7. /\ length = [n \in 0 .. last |-> IF n = 0 THEN BaseLength ELSE length[n - 1] + FileLength(chunk[n])]
      /\ 0 \in 0 .. last /\ \A n \in 1 .. last : n \in 0 .. last /\ n # 0
  <2>1. length = [n \in 0 .. last |-> IF n = 0 THEN BaseLength ELSE length[n - 1] + FileLength(chunk[n])]
    BY <1>6, Zenon DEF Lengths
  <2>. HIDE DEF last
  <2>2. 0 \in 0 .. last /\ \A n \in 1 .. last : n \in 0 .. last /\ n # 0
    BY <1>1
  <2>. QED BY <2>1, <2>2, Zenon
<1>8. length[0] = BaseLength
  BY <1>7
<1>9. \A n \in 1 .. last : length[n] = length[n - 1] + FileLength(chunk[n])
  BY <1>7
<1>10. \A n \in 0 .. last : length[n] \in Nat
  <2>. DEFINE T == {n \in 0 .. last : length[n] \in Nat}
  <2>1. 0 \in T
    BY <1>7, <1>8, PathsAssumption
  <2>2. ASSUME NEW n \in 1 .. last, n - 1 \in T PROVE n \in T
    <3>1. FileLength(chunk[n]) \in Nat
      BY <1>1, FileLengthIs
    <3>2. length[n - 1] \in Nat
      BY <2>2
    <3>3. length[n] \in Nat
      BY <1>9, <3>1, <3>2
    <3>. QED BY <1>7, <3>3
  <2>3. 0 .. last \subseteq T
    <3>. HIDE DEF T, last
    <3>. QED BY <1>1, <2>1, <2>2, UpTo
  <2>. QED BY <2>3
<1>11. length \in [0 .. last -> Nat]
  BY <1>7, <1>10
<1>. QED BY <1>6, <1>8, <1>9, <1>11

\* A line grows by the length of the file added to it.
LEMMA LineGrows ==
  ASSUME NEW chunk \in Seq(Known), NEW f \in Known
  PROVE  /\ LineLength(<<>>) = BaseLength /\ LineLength(chunk) \in Nat
         /\ LineLength(Append(chunk, f)) = LineLength(chunk) + FileLength(f)
<1>. DEFINE more == Append(chunk, f)
            last == Len(chunk)
<1>1. /\ more \in Seq(Known) /\ Len(more) = last + 1 /\ last \in Nat
      /\ \A n \in 1 .. last : more[n] = chunk[n] /\ more[last + 1] = f
  OBVIOUS
<1>2. PICK a \in [0 .. last -> Nat] : /\ a[0] = BaseLength /\ LineLength(chunk) = a[last]
                                     /\ \A n \in 1 .. last : a[n] = a[n - 1] + FileLength(chunk[n])
  BY LineLengthIs
<1>3. PICK b \in [0 .. last + 1 -> Nat] : /\ b[0] = BaseLength /\ LineLength(more) = b[last + 1]
                                         /\ \A n \in 1 .. last + 1 : b[n] = b[n - 1] + FileLength(more[n])
  <2>. HIDE DEF more
  <2>. QED BY <1>1, LineLengthIs
<1>4. a[last] = b[last]
  <2>. DEFINE T == {n \in 0 .. last : a[n] = b[n]}
  <2>1. 0 \in T
    BY <1>1, <1>2, <1>3
  <2>2. ASSUME NEW n \in 1 .. last, n - 1 \in T PROVE n \in T
    <3>1. a[n] = a[n - 1] + FileLength(chunk[n]) /\ b[n] = b[n - 1] + FileLength(more[n]) /\ more[n] = chunk[n]
      BY <1>1, <1>2, <1>3, <2>2
    <3>. QED BY <2>2, <3>1
  <2>. HIDE DEF T, last
  <2>3. 0 .. last \subseteq T
    BY <1>1, <2>1, <2>2, UpTo
  <2>. QED BY <1>1, <2>3 DEF T
<1>5. LineLength(more) = b[last] + FileLength(f)
  BY <1>1, <1>3
<1>6. LineLength(<<>>) = BaseLength
  BY LineLengthIs
<1>. QED BY <1>1, <1>2, <1>4, <1>5, <1>6

(***************************************************************************)
(* The chunks put together again.                                          *)
(***************************************************************************)

\* whole is what the first chunks come to, for each number of them.
Joins(chunks, whole) ==
  whole = [n \in 1 .. Len(chunks) |-> IF n = 1 THEN chunks[n] ELSE whole[n - 1] \o chunks[n]]

IsJoined(S, chunks, whole) ==
  /\ whole \in [1 .. Len(chunks) -> Seq(S)]
  /\ whole[1] = chunks[1] /\ FlattenSeq(chunks) = whole[Len(chunks)]
  /\ \A n \in 2 .. Len(chunks) : whole[n] = whole[n - 1] \o chunks[n]

\* FlattenSeq joins the chunks one after another.
LEMMA FlattenIs ==
  ASSUME NEW S, NEW chunks \in Seq(Seq(S)), chunks # <<>>
  PROVE  \E whole : IsJoined(S, chunks, whole)
<1>. DEFINE last == Len(chunks)
            F == [n \in 1 .. last |-> [seq \in Seq(S) |-> seq \o chunks[n]]]
<1>1. /\ F \in [1 .. last -> [Seq(S) -> Seq(S)]] /\ last \in Nat \ {0} /\ <<>> \in Seq(S)
      /\ \A n \in 1 .. last : chunks[n] \in Seq(S)
  OBVIOUS
<1>2. PICK f : Iteration(f, last, Seq(S), <<>>, F)
  <2>. HIDE DEF F, last
  <2>. QED BY <1>1, Iterates
<1>3. /\ f \in [0 .. last -> Seq(S)] /\ f[0] = <<>>
      /\ \A n \in 1 .. last : f[n] = F[n][f[n - 1]]
  BY <1>2 DEF Iteration
<1>4. \A n \in 1 .. last : f[n] = f[n - 1] \o chunks[n]
  <2>. TAKE n \in 1 .. last
  <2>. HIDE DEF F, last
  <2>1. n - 1 \in 0 .. last
    BY <1>1
  <2>2. f[n - 1] \in Seq(S)
    BY <1>3, <2>1
  <2>. QED BY <1>3, <2>2 DEF F
<1>. HIDE DEF F
<1>5. f[1] = chunks[1]
  <2>. HIDE DEF last
  <2>1. 1 \in 1 .. last /\ 1 - 1 = 0
    BY <1>1
  <2>2. f[1] = <<>> \o chunks[1] /\ chunks[1] \in Seq(S)
    BY <1>1, <1>3, <1>4, <2>1
  <2>. QED BY <2>2
<1>. DEFINE g == [n \in 1 .. last |-> f[n]]
<1>6. Joins(chunks, g)
  <2>1. \A n \in 1 .. last : g[n] = IF n = 1 THEN chunks[n] ELSE g[n - 1] \o chunks[n]
    <3>. TAKE n \in 1 .. last
    <3>. HIDE DEF last
    <3>1. CASE n = 1
      BY <1>5, <3>1
    <3>2. CASE n # 1
      <4>1. n - 1 \in 1 .. last
        BY <1>1, <3>2
      <4>. QED BY <1>4, <3>2, <4>1
    <3>. QED BY <3>1, <3>2
  <2>. HIDE DEF last
  <2>2. g = [n \in 1 .. last |-> IF n = 1 THEN chunks[n] ELSE g[n - 1] \o chunks[n]]
    BY <2>1
  <2>. HIDE DEF g
  <2>. QED BY <2>2, Zenon DEF Joins, last
<1>7. FlattenSeq(chunks) = (CHOOSE whole : Joins(chunks, whole))[last]
  <2>1. Len(chunks) # 0
    BY <1>1
  <2>. QED BY <2>1, Zenon DEF FlattenSeq, Joins
<1>. HIDE DEF g
<1>8. PICK whole : Joins(chunks, whole) /\ FlattenSeq(chunks) = whole[last]
  BY <1>6, <1>7
<1>9. /\ whole = [n \in 1 .. last |-> IF n = 1 THEN chunks[n] ELSE whole[n - 1] \o chunks[n]]
      /\ 1 \in 1 .. last /\ \A n \in 2 .. last : n \in 1 .. last /\ n # 1 /\ n - 1 \in 1 .. last
  <2>1. whole = [n \in 1 .. last |-> IF n = 1 THEN chunks[n] ELSE whole[n - 1] \o chunks[n]]
    BY <1>8, Zenon DEF Joins
  <2>. HIDE DEF last
  <2>2. 1 \in 1 .. last /\ \A n \in 2 .. last : n \in 1 .. last /\ n # 1 /\ n - 1 \in 1 .. last
    BY <1>1
  <2>. QED BY <2>1, <2>2, Zenon
<1>. HIDE DEF last
<1>10. whole[1] = chunks[1] /\ \A n \in 2 .. last : whole[n] = whole[n - 1] \o chunks[n]
  BY <1>9
<1>11. \A n \in 1 .. last : whole[n] \in Seq(S)
  <2>. DEFINE T == {n \in 0 .. last : n = 0 \/ whole[n] \in Seq(S)}
  <2>1. 0 \in T
    BY <1>1
  <2>2. ASSUME NEW n \in 1 .. last, n - 1 \in T PROVE n \in T
    <3>1. CASE n = 1
      BY <1>1, <1>10, <3>1
    <3>2. CASE n # 1
      <4>1. n \in 2 .. last /\ n - 1 # 0
        BY <1>1, <3>2
      <4>2. whole[n] = whole[n - 1] \o chunks[n] /\ whole[n - 1] \in Seq(S) /\ chunks[n] \in Seq(S)
        BY <1>1, <1>10, <2>2, <4>1
      <4>3. whole[n] \in Seq(S)
        BY <4>2
      <4>. QED BY <4>3
    <3>. QED BY <3>1, <3>2
  <2>3. 0 .. last \subseteq T
    <3>. HIDE DEF T
    <3>. QED BY <1>1, <2>1, <2>2, UpTo
  <2>. QED BY <2>3
<1>12. whole \in [1 .. last -> Seq(S)]
  BY <1>9, <1>11
<1>. QED BY <1>8, <1>10, <1>12 DEF last, IsJoined

\* Another chunk is put after those there are.
LEMMA FlattenMore ==
  ASSUME NEW S, NEW chunks \in Seq(Seq(S)), NEW chunk \in Seq(S)
  PROVE  FlattenSeq(chunks) \in Seq(S) /\ FlattenSeq(Append(chunks, chunk)) = FlattenSeq(chunks) \o chunk
<1>. DEFINE more == Append(chunks, chunk)
            last == Len(chunks)
<1>1. /\ more \in Seq(Seq(S)) /\ Len(more) = last + 1 /\ last \in Nat /\ more # <<>>
      /\ \A n \in 1 .. last : more[n] = chunks[n]
      /\ more[last + 1] = chunk
  BY AppendProperties
<1>2. PICK b \in [1 .. last + 1 -> Seq(S)] :
        /\ b[1] = more[1] /\ FlattenSeq(more) = b[last + 1]
        /\ \A n \in 2 .. last + 1 : b[n] = b[n - 1] \o more[n]
  <2>. HIDE DEF more
  <2>1. PICK b : IsJoined(S, more, b)
    BY <1>1, FlattenIs
  <2>. QED BY <1>1, <2>1 DEF IsJoined
<1>3. CASE chunks = <<>>
  <2>1. FlattenSeq(chunks) = <<>>
    BY <1>3 DEF FlattenSeq
  <2>2. FlattenSeq(more) = chunk
    BY <1>1, <1>2, <1>3
  <2>. QED BY <2>1, <2>2
<1>4. CASE chunks # <<>>
  <2>1. PICK a \in [1 .. last -> Seq(S)] :
          /\ a[1] = chunks[1] /\ FlattenSeq(chunks) = a[last]
          /\ \A n \in 2 .. last : a[n] = a[n - 1] \o chunks[n]
    BY <1>4, FlattenIs DEF IsJoined
  <2>2. last \in Nat \ {0}
    BY <1>4
  <2>. HIDE DEF more, last
  <2>3. a[last] = b[last]
    <3>. DEFINE T == {n \in 0 .. last : n = 0 \/ a[n] = b[n]}
    <3>1. 0 \in T
      BY <1>1
    <3>2. ASSUME NEW n \in 1 .. last, n - 1 \in T PROVE n \in T
      <4>1. CASE n = 1
        BY <1>1, <1>2, <2>1, <4>1
      <4>2. CASE n # 1
        <5>1. n \in 2 .. last /\ n \in 2 .. last + 1 /\ n - 1 # 0
          BY <1>1, <4>2
        <5>2. a[n] = a[n - 1] \o chunks[n] /\ b[n] = b[n - 1] \o more[n] /\ more[n] = chunks[n] /\ a[n - 1] = b[n - 1]
          BY <1>1, <1>2, <2>1, <3>2, <5>1
        <5>3. a[n] = b[n]
          BY <5>2
        <5>. QED BY <5>3
      <4>. QED BY <4>1, <4>2
    <3>3. 0 .. last \subseteq T
      <4>. HIDE DEF T
      <4>. QED BY <1>1, <3>1, <3>2, UpTo
    <3>. QED BY <2>2, <3>3
  <2>4. b[last + 1] = b[last] \o chunk
    <3>1. last + 1 \in 2 .. last + 1 /\ (last + 1) - 1 = last
      BY <2>2
    <3>. QED BY <1>1, <1>2, <3>1
  <2>5. a[last] \in Seq(S)
    BY <2>1, <2>2
  <2>. QED BY <1>2, <2>1, <2>3, <2>4, <2>5 DEF more
<1>. QED BY <1>3, <1>4

(***************************************************************************)
(* The cut.                                                                *)
(***************************************************************************)

CutType == [chunks : Seq(Seq(Known)), chunk : Seq(Known), length : Nat]

\* A chunk holds a file, and fits the limit unless it is the only one.
Fits(limit, chunk) == chunk # <<>> /\ (Len(chunk) > 1 => LineLength(chunk) <= limit)

\* What has been cut holds the first n files, each once and in order.
CutSoFar(given, limit, n, cut) ==
  /\ cut \in CutType /\ cut.length = LineLength(cut.chunk)
  /\ FlattenSeq(cut.chunks) \o cut.chunk = SubSeq(given, 1, n)
  /\ \A i \in 1 .. Len(cut.chunks) : Fits(limit, cut.chunks[i])
  /\ cut.chunk # <<>> => Fits(limit, cut.chunk)

\* Appending files is associative.
LEMMA Associates == \A s, u, v \in Seq(Known) : (s \o u) \o v = s \o (u \o v)
<1>. TAKE s \in Seq(Known), u \in Seq(Known), v \in Seq(Known)
<1>. QED OBVIOUS

\* One more chunk, and the file in the next.
LEMMA CutStarts ==
  ASSUME NEW given \in Seq(Known), NEW limit \in Nat, NEW n \in 1 .. Len(given), NEW cut,
         CutSoFar(given, limit, n - 1, cut), cut.chunk # <<>>
  PROVE  CutSoFar(given, limit, n, [chunks |-> Append(cut.chunks, cut.chunk), chunk |-> <<given[n]>>,
                                    length |-> BaseLength + FileLength(given[n])])
<1>. DEFINE f      == given[n]
            chunks == Append(cut.chunks, cut.chunk)
<1>1. f \in Known /\ FileLength(f) \in Nat /\ BaseLength \in Nat
  BY FileLengthIs, PathsAssumption
<1>2. cut.chunks \in Seq(Seq(Known)) /\ cut.chunk \in Seq(Known)
  BY DEF CutSoFar, CutType
<1>3. /\ chunks \in Seq(Seq(Known)) /\ Len(chunks) = Len(cut.chunks) + 1
      /\ \A i \in 1 .. Len(cut.chunks) : chunks[i] = cut.chunks[i]
      /\ chunks[Len(cut.chunks) + 1] = cut.chunk
  BY <1>2, AppendProperties
<1>4. FlattenSeq(chunks) = SubSeq(given, 1, n - 1)
  BY <1>2, FlattenMore DEF CutSoFar
<1>5. SubSeq(given, 1, n) = SubSeq(given, 1, n - 1) \o <<f>>
  BY SubSeqRecursiveSecond
<1>6. LineLength(<<f>>) = BaseLength + FileLength(f) /\ <<f>> \in Seq(Known) /\ Len(<<f>>) = 1 /\ <<f>> # <<>>
  <2>1. <<>> \in Seq(Known) /\ Append(<<>>, f) = <<f>>
    OBVIOUS
  <2>2. LineLength(<<>>) = BaseLength /\ LineLength(Append(<<>>, f)) = LineLength(<<>>) + FileLength(f)
    <3>. HIDE DEF f
    <3>. QED BY <1>1, <2>1, LineGrows
  <2>3. <<f>> \in Seq(Known) /\ Len(<<f>>) = 1 /\ <<f>> # <<>>
    BY <1>1
  <2>. QED BY <2>1, <2>2, <2>3
<1>7. \A i \in 1 .. Len(chunks) : Fits(limit, chunks[i])
  <2>1. Len(cut.chunks) \in Nat
    BY <1>2
  <2>2. Fits(limit, cut.chunk) /\ \A i \in 1 .. Len(cut.chunks) : Fits(limit, cut.chunks[i])
    BY DEF CutSoFar
  <2>3. \A i \in 1 .. Len(chunks) : i \in 1 .. Len(cut.chunks) \/ i = Len(cut.chunks) + 1
    <3>. HIDE DEF chunks
    <3>. QED BY <1>3, <2>1
  <2>. HIDE DEF chunks
  <2>. QED BY <1>3, <2>2, <2>3
<1>8. Fits(limit, <<f>>)
  BY <1>6 DEF Fits
<1>9. BaseLength + FileLength(f) \in Nat
  BY <1>1
<1>. HIDE DEF chunks, f
<1>. QED BY <1>3, <1>4, <1>5, <1>6, <1>7, <1>8, <1>9 DEF CutSoFar, CutType, chunks, f

\* The file is added to the chunk.
LEMMA CutGoesOn ==
  ASSUME NEW given \in Seq(Known), NEW limit \in Nat, NEW n \in 1 .. Len(given), NEW cut,
         CutSoFar(given, limit, n - 1, cut),
         cut.chunk = <<>> \/ cut.length + FileLength(given[n]) <= limit
  PROVE  CutSoFar(given, limit, n, [chunks |-> cut.chunks, chunk |-> Append(cut.chunk, given[n]),
                                    length |-> cut.length + FileLength(given[n])])
<1>. DEFINE f     == given[n]
            chunk == Append(cut.chunk, f)
<1>1. f \in Known /\ FileLength(f) \in Nat
  BY FileLengthIs
<1>2. /\ cut.chunks \in Seq(Seq(Known)) /\ cut.chunk \in Seq(Known) /\ cut.length \in Nat
      /\ cut.length = LineLength(cut.chunk)
  BY DEF CutSoFar, CutType
<1>3. chunk \in Seq(Known) /\ chunk # <<>> /\ Len(chunk) = Len(cut.chunk) + 1 /\ chunk = cut.chunk \o <<f>>
  <2>. HIDE DEF f
  <2>1. chunk \in Seq(Known) /\ chunk # <<>> /\ Len(chunk) = Len(cut.chunk) + 1
    BY <1>1, <1>2, AppendProperties
  <2>2. chunk = cut.chunk \o <<f>>
    BY <1>1, <1>2, AppendIsConcat
  <2>. QED BY <2>1, <2>2
<1>4. FlattenSeq(cut.chunks) \in Seq(Known) /\ <<f>> \in Seq(Known)
  BY <1>1, <1>2, FlattenMore
<1>5. FlattenSeq(cut.chunks) \o chunk = (FlattenSeq(cut.chunks) \o cut.chunk) \o <<f>>
  <2>1. (FlattenSeq(cut.chunks) \o cut.chunk) \o <<f>> = FlattenSeq(cut.chunks) \o (cut.chunk \o <<f>>)
    <3>1. \A s, u, v \in Seq(Known) : (s \o u) \o v = s \o (u \o v)
      BY Associates
    <3>. HIDE DEF f
    <3>. DEFINE s == FlattenSeq(cut.chunks)
                v == <<f>>
    <3>. HIDE DEF s, v
    <3>2. s \in Seq(Known) /\ cut.chunk \in Seq(Known) /\ v \in Seq(Known)
      BY <1>2, <1>4 DEF s, v
    <3>3. (s \o cut.chunk) \o v = s \o (cut.chunk \o v)
      BY <3>1, <3>2, Zenon
    <3>. QED BY <3>3 DEF s, v
  <2>. HIDE DEF chunk, f
  <2>. QED BY <1>3, <2>1
<1>6. FlattenSeq(cut.chunks) \o chunk = SubSeq(given, 1, n)
  BY <1>5, SubSeqRecursiveSecond DEF CutSoFar
<1>7. LineLength(chunk) = cut.length + FileLength(f) /\ cut.length + FileLength(f) \in Nat
  BY <1>1, <1>2, LineGrows
<1>8. Len(chunk) > 1 => cut.chunk # <<>>
  BY <1>2, <1>3
<1>9. Fits(limit, chunk)
  <2>. HIDE DEF chunk
  <2>. QED BY <1>3, <1>7, <1>8 DEF Fits
<1>10. \A i \in 1 .. Len(cut.chunks) : Fits(limit, cut.chunks[i])
  BY DEF CutSoFar
<1>. HIDE DEF chunk, f
<1>. QED BY <1>2, <1>3, <1>6, <1>7, <1>9, <1>10 DEF CutSoFar, CutType, chunk, f

\* One more file, in either case.
LEMMA CutStep ==
  ASSUME NEW given \in Seq(Known), NEW limit \in Nat, NEW n \in 1 .. Len(given), NEW cut,
         CutSoFar(given, limit, n - 1, cut)
  PROVE  CutSoFar(given, limit, n, AddFile(limit, cut, given[n]))
<1>1. cut.length \in Nat /\ FileLength(given[n]) \in Nat
  BY FileLengthIs DEF CutSoFar, CutType
<1>2. CASE cut.length + FileLength(given[n]) > limit /\ cut.chunk # <<>>
  BY <1>2, CutStarts DEF AddFile
<1>3. CASE cut.length + FileLength(given[n]) <= limit \/ cut.chunk = <<>>
  BY <1>1, <1>3, CutGoesOn DEF AddFile
<1>. QED BY <1>1, <1>2, <1>3

\* cut is what has been cut after each file.
Cuts(given, limit, cut) ==
  cut = [n \in 0 .. Len(given) |-> IF n = 0 THEN Uncut ELSE AddFile(limit, cut[n - 1], given[n])]

\* Adding a file keeps the types.
LEMMA AddFileType ==
  ASSUME NEW limit, NEW cut \in CutType, NEW f \in Known
  PROVE  AddFile(limit, cut, f) \in CutType
<1>1. cut.chunks \in Seq(Seq(Known)) /\ cut.chunk \in Seq(Known) /\ cut.length \in Nat
  BY DEF CutType
<1>2. Append(cut.chunks, cut.chunk) \in Seq(Seq(Known)) /\ Append(cut.chunk, f) \in Seq(Known) /\ <<f>> \in Seq(Known)
  BY <1>1, AppendProperties
<1>3. BaseLength + FileLength(f) \in Nat /\ cut.length + FileLength(f) \in Nat
  BY <1>1, FileLengthIs, PathsAssumption
<1>. QED BY <1>1, <1>2, <1>3 DEF AddFile, CutType

\* What Chunks returns has cut all the files.
LEMMA CutIs ==
  ASSUME NEW given \in Seq(Known), NEW limit \in Nat
  PROVE  \E cut : /\ CutSoFar(given, limit, Len(given), cut)
                  /\ Chunks(given, limit) = IF cut.chunk = <<>> THEN cut.chunks ELSE Append(cut.chunks, cut.chunk)
<1>. DEFINE last == Len(given)
            F == [n \in 1 .. last |-> [cut \in CutType |-> AddFile(limit, cut, given[n])]]
<1>1. F \in [1 .. last -> [CutType -> CutType]] /\ last \in Nat
  BY AddFileType
<1>2. Uncut \in CutType
  BY PathsAssumption DEF Uncut, CutType
<1>3. PICK f : Iteration(f, last, CutType, Uncut, F)
  <2>. HIDE DEF F, last
  <2>. QED BY <1>1, <1>2, Iterates
<1>4. /\ f \in [0 .. last -> CutType] /\ f[0] = Uncut
      /\ \A n \in 1 .. last : f[n] = F[n][f[n - 1]]
  BY <1>3 DEF Iteration
<1>5. Cuts(given, limit, f)
  <2>1. \A n \in 0 .. last : f[n] = IF n = 0 THEN Uncut ELSE AddFile(limit, f[n - 1], given[n])
    <3>. TAKE n \in 0 .. last
    <3>. HIDE DEF F, last
    <3>1. CASE n = 0
      BY <1>4, <3>1
    <3>2. CASE n # 0
      <4>1. n \in 1 .. last /\ n - 1 \in 0 .. last
        BY <1>1, <3>2
      <4>2. f[n - 1] \in CutType
        BY <1>4, <4>1
      <4>. QED BY <1>4, <3>2, <4>1, <4>2 DEF F
    <3>. QED BY <3>1, <3>2
  <2>. HIDE DEF F, last
  <2>2. f = [n \in 0 .. last |-> IF n = 0 THEN Uncut ELSE AddFile(limit, f[n - 1], given[n])]
    BY <1>4, <2>1
  <2>. QED BY <2>2, Zenon DEF Cuts, last
<1>. DEFINE Cut == CHOOSE cut : Cuts(given, limit, cut)
<1>6. Chunks(given, limit) = IF Cut[last].chunk = <<>> THEN Cut[last].chunks
                             ELSE Append(Cut[last].chunks, Cut[last].chunk)
  BY Zenon DEF Chunks, Cuts
<1>. HIDE DEF F
<1>7. Cuts(given, limit, Cut)
  BY <1>5
<1>. HIDE DEF Cut
<1>8. Cut = [n \in 0 .. last |-> IF n = 0 THEN Uncut ELSE AddFile(limit, Cut[n - 1], given[n])]
  BY <1>7, Zenon DEF Cuts
<1>9. CutSoFar(given, limit, last, Cut[last])
  <2>. DEFINE T == {n \in 0 .. last : CutSoFar(given, limit, n, Cut[n])}
  <2>1. 0 \in T
    <3>1. Cut[0] = Uncut /\ 0 \in 0 .. last
      <4>. HIDE DEF last
      <4>. QED BY <1>1, <1>8
    <3>2. CutSoFar(given, limit, 0, Uncut)
      <4>1. LineLength(<<>>) = BaseLength
        BY LineLengthIs
      <4>2. FlattenSeq(<<>>) = <<>> /\ SubSeq(given, 1, 0) = <<>>
        <5>1. FlattenSeq(<<>>) = <<>>
          BY DEF FlattenSeq
        <5>2. SubSeq(given, 1, 0) = <<>>
          BY SubSeqEmpty
        <5>. QED BY <5>1, <5>2
      <4>3. Uncut.chunks = <<>> /\ Uncut.chunk = <<>> /\ Uncut.length = BaseLength
        BY DEF Uncut
      <4>4. Uncut \in CutType
        BY <1>2
      <4>5. FlattenSeq(Uncut.chunks) \o Uncut.chunk = SubSeq(given, 1, 0)
        <5>1. <<>> \o <<>> = <<>>
          OBVIOUS
        <5>. QED BY <4>2, <4>3, <5>1
      <4>6. Uncut.length = LineLength(Uncut.chunk) /\ Len(Uncut.chunks) = 0
        BY <4>1, <4>3
      <4>7. \A i \in 1 .. Len(Uncut.chunks) : Fits(limit, Uncut.chunks[i])
        BY <4>6
      <4>8. Uncut.chunk # <<>> => Fits(limit, Uncut.chunk)
        BY <4>3
      <4>. QED BY <4>4, <4>5, <4>6, <4>7, <4>8 DEF CutSoFar
    <3>. QED BY <3>1, <3>2
  <2>2. ASSUME NEW n \in 1 .. last, n - 1 \in T PROVE n \in T
    <3>1. Cut[n] = AddFile(limit, Cut[n - 1], given[n]) /\ n \in 0 .. last
      <4>. HIDE DEF last, T
      <4>. QED BY <1>1, <1>8
    <3>2. CutSoFar(given, limit, n - 1, Cut[n - 1])
      BY <2>2
    <3>. QED BY <3>1, <3>2, CutStep
  <2>3. 0 .. last \subseteq T
    <3>. HIDE DEF T, last
    <3>. QED BY <1>1, <2>1, <2>2, UpTo
  <2>. QED BY <1>1, <2>3
<1>. QED BY <1>6, <1>9

\* The cut of a list of files.
LEMMA ChunksAre ==
  ASSUME NEW given \in Seq(Known), NEW limit \in Nat
  PROVE  /\ FlattenSeq(Chunks(given, limit)) = given
         /\ \A chunk \in ToSet(Chunks(given, limit)) : Fits(limit, chunk)
<1>1. PICK cut : /\ CutSoFar(given, limit, Len(given), cut)
                 /\ Chunks(given, limit) = IF cut.chunk = <<>> THEN cut.chunks ELSE Append(cut.chunks, cut.chunk)
  BY CutIs
<1>2. /\ cut.chunks \in Seq(Seq(Known)) /\ cut.chunk \in Seq(Known)
      /\ FlattenSeq(cut.chunks) \o cut.chunk = given
      /\ \A i \in 1 .. Len(cut.chunks) : Fits(limit, cut.chunks[i])
  BY <1>1, SubSeqFull DEF CutSoFar, CutType
<1>3. CASE cut.chunk = <<>>
  <2>1. FlattenSeq(cut.chunks) = given
    <3>1. FlattenSeq(cut.chunks) \in Seq(Known)
      BY <1>2, FlattenMore
    <3>. DEFINE s == FlattenSeq(cut.chunks)
    <3>. HIDE DEF s
    <3>2. s \o <<>> = s
      BY <3>1 DEF s
    <3>. QED BY <1>2, <1>3, <3>2 DEF s
  <2>2. Chunks(given, limit) = cut.chunks
    BY <1>1, <1>3
  <2>. DEFINE chunks == cut.chunks
  <2>3. chunks \in Seq(Seq(Known)) /\ \A i \in 1 .. Len(chunks) : Fits(limit, chunks[i])
    BY <1>2
  <2>. HIDE DEF chunks
  <2>4. \A chunk \in ToSet(chunks) : Fits(limit, chunk)
    <3>1. DOMAIN chunks = 1 .. Len(chunks)
      BY <2>3, LenProperties
    <3>. QED BY <2>3, <3>1 DEF ToSet
  <2>. QED BY <2>1, <2>2, <2>4 DEF chunks
<1>4. CASE cut.chunk # <<>>
  <2>. DEFINE chunks == Append(cut.chunks, cut.chunk)
  <2>1. FlattenSeq(chunks) = given
    BY <1>2, FlattenMore
  <2>2. Fits(limit, cut.chunk)
    BY <1>1, <1>4 DEF CutSoFar
  <2>3. /\ chunks \in Seq(Seq(Known)) /\ Len(chunks) = Len(cut.chunks) + 1 /\ Len(cut.chunks) \in Nat
        /\ \A i \in 1 .. Len(cut.chunks) : chunks[i] = cut.chunks[i]
        /\ chunks[Len(cut.chunks) + 1] = cut.chunk
    BY <1>2, AppendProperties
  <2>4. Chunks(given, limit) = chunks
    BY <1>1, <1>4
  <2>. HIDE DEF chunks
  <2>5. \A i \in DOMAIN chunks : i \in 1 .. Len(cut.chunks) \/ i = Len(cut.chunks) + 1
    BY <2>3
  <2>. QED BY <1>2, <2>1, <2>2, <2>3, <2>4, <2>5 DEF ToSet
<1>. QED BY <1>3, <1>4

\* The files of a task, put in a list.
LEMMA ListOf ==
  ASSUME NEW S \in SUBSET Known
  PROVE  SetToSeq(S) \in Seq(Known)
<1>. DEFINE n == Cardinality(S)
<1>1. IsFiniteSet(S)
  BY FS_Subset, PathsAssumption
<1>2. n \in Nat /\ ExistsBijection(1 .. n, S)
  BY <1>1, FS_CardinalityType
<1>3. PICK f \in [1 .. n -> S] : IsInjective(f)
  <2>1. PICK f \in [1 .. n -> S] : \A a, b \in 1 .. n : f[a] = f[b] => a = b
    BY <1>2 DEF ExistsBijection, Bijection, Injection, IsInjective
  <2>2. IsInjective(f)
    BY <2>1 DEF IsInjective
  <2>. QED BY <2>1, <2>2
<1>4. SetToSeq(S) \in [1 .. n -> S]
  <2>. HIDE DEF n
  <2>. QED BY <1>3, Zenon DEF SetToSeq, n
<1>. HIDE DEF n
<1>. QED BY <1>2, <1>4

\* The files of a plan are files of the tree.
FilesKnown == \A t \in TasksOf(plan) : t.files \subseteq Known

\* The files of every task are files of the tree.
LEMMA FilesKnownHolds == Spec => []FilesKnown
<1>1. Init => FilesKnown
  BY NoTasks DEF Init, FilesKnown
<1>2. Shapes /\ MemosInvariant /\ FilesKnown /\ [Next]_vars => FilesKnown'
  <2>. SUFFICES ASSUME Shapes, MemosInvariant, FilesKnown, [Next]_vars, NEW t \in TasksOf(plan')
                PROVE  t.files \subseteq Known
    BY DEF FilesKnown, TasksOf
  <2>1. CASE plan' = NoPlan
    BY <2>1, NoTasks
  <2>2. CASE Sound /\ request \in Requests /\ plan' = PlanFor(request)
    BY <2>2, FilesMatch
  <2>3. CASE plan' = plan
    BY <2>3 DEF FilesKnown
  <2>. QED BY <2>1, <2>2, <2>3, PlanSteps
<1>. QED BY <1>1, <1>2, ShapesHold, MemosSound, PTL DEF Spec

\* The cut of a task's files gives every file once, in lines that fit.
LEMMA CutIsRightHolds == Spec => []CutIsRight
<1>1. argv = NoCut => CutIsRight
  <2>. SUFFICES ASSUME argv = NoCut PROVE CutIsRight
    OBVIOUS
  <2>1. argv.chunks = <<>> /\ argv.files = <<>>
    BY DEF NoCut
  <2>2. FlattenSeq(<<>>) = <<>>
    BY DEF FlattenSeq
  <2>3. ToSet(<<>>) = {}
    BY DEF ToSet
  <2>. QED BY <2>1, <2>2, <2>3 DEF CutIsRight, CutLosesNothing, CutFits
<1>2. Init => CutIsRight
  BY <1>1 DEF Init
<1>3. FilesKnown /\ CutIsRight /\ [Next]_vars => CutIsRight'
  <2>. SUFFICES ASSUME FilesKnown, CutIsRight, [Next]_vars PROVE CutIsRight'
    OBVIOUS
  <2>1. CASE UNCHANGED argv
    BY <2>1 DEF CutIsRight, CutLosesNothing, CutFits
  <2>2. ASSUME NEW r \in Requests, BeginPlan(r) PROVE CutIsRight'
    <3>1. argv' = NoCut
      BY <2>2 DEF BeginPlan
    <3>2. argv'.chunks = <<>> /\ argv'.files = <<>>
      BY <3>1 DEF NoCut
    <3>3. FlattenSeq(<<>>) = <<>> /\ ToSet(<<>>) = {}
      BY DEF FlattenSeq, ToSet
    <3>. QED BY <3>2, <3>3 DEF CutIsRight, CutLosesNothing, CutFits
  <2>3. ASSUME NEW t \in TasksOf(plan), NEW limit \in Limits, Chunk(t, limit) PROVE CutIsRight'
    <3>. DEFINE given == SetToSeq(t.files)
    <3>1. given \in Seq(Known) /\ limit \in Nat
      BY ListOf, PathsAssumption DEF FilesKnown
    <3>2. argv'.files = given /\ argv'.limit = limit /\ argv'.chunks = Chunks(given, limit)
      BY <2>3 DEF Chunk
    <3>. HIDE DEF given
    <3>3. /\ FlattenSeq(Chunks(given, limit)) = given
          /\ \A chunk \in ToSet(Chunks(given, limit)) : Fits(limit, chunk)
      BY <3>1, ChunksAre
    <3>. QED BY <3>2, <3>3 DEF CutIsRight, CutLosesNothing, CutFits, Fits
  <2>4. CASE SeedFiles
    BY <2>1, <2>4 DEF SeedFiles
  <2>5. CASE Invalidate
    BY <2>1, <2>5 DEF Invalidate
  <2>6. CASE FinishPlan
    BY <2>1, <2>6 DEF FinishPlan
  <2>7. ASSUME NEW f \in Volatile, EditTree(f) PROVE CutIsRight'
    BY <2>1, <2>7 DEF EditTree
  <2>8. ASSUME NEW content \in RuleFiles, EditRules(content) PROVE CutIsRight'
    BY <2>1, <2>8 DEF EditRules
  <2>9. CASE UNCHANGED vars
    BY <2>1, <2>9 DEF vars
  <2>. QED BY <2>2, <2>3, <2>4, <2>5, <2>6, <2>7, <2>8, <2>9 DEF Next
<1>. QED BY <1>2, <1>3, FilesKnownHolds, PTL DEF Spec

\* Every file the rules leave a tool is in exactly one of its tasks, the one of
\* its nearest project, and in exactly one of the command lines of the task, each
\* of which fits the limit unless it holds one file (groupFilesByProject,
\* chunkFilesByCommandLength).
THEOREM EachFileOnceHolds == Spec => []EachFileOnce
  BY TypeCorrect, FileOnceHolds, NothingMissedHolds, OwnProjectHolds, CutIsRightHolds, PTL DEF EachFileOnce
=============================================================================
