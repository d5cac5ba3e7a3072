----------------------------- MODULE ExecCache -----------------------------
(***************************************************************************)
(* The execution cache at work (internal/cache, internal/tooling): CLI     *)
(* runs and language-server sessions share one cache file per project.     *)
(* Each process keeps a copy in memory, consults it before it runs a tool, *)
(* records what passed, and writes it back as merge, encode, rename, with  *)
(* no lock between processes.  Editors change files, and the configuration *)
(* changes, at any moment.                                                 *)
(***************************************************************************)
EXTENDS CacheFile, FiniteSets

CONSTANTS
  Procs,        \* processes that open the cache
  Sessions,     \* those that are language servers (SetYieldToForeignKey)
  Workers,      \* executor workers, one tool run at a time each
  Owner,        \* Owner[w]: the process worker w belongs to
  Tasks,        \* <<tool, op, target>> the configuration plans; target: file or unit
  None,
  Restoring,    \* may a writer put back bytes a running lint has observed?
  Interfering,  \* may others write the files a running fix is working on?
  ClockJumps,   \* may the clock be set back?
  Bounds        \* bounds of the model: how often, together, what may happen

Counters == {"edits", "configs", "failures", "ticks", "clears", "opens", "lint", "fix"}

ASSUME ExecAssumption ==
  /\ Sessions \subseteq Procs
  /\ Owner \in [Workers -> Procs]
  /\ Tasks \subseteq Tools \X Ops \X (Files \cup Units)
  /\ None \notin Keys \cup Files \cup Units \cup Tools \cup Workers
  /\ {Restoring, Interfering, ClockJumps} \subseteq BOOLEAN
  /\ Bounds \subseteq [Counters -> Nat]

VARIABLES
  content,     \* what every path holds
  config,      \* the key a process computes when it loads the configuration
  clock,
  disk,        \* the cache file
  life,        \* "down", "up", or up and "exiting" or "reloading"
  key,         \* per process: the key it loaded under
  held,        \* per process: keys of the sessions its reloads replaced
  entries, verdicts,       \* per process: the cache in memory
  goneFiles, goneIds,      \* per process: tombstones
  dirty,       \* per process: MarkDirty since the last flush began
  save,        \* per process: the Save in progress; saw and moved are history: the
               \* file merged, and the paths recorded under other bytes since
  job,         \* per worker: the tool run in progress
  unsaved,     \* history: memory holds a pass no Save has encoded
  spent        \* how often each has happened

mem  == <<key, held, entries, verdicts, goneFiles, goneIds>>
vars == <<content, config, clock, disk, life, mem, dirty, save, job, unsaved, spent>>

NoFile  == [key |-> None, entries |-> NoEntries, verdicts |-> NoVerdicts]
NoSave  == [phase |-> "idle", boot |-> FALSE, saw |-> NoFile, moved |-> {},
            payload |-> NoFile]
NoJob   == [phase |-> "idle", op |-> "lint", tool |-> None, target |-> None,
            handed |-> {}, seen |-> NoInputs, read |-> NoInputs, after |-> NoInputs]

FileData == [key : Keys \cup {None}, entries : [Files -> Entry],
             verdicts : [Ids -> Verdict]]
SaveState == [phase : {"idle", "merge", "encode", "rename"}, boot : BOOLEAN,
              saw : FileData, moved : SUBSET Files, payload : FileData]
Observations == UNION {[S -> Bytes] : S \in SUBSET Paths}
JobState == [phase : {"idle", "observe", "run", "probe"}, op : Ops,
             tool : Tools \cup {None}, target : Files \cup Units \cup {None},
             handed : SUBSET Files,
             seen : Observations, read : Observations, after : Observations]

Extend(fun, x, b) == [y \in DOMAIN fun \cup {x} |-> IF y = x THEN b ELSE fun[y]]
Spend(c) == /\ spent' = [spent EXCEPT ![c] = @ + 1]
            /\ \E bound \in Bounds : \A x \in Counters : spent'[x] <= bound[x]

\* The paths a run's answer depends on.
Scope(j) == IF j.target \in Units THEN InputsOf(j.target) ELSE {j.target, Conf}

\* The next path of a pass over what is left of the scope: a unit's members in a
\* fixed order, then its guards; for a file the config digest is taken first.
Turn(j, left) ==
  IF j.target \in Units /\ left # {Conf} THEN CHOOSE x \in left \ {Conf} : TRUE
  ELSE IF Conf \in left THEN Conf ELSE CHOOSE x \in left : TRUE

\* perFileCacheTool, and the key half of verdictIdentity.
Pass(j)    == <<j.tool, j.seen[Conf]>>
Id(j)      == <<j.tool, j.op, j.target>>
Running(p) == {w \in Workers : Owner[w] = p /\ job[w].phase # "idle"}

(***************************************************************************)
(* The environment assumptions the soundness results are relative to.      *)
(***************************************************************************)

\* Nobody puts back bytes that a lint run in progress has observed.
PutsBack(w, x, b) ==
  \E v \in Workers \ {w} : /\ job[v].phase # "idle" /\ job[v].op = "lint"
                           /\ x \in DOMAIN job[v].seen
                           /\ b = job[v].seen[x] /\ content[x] # b

\* Nobody else writes what a running fix depends on.
Interferes(w, x) ==
  \E v \in Workers \ {w} : /\ job[v].phase \in {"run", "probe"} /\ job[v].op = "fix"
                           /\ x \in Scope(job[v])

MayWrite(w, x, b) == /\ PutsBack(w, x, b) => Restoring
                     /\ Interferes(w, x) => Interfering

Init ==
  /\ content \in [Paths -> Contents]
  /\ config \in Keys
  /\ clock = 0
  /\ disk = NoFile
  /\ life = [p \in Procs |-> "down"]
  /\ key = [p \in Procs |-> None]
  /\ held = [p \in Procs |-> {}]
  /\ entries = [p \in Procs |-> NoEntries]
  /\ verdicts = [p \in Procs |-> NoVerdicts]
  /\ goneFiles = [p \in Procs |-> {}]
  /\ goneIds = [p \in Procs |-> {}]
  /\ dirty = [p \in Procs |-> FALSE]
  /\ save = [p \in Procs |-> NoSave]
  /\ job = [w \in Workers |-> NoJob]
  /\ unsaved = [p \in Procs |-> FALSE]
  /\ spent = [c \in Counters |-> 0]

(***************************************************************************)
(* The environment.                                                        *)
(***************************************************************************)

Edit(x, b) ==
  /\ content[x] # b
  /\ MayWrite(None, x, b)
  /\ Spend("edits")
  /\ content' = [content EXCEPT ![x] = b]
  /\ UNCHANGED <<config, clock, disk, life, mem, dirty, save, job, unsaved>>

EditConfig(k) ==
  /\ config # k
  /\ Spend("configs")
  /\ config' = k
  /\ UNCHANGED <<content, clock, disk, life, mem, dirty, save, job, unsaved>>

Tick ==
  /\ Spend("ticks")
  /\ clock' \in {clock + 1} \cup (IF ClockJumps THEN 0 .. clock ELSE {})
  /\ UNCHANGED <<content, config, disk, life, mem, dirty, save, job, unsaved>>

\* ClearProject: another command removes the project's cache directory.
ClearProject ==
  /\ disk # NoFile
  /\ Spend("clears")
  /\ disk' = NoFile
  /\ UNCHANGED <<content, config, clock, life, mem, dirty, save, job, unsaved>>

(***************************************************************************)
(* A process opens, reloads and closes its cache.                          *)
(***************************************************************************)

\* NewCache and Load: entries of another configuration are discarded; a daily
\* prune is followed by a Save of its own before the cache is handed out.
Open(p, prune) ==
  LET ours == disk.key = config
      es   == IF ours THEN disk.entries ELSE NoEntries
      vs   == IF ours THEN disk.verdicts ELSE NoVerdicts
      oldE == IF prune THEN StaleEntries(es, content) ELSE {}
      oldV == IF prune THEN StaleVerdicts(vs, clock) ELSE {}
  IN  /\ prune => ours
      /\ key' = [key EXCEPT ![p] = config]
      /\ entries' = [entries EXCEPT ![p] = PruneEntries(es, oldE)]
      /\ verdicts' = [verdicts EXCEPT ![p] = PruneVerdicts(vs, oldV)]
      /\ goneFiles' = [goneFiles EXCEPT ![p] = oldE]
      /\ goneIds' = [goneIds EXCEPT ![p] = oldV]
      /\ life' = [life EXCEPT ![p] = "up"]
      /\ dirty' = [dirty EXCEPT ![p] = FALSE]
      /\ unsaved' = [unsaved EXCEPT ![p] = FALSE]
      /\ save' = [save EXCEPT ![p] =
                    IF prune THEN [NoSave EXCEPT !.phase = "merge", !.boot = TRUE]
                             ELSE NoSave]

Start(p, prune) ==
  /\ life[p] = "down"
  /\ Spend("opens")
  /\ Open(p, prune)
  /\ held' = [held EXCEPT ![p] = {}]
  /\ UNCHANGED <<content, config, clock, disk, job>>

\* Shutdown stops the timer and flushes; refreshSession closes the session's
\* cache before it opens the one of the configuration it just loaded.
Shutdown(p, why) ==
  /\ life[p] = "up" /\ Running(p) = {} /\ ~save[p].boot
  /\ why = "reloading" => p \in Sessions /\ config # key[p]
  /\ life' = [life EXCEPT ![p] = why]
  /\ UNCHANGED <<content, config, clock, disk, mem, dirty, save, job, unsaved, spent>>

Closed(p) == ~dirty[p] /\ save[p].phase = "idle"

Forgotten(p) ==
  /\ life' = [life EXCEPT ![p] = "down"]
  /\ key' = [key EXCEPT ![p] = None]
  /\ held' = [held EXCEPT ![p] = {}]
  /\ entries' = [entries EXCEPT ![p] = NoEntries]
  /\ verdicts' = [verdicts EXCEPT ![p] = NoVerdicts]
  /\ goneFiles' = [goneFiles EXCEPT ![p] = {}]
  /\ goneIds' = [goneIds EXCEPT ![p] = {}]
  /\ dirty' = [dirty EXCEPT ![p] = FALSE]
  /\ unsaved' = [unsaved EXCEPT ![p] = FALSE]
  /\ save' = [save EXCEPT ![p] = NoSave]

Exit(p) ==
  /\ life[p] = "exiting" /\ Closed(p)
  /\ Forgotten(p)
  /\ UNCHANGED <<content, config, clock, disk, job, spent>>

Reload(p, prune) ==
  /\ life[p] = "reloading" /\ Closed(p)
  /\ Spend("opens")
  /\ Open(p, prune)
  /\ held' = [held EXCEPT ![p] = @ \cup {key[p]}]
  /\ UNCHANGED <<content, config, clock, disk, job>>

\* The process dies; an unrenamed temp file is never read by anyone.
Crash(p) ==
  /\ life[p] # "down"
  /\ Spend("failures")
  /\ Forgotten(p)
  /\ job' = [w \in Workers |-> IF Owner[w] = p THEN NoJob ELSE job[w]]
  /\ UNCHANGED <<content, config, clock, disk>>

(***************************************************************************)
(* Save: merge what is on disk, encode, rename.  flushMu and saveMu admit  *)
(* one at a time per process; nothing excludes another process.            *)
(***************************************************************************)

\* Mutant of Flush: only while the process is up, so the last flush is left out.
FlushUp(p) ==
  /\ life[p] = "up" /\ dirty[p] /\ save[p].phase = "idle"
  /\ dirty' = [dirty EXCEPT ![p] = FALSE]
  /\ save' = [save EXCEPT ![p].phase = "merge"]
  /\ UNCHANGED <<content, config, clock, disk, life, mem, job, unsaved, spent>>

\* The debounce timer or Shutdown: the dirty flag is taken before the save.
Flush(p) ==
  /\ life[p] # "down" /\ dirty[p] /\ save[p].phase = "idle"
  /\ dirty' = [dirty EXCEPT ![p] = FALSE]
  /\ save' = [save EXCEPT ![p].phase = "merge"]
  /\ UNCHANGED <<content, config, clock, disk, life, mem, job, unsaved, spent>>

\* saveCache: a session saves after each format and leaves the flag alone.  A save
\* with nothing new to write is left out.
SessionSave(p) ==
  /\ p \in Sessions /\ life[p] = "up" /\ unsaved[p] /\ Running(p) = {}
  /\ save[p].phase = "idle"
  /\ save' = [save EXCEPT ![p].phase = "merge"]
  /\ UNCHANGED <<content, config, clock, disk, life, mem, dirty, job, unsaved, spent>>

\* Mutant of Foreign: mergeFromDisk without the key comparison.
NeverForeign(p) == FALSE

Foreign(p) == disk.key \notin {None, key[p]}

\* Mutant of Yields: a session opened without SetYieldToForeignKey.
NeverYields(p) == FALSE

\* NewCache saves a prune before newSession turns yield mode on.
Yields(p) == /\ p \in Sessions /\ ~save[p].boot
             /\ disk.key \notin held[p] \ {key[p]}

MergeYield(p) ==
  /\ save[p].phase = "merge" /\ Foreign(p) /\ Yields(p)
  /\ save' = [save EXCEPT ![p] = NoSave]
  /\ unsaved' = [unsaved EXCEPT ![p] = FALSE]
  /\ UNCHANGED <<content, config, clock, disk, life, mem, dirty, job, spent>>

MergeFromDisk(p) ==
  /\ save[p].phase = "merge"
  /\ ~(Foreign(p) /\ Yields(p))
  /\ save' = [save EXCEPT ![p].phase = "encode", ![p].saw = disk]
  /\ IF Foreign(p)
     THEN UNCHANGED <<entries, verdicts>>
     ELSE /\ entries' = [entries EXCEPT ![p] =
                           MergeEntries(@, disk.entries, goneFiles[p])]
          /\ verdicts' = [verdicts EXCEPT ![p] =
                           MergeVerdicts(@, disk.verdicts, goneIds[p], clock)]
  /\ UNCHANGED <<content, config, clock, disk, life, key, held, goneFiles, goneIds,
                 dirty, job, unsaved, spent>>

Encode(p) ==
  /\ save[p].phase = "encode"
  /\ save' = [save EXCEPT ![p].phase = "rename",
                ![p].payload = [key |-> key[p], entries |-> entries[p],
                                verdicts |-> verdicts[p]]]
  /\ unsaved' = [unsaved EXCEPT ![p] = FALSE]
  /\ UNCHANGED <<content, config, clock, disk, life, mem, dirty, job, spent>>

\* Mutant of Rename: the dirty flag is cleared when the save is done, not before.
RenameThenClean(p) ==
  /\ save[p].phase = "rename"
  /\ disk' = save[p].payload
  /\ save' = [save EXCEPT ![p] = NoSave]
  /\ dirty' = [dirty EXCEPT ![p] = FALSE]
  /\ UNCHANGED <<content, config, clock, life, mem, job, unsaved, spent>>

Rename(p) ==
  /\ save[p].phase = "rename"
  /\ disk' = save[p].payload
  /\ save' = [save EXCEPT ![p] = NoSave]
  /\ UNCHANGED <<content, config, clock, life, mem, dirty, job, unsaved, spent>>

\* writeFileAtomic fails: the file keeps its old bytes, the save is logged.
WriteFails(p) ==
  /\ save[p].phase = "rename"
  /\ Spend("failures")
  /\ save' = [save EXCEPT ![p] = NoSave]
  /\ UNCHANGED <<content, config, clock, disk, life, mem, dirty, job, unsaved>>

(***************************************************************************)
(* A tool run.  Paths are observed, handed to the tool and probed again    *)
(* one at a time, and anyone may write between any two of these steps.     *)
(***************************************************************************)

\* The planner hands a unit task all its members or, narrowed, some of them.
Begin(w, task, handed) ==
  /\ job[w].phase = "idle"
  /\ life[Owner[w]] = "up" /\ ~save[Owner[w]].boot
  /\ Spend(task[2])
  /\ handed # {}
  /\ handed \subseteq (IF task[3] \in Units THEN Members[task[3]] ELSE {task[3]})
  /\ job' = [job EXCEPT ![w] = [NoJob EXCEPT !.phase = "observe", !.tool = task[1],
               !.op = task[2], !.target = task[3], !.handed = handed]]
  /\ UNCHANGED <<content, config, clock, disk, life, mem, dirty, save, unsaved>>

Observe(w, x) ==
  /\ job[w].phase = "observe"
  /\ x \in Scope(job[w]) \ DOMAIN job[w].seen
  /\ x = Turn(job[w], Scope(job[w]) \ DOMAIN job[w].seen)
  /\ job' = [job EXCEPT ![w].seen = Extend(@, x, content[x])]
  /\ UNCHANGED <<content, config, clock, disk, life, mem, dirty, save, unsaved, spent>>

Observed(w) == job[w].phase = "observe" /\ DOMAIN job[w].seen = Scope(job[w])

\* Check for a file, ShouldRunVerdict for a unit.
Hit(w) ==
  LET j == job[w]
      p == Owner[w]
  IN  IF j.target \in Units
      THEN VerdictHit(verdicts[p][Id(j)], j.seen, clock)
      ELSE EntryHit(entries[p][j.target], Pass(j), j.op, j.seen[j.target])

\* A hit answers for the tool: it does not run, and nothing is recorded.
Replay(w) ==
  /\ Observed(w) /\ Hit(w)
  /\ job' = [job EXCEPT ![w] = NoJob]
  /\ UNCHANGED <<content, config, clock, disk, life, mem, dirty, save, unsaved, spent>>

Spawn(w) ==
  /\ Observed(w) /\ ~Hit(w)
  /\ job' = [job EXCEPT ![w].phase = "run"]
  /\ UNCHANGED <<content, config, clock, disk, life, mem, dirty, save, unsaved, spent>>

\* The tool reads its config first, then each file; a fixer rewrites it.
Handle(w, x) ==
  LET j == job[w]
      p == Owner[w]
      b == IF j.op = "fix" /\ x # Conf /\ content[x] # Gone
           THEN Fixed(key[p], j.tool, j.read[Conf], content[x]) ELSE content[x]
  IN  /\ j.phase = "run"
      /\ x \in (j.handed \cup {Conf}) \ DOMAIN j.read
      /\ x # Conf => Conf \in DOMAIN j.read
      /\ b # content[x] => MayWrite(w, x, b)
      /\ content' = [content EXCEPT ![x] = b]
      /\ job' = [job EXCEPT ![w].read = Extend(@, x, b)]
      /\ UNCHANGED <<config, clock, disk, life, mem, dirty, save, unsaved, spent>>

Handled(w) == /\ job[w].phase = "run"
              /\ DOMAIN job[w].read = job[w].handed \cup {Conf}

Reports(w) == job[w].op = "lint" /\ ~Clean(key[Owner[w]], job[w].tool, job[w].read)

\* The tool succeeded and its output let a pass be recorded.
Succeed(w) ==
  /\ Handled(w) /\ ~Reports(w)
  /\ job' = [job EXCEPT ![w].phase = "probe"]
  /\ UNCHANGED <<content, config, clock, disk, life, mem, dirty, save, unsaved, spent>>

\* It failed, reported something, or was cancelled: nothing is recorded.
Fail(w) ==
  /\ job[w].phase = "run"
  /\ job' = [job EXCEPT ![w] = NoJob]
  /\ UNCHANGED <<content, config, clock, disk, life, mem, dirty, save, unsaved, spent>>

\* Mutant of Probe: the post-run check is answered from what was observed before.
ProbeFromMemo(w, x) ==
  /\ job[w].phase = "probe"
  /\ x \in Scope(job[w]) \ DOMAIN job[w].after
  /\ x = Turn(job[w], Scope(job[w]) \ DOMAIN job[w].after)
  /\ job' = [job EXCEPT ![w].after = Extend(@, x, job[w].seen[x])]
  /\ UNCHANGED <<content, config, clock, disk, life, mem, dirty, save, unsaved, spent>>

\* unchangedSince, the snapshot refresh, and the hash AfterFix takes.
Probe(w, x) ==
  /\ job[w].phase = "probe"
  /\ x \in Scope(job[w]) \ DOMAIN job[w].after
  /\ x = Turn(job[w], Scope(job[w]) \ DOMAIN job[w].after)
  /\ job' = [job EXCEPT ![w].after = Extend(@, x, content[x])]
  /\ UNCHANGED <<content, config, clock, disk, life, mem, dirty, save, unsaved, spent>>

Probed(w) == job[w].phase = "probe" /\ DOMAIN job[w].after = Scope(job[w])

MarkDirty(p) == /\ dirty' = [dirty EXCEPT ![p] = TRUE]
                /\ unsaved' = [unsaved EXCEPT ![p] = TRUE]

\* updateCacheAfterSuccess: a config that moved drops the result.
RecordFile(w) ==
  LET j == job[w]
      p == Owner[w]
      f == j.target
      e == entries[p][f]
  IN  /\ Probed(w) /\ f \in Files
      /\ job' = [job EXCEPT ![w] = NoJob]
      /\ IF j.after[Conf] # j.seen[Conf]
         THEN UNCHANGED <<entries, dirty, unsaved, save>>
         ELSE /\ MarkDirty(p)
              /\ entries' = [entries EXCEPT ![p][f] =
                   CASE j.op = "lint" /\ j.after[f] = j.seen[f] /\ j.seen[f] # Gone
                          -> EntryAfterLint(e, Pass(j), j.seen[f])
                     [] j.op = "fix" /\ j.after[f] # Gone
                          -> EntryAfterFix(e, Pass(j), j.after[f])
                     [] OTHER -> e]
              /\ save' = [save EXCEPT ![p].moved =
                   IF save[p].phase = "encode" /\ entries'[p][f].hash # e.hash
                   THEN @ \cup {f} ELSE @]
      /\ UNCHANGED <<content, config, clock, disk, life, key, held, verdicts,
                     goneFiles, goneIds, spent>>

\* Mutant of Covers: the denominator is the task's own file list.
CoversItself(j) == j.handed # {}

Covers(j) == j.handed = Members[j.target]

\* recordVerdict: a narrowed run earns nothing; a lint that saw its inputs move
\* proves nothing; a fix records the state it left and drops the lint sibling.
RecordVerdict(w) ==
  LET j == job[w]
      p == Owner[w]
      sibling == <<j.tool, "lint", j.target>>
      pass == [inputs |-> j.after, at |-> clock]
  IN  /\ Probed(w) /\ j.target \in Units
      /\ job' = [job EXCEPT ![w] = NoJob]
      /\ IF ~Covers(j) \/ (j.op = "lint" /\ j.after # j.seen)
         THEN UNCHANGED <<verdicts, goneIds, dirty, unsaved>>
         ELSE /\ MarkDirty(p)
              /\ IF j.op = "lint"
                 THEN /\ verdicts' = [verdicts EXCEPT ![p][Id(j)] = pass]
                      /\ UNCHANGED goneIds
                 ELSE /\ verdicts' = [verdicts EXCEPT ![p][Id(j)] = pass,
                                                      ![p][sibling] = NoVerdict]
                      /\ goneIds' = [goneIds EXCEPT ![p] = @ \cup {sibling}]
      /\ UNCHANGED <<content, config, clock, disk, life, key, held, entries,
                     goneFiles, save, spent>>

Environment ==
  \/ \E x \in Paths, b \in Bytes : Edit(x, b)
  \/ \E k \in Keys : EditConfig(k)
  \/ Tick
  \/ ClearProject

Lifecycle(p) ==
  \/ \E prune \in BOOLEAN : Start(p, prune) \/ Reload(p, prune)
  \/ \E why \in {"exiting", "reloading"} : Shutdown(p, why)
  \/ Exit(p)
  \/ Crash(p)

Saver(p) ==
  \/ Flush(p) \/ SessionSave(p)
  \/ MergeYield(p) \/ MergeFromDisk(p) \/ Encode(p) \/ Rename(p) \/ WriteFails(p)

Run(w) ==
  \/ \E task \in Tasks, handed \in SUBSET Files : Begin(w, task, handed)
  \/ \E x \in Paths : Observe(w, x) \/ Handle(w, x) \/ Probe(w, x)
  \/ Replay(w) \/ Spawn(w) \/ Succeed(w) \/ Fail(w)
  \/ RecordFile(w) \/ RecordVerdict(w)

Next ==
  \/ Environment
  \/ \E p \in Procs : Lifecycle(p) \/ Saver(p)
  \/ \E w \in Workers : Run(w)

Spec == Init /\ [][Next]_vars

\* The debounce timer fires, a save under way goes on, and a process that is
\* shutting down gets to its end; nothing makes anyone run a tool or edit.
FairSpec ==
  /\ Spec
  /\ \A p \in Procs :
       /\ WF_vars(Flush(p))
       /\ WF_vars(MergeYield(p) \/ MergeFromDisk(p) \/ Encode(p) \/ Rename(p))
       /\ WF_vars(Exit(p))

(***************************************************************************)
(* Properties.                                                             *)
(***************************************************************************)

\* Every variable ranges over the values the code can give it.
TypeOK ==
  /\ content \in [Paths -> Bytes]
  /\ config \in Keys
  /\ clock \in Nat
  /\ disk \in FileData
  /\ life \in [Procs -> {"down", "up", "exiting", "reloading"}]
  /\ key \in [Procs -> Keys \cup {None}]
  /\ held \in [Procs -> SUBSET Keys]
  /\ entries \in [Procs -> [Files -> Entry]]
  /\ verdicts \in [Procs -> [Ids -> Verdict]]
  /\ goneFiles \in [Procs -> SUBSET Files]
  /\ goneIds \in [Procs -> SUBSET Ids]
  /\ dirty \in [Procs -> BOOLEAN]
  /\ save \in [Procs -> SaveState]
  /\ job \in [Workers -> JobState]
  /\ unsaved \in [Procs -> BOOLEAN]
  /\ spent \in [Counters -> Nat]

\* No cached lint pass is untrue: wherever a pass is recorded (on disk, in a
\* process, in a save being written), the tool reports nothing on exactly those
\* bytes under exactly that configuration, whatever merges, reloads, crashes and
\* edits produced the record (AfterLint, recordVerdict, mergeFromDisk).
LintSound ==
  /\ LintTrue(disk.key, disk.entries, disk.verdicts)
  /\ \A p \in Procs :
       /\ LintTrue(key[p], entries[p], verdicts[p])
       /\ LintTrue(save[p].payload.key, save[p].payload.entries, save[p].payload.verdicts)

\* No cached fix pass is untrue: the fixer would leave those bytes as they are
\* (AfterFix, recordVerdict).
FixSound ==
  /\ FixTrue(disk.key, disk.entries, disk.verdicts)
  /\ \A p \in Procs :
       /\ FixTrue(key[p], entries[p], verdicts[p])
       /\ FixTrue(save[p].payload.key, save[p].payload.entries, save[p].payload.verdicts)

\* A pass recorded after a flush took the dirty flag is still picked up: while
\* memory holds one no save has encoded, a flush is pending or has yet to encode.
NothingStranded ==
  \A p \in Procs : unsaved[p] => dirty[p] \/ save[p].phase \in {"merge", "encode"}

\* A session replaces a file of another configuration only if that file appeared
\* while it was saving, or under a key its own reloads retired
\* (SetYieldToForeignKey, SetSupersededKeys).
SessionsYield ==
  [][\A p \in Sessions :
       (Rename(p) /\ ~save[p].boot /\ Foreign(p) /\ disk.key \notin held[p])
         => disk.key # save[p].saw.key]_vars

\* A save loses a pass another process wrote only to the race it cannot see: when
\* nobody renamed since the merge, every pass of the file survives it unless the
\* process holds, or since then has held, other bytes for the path or pruned it
\* (mergeFromDisk, AfterLint).
OnlyRacesLose ==
  [][\A p \in Procs, f \in Files :
       LET old == disk.entries[f]
           new == save[p].payload.entries[f]
       IN  (Rename(p) /\ disk = save[p].saw /\ disk.key = key[p]
              /\ f \notin goneFiles[p] \cup save[p].moved /\ new.hash = old.hash)
             => old.lint \subseteq new.lint /\ old.fix \subseteq new.fix]_vars

\* ... and never replaces a newer validation of a verdict by an older one: when
\* nobody renamed since the merge, a verdict of the file keeps or gains time,
\* unless the process deleted it (mergeFromDisk, AfterVerdict).
VerdictsOnlyRenewed ==
  [][\A p \in Procs, i \in Ids :
       (Rename(p) /\ disk = save[p].saw /\ disk.key = key[p] /\ i \notin goneIds[p])
         => save[p].payload.verdicts[i].at >= disk.verdicts[i].at]_vars

\* A prune is not undone by the save that persists it: what the process dropped
\* and has not recorded again is not in the file it writes (deletedEntries,
\* deletedVerdicts).
PruneSticks ==
  \A p \in Procs : save[p].boot /\ save[p].phase = "rename" =>
    /\ \A f \in goneFiles[p] : save[p].payload.entries[f] = NoEntry
    /\ \A i \in goneIds[p] : save[p].payload.verdicts[i] = NoVerdict

\* The statements a cache holding these records makes.
Statements(k, es, vs) ==
  {<<k, "file", r[1], r[2], es[r[1]].hash, r[3]>> : r \in
     {q \in Files \X Ops \X Passes : q[3] \in es[q[1]][q[2]]}}
  \cup
  {<<k, "unit", i, vs[i].inputs>> : i \in {j \in Ids : vs[j].inputs # NoInputs}}

Ledger ==
  Statements(disk.key, disk.entries, disk.verdicts)
    \cup (UNION {Statements(key[p], entries[p], verdicts[p]) : p \in Procs})
    \cup (UNION {Statements(save[p].payload.key, save[p].payload.entries,
                            save[p].payload.verdicts) : p \in Procs})

StatementTrue(s) ==
  IF s[2] = "file"
  THEN LET e == [hash |-> s[5], lint |-> IF s[4] = "lint" THEN {s[6]} ELSE {},
                                fix  |-> IF s[4] = "fix" THEN {s[6]} ELSE {}]
       IN  LintEntryTrue(s[1], s[3], e) /\ FixEntryTrue(s[1], s[3], e)
  ELSE LET v == [inputs |-> s[4], at |-> 0]
       IN  LintVerdictTrue(s[1], s[3], v) /\ FixVerdictTrue(s[1], s[3], v)

\* The cache implements the ledger of true statements: every step of Spec learns
\* at most the one pass its tool run established; saves, merges, reloads, prunes
\* and crashes only copy or lose statements.
Abstract == INSTANCE PassLedger WITH ledger <- Ledger, True <- StatementTrue
Implements == Abstract!Spec

\* A dirty cache and a process that shuts down come to rest: the cache clean, no save
\* under way, and Shutdown returned.  What was marked dirty is written, or yielded, and
\* waiting for a flush under way and saving what is left never keeps a process alive.
SavesEnd ==
  \A p \in Procs : (dirty[p] \/ life[p] = "exiting") ~>
                     (~dirty[p] /\ save[p].phase = "idle" /\ life[p] # "exiting")

(***************************************************************************)
(* The inductive invariants the proofs use (module ExecCacheProofs).       *)
(***************************************************************************)

\* A process that is up has a key, only such a one saves, and a file on disk is a
\* whole payload.
Loaded ==
  /\ \A p \in Procs :
       /\ life[p] # "down" => key[p] \in Keys
       /\ save[p].phase # "idle" => life[p] # "down"
       /\ save[p].phase = "rename" => save[p].payload.key \in Keys
  /\ disk.key = None => disk = NoFile

\* How far each phase of a tool run has got.
JobShape(w) ==
  LET j == job[w]
  IN  j.phase # "idle" =>
        /\ life[Owner[w]] = "up"
        /\ j.tool \in Tools /\ j.target \in Files \cup Units
        /\ j.handed \subseteq Scope(j) \ {Conf}
        /\ j.target \in Files => j.handed = {j.target}
        /\ DOMAIN j.seen \subseteq Scope(j)
        /\ j.phase # "observe" => DOMAIN j.seen = Scope(j)
        /\ j.phase = "observe" => DOMAIN j.read = {}
        /\ DOMAIN j.read \subseteq j.handed \cup {Conf}
        /\ j.phase = "probe" => DOMAIN j.read = j.handed \cup {Conf}
        /\ DOMAIN j.after \subseteq Scope(j)
        /\ j.phase # "probe" => DOMAIN j.after = {}

ShapeInv == TypeOK /\ Loaded /\ \A w \in Workers : JobShape(w)

\* A lint that finds what it observed still there has read it; and what it found
\* clean is what it read.
LintHonest(w) ==
  LET j == job[w]
  IN  (j.phase # "idle" /\ j.op = "lint") =>
        /\ \A x \in DOMAIN j.seen \cap DOMAIN j.read :
             /\ content[x] = j.seen[x] => j.read[x] = j.seen[x]
             /\ (x \in DOMAIN j.after /\ j.after[x] = j.seen[x])
                  => j.read[x] = j.seen[x]
        /\ j.phase = "probe" => Clean(key[Owner[w]], j.tool, j.read)

LintInv == ShapeInv /\ LintSound /\ \A w \in Workers : LintHonest(w)

\* What a fix has handled holds still until it is recorded, and is a fixpoint.
FixHonest(w) ==
  LET j == job[w]
  IN  (j.phase # "idle" /\ j.op = "fix") =>
        /\ \A x \in DOMAIN j.read :
             /\ j.read[x] = content[x]
             /\ (x # Conf /\ content[x] # Gone)
                  => Fixed(key[Owner[w]], j.tool, content[Conf], content[x]) = content[x]
        /\ DOMAIN j.read # {} => Conf \in DOMAIN j.read
        /\ \A x \in DOMAIN j.after : j.after[x] = content[x]

FixInv == ShapeInv /\ FixSound /\ \A w \in Workers : FixHonest(w)

(***************************************************************************)
(* What a save under way knows of the file it merged.                      *)
(***************************************************************************)

\* An entry without a hash and a verdict without inputs say nothing.
Plain(es, vs) ==
  /\ \A f \in Files : es[f].hash = Gone => es[f] = NoEntry
  /\ \A i \in Ids : vs[i].inputs = NoInputs => vs[i].at = 0

PlacesPlain ==
  /\ Plain(disk.entries, disk.verdicts)
  /\ \A p \in Procs : /\ Plain(entries[p], verdicts[p])
                      /\ Plain(save[p].payload.entries, save[p].payload.verdicts)

\* Without clock jumps no verdict is from the future.
Dated(vs) == \A i \in Ids : vs[i].at <= clock

PlacesDated ==
  /\ Dated(disk.verdicts)
  /\ \A p \in Procs : /\ Dated(verdicts[p])
                      /\ Dated(save[p].saw.verdicts)
                      /\ Dated(save[p].payload.verdicts)

\* Nothing runs while a prune is saved, so what it dropped is not recorded again.
PruneHeld(p) ==
  save[p].boot =>
    /\ Running(p) = {}
    /\ \A f \in goneFiles[p] : /\ entries[p][f] = NoEntry
                               /\ save[p].phase = "rename" => save[p].payload.entries[f] = NoEntry
    /\ \A i \in goneIds[p] : /\ verdicts[p][i] = NoVerdict
                             /\ save[p].phase = "rename" => save[p].payload.verdicts[i] = NoVerdict

\* A session past its merge merged a file of its own, a retired key's, or none.
MergedOwn(p) ==
  (p \in Sessions /\ save[p].phase \in {"encode", "rename"} /\ ~save[p].boot)
    => save[p].saw.key \in {None, key[p]} \cup held[p]

\* What the save will write, or would if it encoded now.
ToWrite(p) == IF save[p].phase = "rename" THEN save[p].payload
              ELSE [key |-> key[p], entries |-> entries[p], verdicts |-> verdicts[p]]

\* Past the merge, it holds every pass of the file merged, path by path, ...
EntriesKept(p) ==
  (save[p].phase \in {"encode", "rename"} /\ save[p].saw.key = key[p]) =>
    \A f \in Files \ (goneFiles[p] \cup save[p].moved) :
      LET old == save[p].saw.entries[f]
          new == ToWrite(p).entries[f]
      IN  new.hash = old.hash => old.lint \subseteq new.lint /\ old.fix \subseteq new.fix

\* ... and no verdict older than that file's.
VerdictsKept(p) ==
  (save[p].phase \in {"encode", "rename"} /\ save[p].saw.key = key[p]) =>
    \A i \in Ids \ goneIds[p] : ToWrite(p).verdicts[i].at >= save[p].saw.verdicts[i].at

SavesInv ==
  ShapeInv /\ PlacesPlain /\ \A p \in Procs : PruneHeld(p) /\ MergedOwn(p) /\ EntriesKept(p)

RenewInv == ShapeInv /\ PlacesPlain /\ PlacesDated /\ \A p \in Procs : VerdictsKept(p)
============================================================================
