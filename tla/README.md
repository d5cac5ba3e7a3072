# datamitsu: TLA+ models

datamitsu resolves one configuration for a project, prepares the binaries and
runtimes it names in a content-addressed store, plans lint and fix tasks over the
project's files, runs them in parallel, caches what passed, reports what was found, and
serves the same engine to editors over LSP and to shells as a directory of tools. This
directory models the parts of it where order, concurrency and failure decide what the
user is told, checks them with TLC and proves the central results with TLAPS.

| module | what it is | lines about |
| --- | --- | --- |
| `CacheFile` | entries and verdicts of the cache file, merge and prune, as operators | `internal/cache` |
| `ExecCache` | processes that run tools, record passes and save the cache | `internal/cache`, `internal/tooling` |
| `PassLedger` | what the cache promises: a ledger of true statements | abstract |
| `ExecCacheProofs`, `ExecCacheSaves` | type correctness; cached passes are true and implement the ledger; what a save may lose | proofs |
| `LspTransport` | reader, worker, stop and format requests of the language server | `internal/lsp` |
| `RequestLine` | what a client is promised: answers in order | abstract |
| `LspProofs` | its safety and that it implements `RequestLine`, for any ids and plans | proofs |
| `Executor` | groups, steps, worker pools, cancellation of one run | `internal/tooling` |
| `ExecutorProofs` | its safety, for any plan, pool and chunking | proofs |
| `Planner` | from files, tools and a selection to tasks, units and groups, with the memos of a long-lived planner | `internal/tooling`, `internal/project`, `internal/datamitsuignore` |
| `PlanProperties` | what a plan promises; a planner without memory to compare with | properties |
| `PlanProofs` | its safety, for any tree, tools, rules, policies and requests | proofs |
| `StoreReady` | downloads, one-time steps, bundle layers and sweeps in one store | `internal/binmanager`, `internal/prepare`, `internal/ocibundle`, `internal/storelock` |
| `StoreReadyProofs` | its safety, for any number of processes and tools | proofs |
| `Runner` | a command's operations, its baseline and gate, its report and its exit code | `internal/runner`, `internal/report` |
| `RunnerProofs` | its safety, for any plans, processes and answers | proofs |
| `FarmBake` | the tool directory, its manifest, rebakes and the tools that trigger them | `internal/sourcefarm`, `cmd`, `internal/shim` |
| `FarmProofs` | its safety, for any chains, files and invocations | proofs |
| `MC…` | the constants of the instances the `.cfg` files name | |

`tlc -config ExecutorRun.cfg MCExecutor` runs one of them; `tlapm StoreReadyProofs.tla`
checks proofs.

## Inventory

Each component with its state, operations, what it shares with others, what is hard
about it and what makes it correct.

**Execution cache** (`internal/cache`). State: a file per project (entries per path,
verdicts per unit, an invalidation key), a copy per process with tombstones, dirty
flag, debounce timer. Operations: load, check, record lint/fix, record verdict,
prune, merge-and-save, shutdown, clear, yield to a foreign key. Shared with: every
other datamitsu process of the project, through the file alone. Hard: two savers, a
timer racing shutdown and recording, a crash at any point, a long-lived editor server
whose configuration is no longer the current one. Correct when no pass it holds is
untrue, none is lost except to a race it cannot see, and shutdown ends. *Modelled:
`CacheFile`, `ExecCache`.*

**Pass recording** (`internal/tooling`: `seen.go`, `verdict.go`, `passes.go`). State: a
task's observations before its tool ran. Operations: observe, consult, replay, probe,
record. Hard: anyone can write the files between any two of these. Correct when what is
recorded is true of the bytes it is recorded for. *Modelled: `ExecCache`.*

**Content-hash memo** (`hash_memo.go`, `statident.go`). State: path → hash with stat
identity. Correct when a hash it hands out is the hash of the bytes there. *Not
modelled: see the end.*

**Executor** (`executor.go`, `stop.go`, `results.go`). State: the tasks of a group and
step, worker slots, chunk slots, a cancellation cause. Operations: plan steps, start,
resolve, replay, spawn, exit, stop, fail fast, settle. Shared with: the cache (records),
the store (resolving a tool may install it), the runner (interruption). Hard: a
cancellation at every point of every process, and telling a failure from its
consequences. *Modelled: `Executor`.*

**Planner** (`planner.go`, `verdict.go`, `selection.go`, `matcher.go`, the project
detector). State: a walk of the tree and what was derived from it, memos of globs, units
and guards. Operations: take a seeded walk, invalidate, plan. Shared with: the runner,
which seeds it, and an editor session, which keeps it for hours. Hard: nested projects,
three widening policies against five ways to select, ignore rules that come and go,
memos that outlive the walk. Correct when every file is checked exactly once by what
applies to it, nothing outside the target is touched, and what a task claims to cover it
covers. *Modelled: `Planner`.*

**Runner** (`internal/runner`). State: what was skipped, narrowed, stopped and failed.
Operations: walk, run fix and lint, fold results into the report, interrupt, exit.
Shared with: planner, executor, store, report. Hard: an interruption between any two
steps, fail-fast, and the order in which several reasons to fail are told. Correct when
exit code 0 is earned. *Modelled: `Runner`; setup and rendering are not.*

**Report and baseline** (`internal/report`, `gate.go`). State: invocations and findings
per tool, what a baseline holds and how much of it is used. Operations: mark, gate, add
a task, flush a tool, settle, judge, build, make a baseline. Hard: processes of one
operation that report the same findings in any order. Correct when a new finding is
never silenced, an old one never gates, and a report that calls itself complete is.
*Modelled: `Runner`; anchoring of lines and rendering are not.*

**LSP transport and format request** (`internal/lsp`). State: the registry of
requests, the queue, the open document, the shutdown flags of reader and worker.
Operations: read, register, queue, cancel, abort, pop, dispatch, checkpoints of a format,
settle, reply, finish. Shared with: the client, the disk (a dirty buffer is written for
tools to read), the session's cache. Hard: a cancel or the end of the session at any
moment of a request, ids used again. *Modelled: `LspTransport`, `RequestLine`; the cache
side of a session is in `ExecCache`.*

**Editor session and reloads** (`internal/lsp/session.go`). State: the loaded project
and its watch set. *Seen from the transport and the cache; not modelled itself.*

**Source farm** (`internal/sourcefarm`, `cmd/source*.go`). State: a directory of tool
names, a manifest, a lock file. Operations: judge freshness, snapshot, load, lock or
wait, stage, two renames, manifest. Shared with: every shell whose PATH has the farm,
bakes of other config chains over the same path. Hard: edits during a load, two bakes,
a platform without the lock, a crash between two renames. Correct when what is served
as fresh is current, and a farm never disappears. *Modelled: `FarmBake`.*

**Shim dispatch** (`internal/shim`). Finds the farm of a called tool, rebakes it when
stale, installs lazily, execs. *Partly: the rebake is `FarmBake`'s `RunTool`.*

**Prepared state and store locks** (`internal/prepare`, `internal/storelock`). State:
`{store}/.prepared/<app>/<key>` with a marker, leased staging directories, a lock per
subtree. Operations: lock (cancellable), stage, publish, run the step, validate, mark,
place, sweep. Hard: several processes, cancelled waiters, deaths at each rename,
sweepers. Correct when what is marked is whole and stays, and a step runs once. *Modelled:
`StoreReady`.*

**Binary store and downloads** (`internal/binmanager`, `internal/httpx`,
`internal/httpretry`), **OCI bundles** (`internal/ocibundle`). State: content-addressed
directories and the marker of a completed pull. Operations: download, verify,
look-then-rename into place, seed layers. Correct when what is in place is whole, a
loser of a race leaves the winner's tree alone, and no step starts against half a
closure. *Modelled: `StoreReady`; what happens within a download or an extraction is not.*
**Runtime manager**: *not modelled.*

**Evaluated-config cache** (`internal/configcache`), **remote configs**
(`internal/remotecfg`), **verification state** (`internal/verifycache`). State: files
keyed by a hash, written aside and renamed. *Not modelled.*

**Config evaluation** (`cmd/config_loader.go`, `internal/engine`, `internal/config`),
**managed configs** (`internal/managedconfig`), **installer** (`internal/install`),
**parsers** (`internal/parsermanager`), **traverser**, **detector, target, registries**,
**facts**, **terminal and traces**, **developer tools**: JavaScript, rendering, pure
functions and I/O; see PROJECT.json for each.

The interactions that matter: an invocation of any kind loads the configuration and
learns its key; the planner cuts tasks (`Planner`); the runner takes up each operation
(`Runner`), has its tools installed and their states prepared (`StoreReady`) and has the
tasks executed (`Executor`); each task asks and teaches the execution cache
(`ExecCache`); an editor request goes through `LspTransport` to one task outside the
executor and through the same cache; a tool called by name goes through `FarmBake` first.

What one module computes is a constant or a contract of the next: `Executor` takes
`HasOverlap` and the number of processes as constants, which `Planner` computes;
`ExecCache` takes the members of units; `Runner` takes plans, and of an execution only
that steps come one after another, processes end in any order, and the rest is skipped
when the run is cancelled, which is what `Executor` is checked for.

## Plan

In the order of what a wrong answer costs. Done: `CacheFile`, `ExecCache`,
`PassLedger` (a cached pass that is not true hides a finding for good); `LspTransport`,
`RequestLine` (the buffer written to disk, requests that must not hang); `Executor` (what
runs together and what is reported); `FarmBake` (which tools a shell finds); `Planner`
(what is run at all); `StoreReady` (what is run with); `Runner` (what is told).

Proved, in the same order: what the cache records is true, the cache implements its
ledger, what saves may lose; the transport implements the line of requests; the executor;
the farm; the planner; the store; and what a command tells and exits with. Every property
a passing run checks is a theorem but for the five liveness properties (`SavesEnd`,
`NobodyWaits`, `Settles`, `Returns`, `CommandsEnd`), which are out of the prover's reach.

Left, in this order: a model of the reload of an editor session with its watch set, and of
eviction against use in `internal/configcache`, each with its proof.

## What the models found

Four statements in the repository's comments or documentation are not kept by the
code; each has a run whose counterexample is the shortest behaviour that shows it.

| run | statement | what happens |
| --- | --- | --- |
| `PlanOverlapMissed` | tasks from different projects work on different files (`planner.go`, `planner.md`) | the "project" of a per-file task is its file's directory: a formatter of a file in `api/src` and a fixer of the project `api` run at the same time on that file |
| `StoreTwoContainers` | a sweeper never removes a layout whose lease belongs to a live process (`prepare.go`) | the lease is a bare pid, which a container sharing the store cannot look up: the layout a step is running in is swept |
| `RunnerUntyped` | `--require-coverage`: exit non-zero unless the run answered completely (`cli-commands.md`) | where no project type is detected, the planned tasks of tools that need none are not run, and the command exits 0 |
| `FarmTornServed` | after a crash between the two renames the previous manifest's watch set no longer matches the tree, so the next invocation rebakes (`materialize.go`) | it matches when the torn bake was of another chain, or forced, over the same files: its farm is served under the other chain's manifest as fresh |

Also seen while modelling, without a run of their own:

* A fix pass is recorded against what the file holds after the run: an editor that
  saves between the fixer's write and `AfterFix`'s hash has its bytes recorded
  (`Interfering`).
* A full pull skips the layer of a parser module that the config does not declare, and
  lists it in its marker all the same (`seed.go`): the marker is then never satisfied,
  and every later pull asks the registry again, which `markerSatisfied` in
  `ocibundle.go` says does not happen ("never triggers an endless re-pull"). `StoreReady`
  has this (`Undeclared`, `SeedMarkerTrue`).
* A configuration that returns to a key which a server holds as superseded lets that
  server replace the current cache file.
* A `shutdown` that is cancelled, or comes before `initialize`, is forgotten, and later
  requests are answered as if it had not come.
* An interruption under fail-fast leaves a failed group without a failed tool, which
  `executor.go` says should not happen.
* Named paths outside the current directory are assigned among the projects near it
  (`OwnProject` is stated for paths below it).
* A process that fails without findings is listed as a finding of its own, and numbered
  among the real findings that have neither file nor code; a baseline leaves it out, so
  the first of those can be missing from the baseline made of the run, and gates again.
  `Ordinal` has this, and `BaselineAbsorbs` excepts it (`Numbered`): the proof does not go
  through without the exception.

## The execution cache: `CacheFile`, `ExecCache`, `PassLedger`

### What the code does

`internal/cache` keeps one file per project: for every file the hash its passes
were earned by, the tools (with the digest of their managed config) that passed it
for lint and for fix, and for every *unit* (a directory a tool answers for as a
whole) a verdict with the hashes of all members and guards and the time it was
validated. The file carries an invalidation key, a hash of the configuration;
`Load` discards a file of another key. A process keeps a copy in memory, marks it
dirty when it records, and a debounce timer, `Shutdown` and, in a language server,
every format call `Save`: read the file again and merge it, encode, write a
temporary file, rename. Nothing excludes a second process between those steps.

`internal/tooling` decides what to record. Before a tool runs, each input is
hashed (`seen.go`, `verdict.go`); after it succeeded, the same inputs are probed
again and a pass is recorded only if nothing moved. A fix records what the file
holds afterwards. A run over some of a unit's members records nothing for the unit.

### How the model corresponds

| code | model |
| --- | --- |
| `FileEntry`, `VerdictEntry`, `File` | `Entry`, `Verdict`, `FileData`; a hash is the content it was taken from |
| `Check`, `AfterLint`, `AfterFix` | `EntryHit`, `EntryAfterLint`, `EntryAfterFix` |
| `mergeFromDisk` | `MergeEntry(ies)`, `MergeVerdict(s)`, and the actions `MergeYield`, `MergeFromDisk` |
| `NewCache` + `Load` (+ daily `Prune` and its `Save`) | `Start`, `Reload` (both `Open`), with `save.boot` for the save before yield mode is on |
| `debounceSave`, `saveCache`, `Save`, `writeFileAtomic` | `Flush`, `SessionSave`, `Encode`, `Rename`, `WriteFails` |
| `Shutdown`, `session.close`, kill | `Shutdown`, `Exit`, `Forgotten`, `Crash` |
| `SetYieldToForeignKey`, `SetSupersededKeys` | `Yields`, `held` |
| `executeTask`, `filterFilesByCache`, `verdictKeys` | `Begin`, `Observe`, `Hit`, `Replay`, `Spawn` |
| the tool process | `Handle` (external), one path at a time; `Succeed`, `Fail` |
| `unchangedSince`, `refreshStates`, `updateCacheAfterSuccess`, `recordVerdict` | `Probe`, `RecordFile`, `RecordVerdict` |

What a tool answers is a constant: `Clean(key, tool, inputs)` and
`Fixed(key, tool, config, bytes)`, about which only idempotence of a fixer is
assumed. Each path is observed, read and probed in a step of its own, and an editor
(`Edit`), the configuration (`EditConfig`), the clock (`Tick`, which may jump back)
and a cache clear (`ClearProject`) act between any two.

Three constants name assumptions rather than code: `Restoring` (may a writer put
back exactly the bytes a running lint has observed), `Interfering` (may others write
what a running fix works on) and `ClockJumps`. The soundness results hold with the
first two off (`LintSound` needs only the first). With `Restoring` on, an edit that is undone while the tool reads
passes the probe, which compares hashes: a pass is then recorded for bytes the tool
never read. `ExecCacheFiles` runs with `Interfering` on and
checks `LintSound` there; `ExecCacheUnits`, which checks `FixSound` and the refinement,
runs with both off. `unsaved`, `save.saw`,
`save.moved` and `spent` are history or bounds.

### Properties

* `LintSound`, `FixSound`: every pass recorded anywhere, on disk, in a process or in
  a save under way, is true of exactly the bytes, configuration and tool it names.
* `Implements`: the cache refines `PassLedger`, whose ledger of true statements grows
  by at most one statement per step, established by one tool run; everything else
  only copies or forgets.
* `NothingStranded` and `SavesEnd`: no
  recorded pass is forgotten by the debounce, a dirty cache is flushed or yielded,
  shutdown ends.
* `SessionsYield`: a session replaces a foreign file only inside the race between
  its merge and its rename, or under a key its own reloads retired.
* `OnlyRacesLose`, `VerdictsOnlyRenewed`: a save loses another process's pass, or
  its newer validation, only to that race. A path that the saving process records other
  bytes for between its merge and its encoding (`save.moved`) has had its passes dropped,
  and may be back at the old bytes by the time it is encoded; it is excepted.
* `PruneSticks`: the save that persists a prune does not bring back what it removed.

Two more races are visible in the model and follow from the design: a session that
decided to save before a foreign file appeared replaces it (the merge and the rename
are two steps), and a verdict one process deletes after a failed lint comes back with
the next save of a process that still holds it (tombstones are per process).

### Runs and bounds

A run explores every way to spend one of the alternatives in `Bounds`: how many
processes start, lints and fixes begin, edits, configuration changes, clock ticks,
failures and clears happen together. Two processes, two or three workers, two contents
and one file or one unit of two files are the smallest instances in which two runs, or
a run and an editor, or two saves, overlap in every order; a third participant could
only repeat what the second does, because savers meet in the file and runs meet in
the contents. The next-state relation is the same in all runs.

| run | instance | what it shows |
| --- | --- | --- |
| `ExecCacheFiles` | `FairSpec`; a CLI and a session, two tools, one file; an edit among two lints, two edits among a lint and a fix of which one writes what the fixer has, a configuration change under two processes or between a session and its reload, a crash or a failed write and a clear | lint soundness per file, nothing stranded, yields, prunes, races; flushes and shutdowns end |
| `ExecCacheUnits` | a unit of two files and a fixer of one of them, two lints in one process with an edit, a lint against a fix, a fix with an edit or a crash in one of two processes, verdicts of two processes that age | fix soundness, the refinement of `PassLedger`, newer validations survive |

Fairness (`FairSpec`): the debounce timer fires (`time.AfterFunc`), the goroutine
that holds `flushMu` goes on to its rename, and a process in `Shutdown` returns when
nothing is left; nothing makes anyone run a tool, edit a file or change the
configuration. Deadlock is not checked: a system in which nobody runs a tool rests.

### Proofs

`ExecCacheProofs` proves `Spec => []TypeOK`. `TypeOK` is not inductive: that a
reload only retires real keys needs `Loaded` (a process that is up has a key, only
such a process saves), and that a recorded verdict is one needs `JobShape` (how far
each phase of a run has got). `ShapeInv` is their conjunction and inductive.

It proves `LintSoundness`, `Restoring = FALSE => (Spec => []LintSound)`.
The argument: `RecordsMove` shows that, except for the step that records a pass, every
place that holds records gets them from another place, pruned or merged; `PruneTrue`
and `MergeTrue` show that pruning and merging keep records true; and `LintHonest`, the
strengthening, says of a run in progress that a path which still holds what was
observed was read as observed. With the probe, that is what makes the recorded pass
true (`LintVindicated`, `LintRecorded`). `NotPutBack` is the only place the assumption
is used.

`FixSoundness`, `Interfering = FALSE => (Spec => []FixSound)`, goes the same way. A fix
records what the file holds after it, so what has to be known of a run in progress
(`FixHonest`) is that what it has handled holds what the fixer made of it; that the fixer
then leaves it alone is its idempotence, the one thing `CacheAssumption` says of tools.

`LedgerImplemented` is the refinement of `PassLedger` under both assumptions. The ledger
is the union of the statements held anywhere; by `RecordsMove` a step other than a
recording can only keep or lose statements, a recording adds one, and by the two theorems
before, that one is true.

`ExecCacheSaves` proves the promises about saves. `NothingStrandedHolds` follows from the
shape alone. The others rest on `SavesInv`: a record of no bytes has no pass (`Plain`); what
a process has pruned is held nowhere it saves from (`PruneHeld`, which is `PruneSticks`);
what a save has merged belongs to its own key (`MergedOwn`); and, while the file is still the one
merged, what is to be written holds every pass of it but for tombstones and moved paths
(`EntriesKept`, by `MergeKeepsPasses` and `RecordKeepsPasses`), and, when the clock does not
jump back (`Dated`), every verdict at least as young (`VerdictsKept`). `ClockJumps = FALSE` is
needed for the last alone: after a jump back a validation just made is older than the one in the
file.

All inductive invariants were checked by TLC before they were proved. The other
assumptions are `ExecAssumption` and `CacheAssumption`, the typing of the constants; the
bounds play no part. Only model-checked: `SavesEnd`, which is liveness.

Left out: hit statistics, the removal of orphaned temporary files, the encoding
(a payload is what was encoded), the hash memo, and the planner's choice of guards (a
unit's inputs are a constant). Which files of a run a finding is about (`passes.go`) is
collapsed: a run that reports something passes none of its files. `AfterVerdict` and
`DeleteVerdict` lock the cache once each, one after the other; `RecordVerdict` does
what they do in one step.

## The language server: `LspTransport`, `RequestLine`

### What the code does and how the model corresponds

A reader goroutine owns stdin: it registers each request under its id, keeps the open
document, marks requests stopped on `$/cancelRequest`, `shutdown`, `exit` and the end
of input, and queues requests for one worker. The worker dispatches in order; a format
request runs `FormatFile`, which looks at its checkpoint before each step, may write
the buffer to disk, runs the plan's groups, settles, and replies. A signal handler may
call `Stop`, which aborts the session from a third goroutine.

| code | model |
| --- | --- |
| `read`, `route`, `registry.add`, `jobQueue.push` | `ReadRequest`, `Push`, `ReadCancel`, `ReadChange`, `ReadExit`, `PushExit`, `ReadEnd`, `ReaderLeaves` |
| `Stop`, `abort` (two halves: stop the live, drop the queued) | `StopCalled`, `AbortStops`, `AbortDrains` |
| `work`, `jobQueue.pop` | `Pop`, `PopExit`, `PopClosed` |
| `dispatch`'s switch | `Verdict`, `DispatchAnswers`, `DispatchFormatting` |
| `FormatFile`, `persistBuffer`, `executeGroups` | `Checkpoint`, `NextStep`, `StepFails`, `Prepare`, `PersistBuffer`, `MoreGroups`, `RunGroup` |
| `settle`, `replyFormat`, `registry.finish` | `Settle`, `Reply`, `Finish` |

A text is a number that grows with every change, so "the disk never goes back" is an
order on numbers. The kinds of request are those `dispatch` tells apart. A plan has at
least one group (`LspAssumption`): a format whose plan has none is answered before it
does anything. `reader = "push"` is the moment between registration and queueing, in
which an abort may come. A reload of the session succeeds or fails (`Prepare`).
`answer`, `late`, `leaving` and `sent` are history or bounds.

### Properties

* `StopsHeard`: a stop finds its request, though ids are used again and a finish may
  come after the next registration (`Cancellable`); a stopped format does at most the
  step it was in (`StopsAtNextCheckpoint`); no format of a client that left is still
  live (`LeavingStops`).
* `OneOutcome`: a stop and a settlement exclude each other and neither is taken back
  (`StopSticks`), no request gets a second answer (`AnsweredOnce`), and no format puts an
  older text of the document over a newer (`DiskMovesForward`).
* `InOrder`: the transport refines `RequestLine`: answers come in the order of the
  requests and only the end of the line is dropped.
* `NobodyWaits`: with fairness every request is answered or dropped
  (`EveryRequestAnswered`), and `Run` returns (`RunReturns`).

`abort` stops the live requests and then drops the queued ones; a request the worker
takes between the two halves is stopped by neither and runs to its end
unless something else stops it. A client that cancels after the last checkpoint still
gets its buffer written. Neither contradicts the code's own account of itself.

### Runs, bounds, fairness

`LspSession`: two ids, four kinds of request, plans of up to two groups. Its bounds are
sessions: two formats among two changes of the document, so that an id is used again and
one format waits behind another; a format and another request with a cancel of either;
a format and a shutdown with a signal. Each can end by exit or by the end of the input at
any moment. A third format, or a second cancel, could only repeat what the second, or the
first, does. Ids are numbered by their first use, which loses nothing: they are compared
for equality only.

Weak fairness of the reader's own steps, of `abort` and of the worker: goroutines run,
and every tool a step waits for ends. That the client sends anything is not assumed.
Deadlock is not checked because a session may be idle, and ends at rest.

### Proofs

`LspProofs` proves `StopsHeardHolds`, `OneOutcomeHolds` and `InOrderHolds`, for any ids,
bounds and number of groups. `IInv` is the type with: `Line`, that whoever waits for an
answer stands in exactly one place (with the worker, in the queue, or between the registry
and the queue), in the order of arrival, which is what the refinement of `RequestLine`
and "no second answer" rest on; `Cancellable` and `LeavingStops`, which are inductive with
it; `Stops`, what a stop leaves of a request in each phase of the worker; and `Texts`, that
the document, the texts of the requests and the disk grow in step, for `DiskMovesForward`.
The line of `RequestLine` is the set of the numbers of those who wait: `Line` says that an answer is
the least of them and a hang-up takes the last.

`NobodyWaits` is liveness and only model-checked.

Left out: `Stop` before `Run`, frames that are not
JSON, the editor's policy file, the text diff, and writes by the editor itself while a
buffer is persisted. `Reply` looks for a stop and writes the answer in one step; in
`replyFormat` a stop may come between, and then finds the request answered.

## The executor: `Executor`

### What the code does and how the model corresponds

`Execute` runs priority groups one after another. A group is cut into steps of tasks
that do not overlap (`detectParallelGroups`), a step's tasks run on a pool of
`MaxWorkers`, a task resolves its tool, replays what is cached, and spawns processes:
one, one per file in turn, or chunks on a pool of its own. A failure under fail-fast
cancels the run's context; so does an interruption. Every process started is waited
for, and each task is classified as passed, failed, cancelled or interrupted.

| code | model |
| --- | --- |
| `Execute`'s loop over groups, its final error | `NextGroup`, `EndStep`, `Return` |
| `detectParallelGroups` (greedy first fit) | `Fits`, `Taken`, `NextStep`, with `Overlaps` the constant `HasOverlap` |
| `executeTasksParallel` and its semaphore | `FreeWorker`, `GetWorker`, `SkipTask`, `StartTask`, `Settle`, `FailsFast` |
| `executeTask`: resolve, replay, outcome | `Resolve`, `ResolveFails`, `Replay`, `EndTask`, `Outcome` |
| `executePerFile`; `executeBatch`, `executeBatchChunksParallel` | `NextFile`, `SkipFiles`; `GetChunkWorker`, `SkipChunk`, `StartChunk` |
| `processState`, `trackStop` | `Exit`, `Stop` |
| signal | `Interrupt` |

`rest` holds the places, in plan order, of the tasks that are in no step yet. `Taken` is
stated by what first fit yields and not by its loop: the set of places in which a place
is taken exactly when its task overlaps none taken before it. There is one such set.

A process stopped by the cancellation and one that ended first are two actions in a
race, as they are in `cmd.Wait`. Whether a task is chunked and how many processes it
needs are constants here; the cut by length is `Chunks` in `Planner`.

### Properties

`NoOverlap` says who may be at work together; `Orderly` (`GroupBarrier`, `TaskCap`,
`NothingLeftRunning`) when, how many, and that none is left; `FailuresTold`
(`OwnFailureShown`, `FailFastHasACulprit`, `KeepGoing`) that a cancellation neither hides a
failure nor invents one, and that nothing is cut short without fail-fast or an
interruption; `Returns` says that `Execute` returns.

`TaskCap` bounds tasks. Processes are not bounded by `MaxWorkers`: each chunked task
has a pool of that size of its own, so a step of chunked tasks may run up to its
square.

### Runs, bounds, fairness

`ExecutorRun`: five tasks in two groups on two workers; one task overlaps another, so
the first group takes two steps with three tasks competing for two slots; two tasks are
chunked, one checks two files; fail-fast on and off; an interruption anywhere. This
makes every race of a cancellation with a start, an exit, a slot and a settlement
happen. Fairness: goroutines run and tools end (or are killed after their grace period,
which is `Stop`). Deadlock is not checked because
the run is over when `Execute` has returned.

### Proofs

`ExecutorProofs` proves the three safety properties for every plan, pool size, chunking and
overlap relation: `OrderlyHolds`, `NoOverlapHolds` and `FailuresToldHolds`. They rest on `ExecutorAssumption` alone: finitely many tasks,
each in one group and there once, overlaps symmetric, at least one worker, and at least
one process to a task.

The properties are not inductive. `IInv` adds three things. `Whereabouts`: only tasks of
the step are at work, what waits in `rest` or in a later group is still planned, and the
tasks of a step do not overlap each other; without it nothing says why two busy tasks
come from one step. `Behind`: unless the run is cancelled the group has lost no task, and
the groups before it are over and, under fail-fast, passed; this is what a group's start
and a run's end rely on. `ProcsFit`: how far a task's processes can be in each of its
states, and what its result says of them; a process may be left out without a failure
only in a cancelled run.

Two facts carry the argument. `TakenFits`: the choice that `Taken` makes exists, by the
least number of places for which it would not; so a step's tasks fit together, whatever
overlaps what. And every step of a task is a `Moved`: it changes that task alone, keeps
the pool's limit, and cancels the run only with a failure of its own. `MovedKeeps` shows once that such a step keeps `IInv`; the actions then
only have to be shown to be one.

`Returns`, a liveness property, is only model-checked. Left out: output capture, and what
others do with the results: the passes and verdicts recorded in the cache (`ExecCache`),
the gate and the report (`Runner`).

## The source farm: `FarmBake`

### What the code does and how the model corresponds

A farm is a directory with one entry per tool, all of them links to datamitsu itself,
so its content is a set of names. `source` activation and refresh, and every tool run
that finds the manifest stale, bake: snapshot the watched files, load the config chain,
compare what it read with the snapshot, take the lock (or wait and find that a peer
baked), stage a directory, rename the old farm away and the new one in, and write the
manifest. On Windows there is no lock, and the second rename may find a farm there.

| code | model |
| --- | --- |
| `runSource`, `runSourceRefresh` (`--force`); the shim's `runManifest` | `Begin`; `RunTool` |
| `loadSourcePlan`, `manifestChainMatches`, `Validate` | `Valid`, `FreshFor`, `CheckFresh` |
| `watchSetSince` and the load | `Snapshot`, `Read`, `LoadFails`, `Loaded` |
| `acquireBakeLock`, `manifestMatches` | `Acquire`, `Wait`, `PeerWins` |
| `materialize`, `swapIntoPlace` | `StageFails`, `Retire`, `Move`, `LosesRace`, `MoveFails`, `WriteManifest`, `ManifestFails` |
| kill | `Crash` |

A version stands for an mtime and a size; every edit gives a file a new one. Each file
is read in a step of its own, so edits fall between any two reads.

### Properties

* `FreshIsCurrent`: what is served as fresh was read from the files as they are; and the
  farm in place, which the shell then finds, is the one the manifest tells of, or that of
  the bake about to write its manifest. Files that only the load reports are excepted, as
  the code's own comment excepts them.
* `FarmStands`: between swaps farm and manifest agree (`FarmDescribed`), but for a farm
  that a dead bake had set aside; no failing or losing bake leaves the shells without a
  farm (`KeepsAFarm`).
* `Settles` (`BakesEnd`, `Converges`): every invocation ends; once the files hold still and tools
  keep being run, the manifest was read from the files as they are and the farm is the
  one it tells of.
* `TornIsStale`: what the comment on `swapIntoPlace` says, that a farm left under the
  previous manifest is never served. It is false (`FarmTornServed`).

What these say of the farm, they say with a lock and as long as no swap is *torn*: a bake
that fails or dies after its farm is in place and before its manifest is (the counter
`torn`; every other death counts as a crash). After a torn swap, or without a lock, one
bake's farm may stand under another's manifest for good, as long as the files hold still.

Outside these: a crash with the farm set aside leaves no farm at all until the next
activation (its tools cannot be run to notice); and the configuration a tool run loads
after its rebake is not compared with the farm again.

### Runs, bounds, fairness

`FarmBake`: two invocations of two chains (with and without flags), the lock working or
not; two edits, two tool runs, or one failing step, torn swap or crash among one bake
of each. Two bakes meet in the lock and in the directory; a third would find what the
second finds. `FarmTornServed`, the same instance, shows a torn flagged bake whose farm
plain invocations are served as fresh. Fairness: each invocation's own steps (a poll ends with its timeout);
`Converges` assumes in its statement that tools keep being run. Deadlock is not checked because nobody needs to invoke anything.

### Proofs

`FarmProofs` proves `FreshIsCurrentHolds` and `FarmStandsHolds`, for any chains, files and
number of invocations, from `FarmAssumption` alone (the chains without flags are among the chains,
the files of each are files). `IInv` adds to the type:

* `Recorded`: of a bake, and of the manifest, what is watched is no younger than what was
  loaded, which is no younger than the tree. So a manifest whose watched files are as they
  were was loaded from them: `FreshIsCurrent`. This is where the snapshot has to precede
  the load.
* `Holds`: between staging and the last rename the bake has the lock, where there is one.
* `Placed`: with a lock and no torn swap, the farm is the manifest's, or lost in a crash
  (`Kin`), while nobody swaps; a bake that has moved it away has it in its hands, one that
  has placed its own is about to say so. What is served is there (`FreshFor`), so it is
  one of the last two or the manifest's: the other half of `FreshIsCurrent`.
* `Kept`: without a crash, but with or without a lock, a farm that is not there is in the
  hands of a bake between its renames, and was a farm (`retired.there`). Without the last clause
  the invariant is not inductive: a bake that failed to move its own in would
  bring back nothing.

`Settles` is liveness and only model-checked.

Left out: ownership and mode checks of the farm,
the shim's target, the environment part of a chain's key, the generated shell code,
lazy installation. A farm of explicit `--config` files is the instance with one chain.
## The planner: `Planner`, `PlanProperties`, `PlanProofs`

### What the code does and how the model corresponds

A planner is made for a directory of the repository and a widening policy. It takes the
caller's walk or walks itself, detects projects, reads `.datamitsuignore`, and answers
`Plan` for an operation, some paths and some tools: it matches globs, drops what is
ignored, cuts per-project work along the nearest project, widens to whole units where a
tool's verdict is about one, and records for each task the unit's members and guards.
An editor session keeps its planner and calls `Invalidate`.

| code | model |
| --- | --- |
| `SeedFiles`, `Invalidate`, `initializeCache` | `SeedFiles`, `Invalidate`, `InitializeCache` |
| `Plan`, before and after the tasks are collected | `BeginPlan`, `FinishPlan`, `PlanFor`, `Assembled` |
| `collectTasks` and its three scopes | `Considered`, `Collect`, `RepositoryTask`, `ProjectTasks`, `FileTasks` |
| `createPerProjectTasksInScope`, `groupFilesByProject` | `PerProject`, `NearCwd`, `Shares`, `Nearest`, `OrFallback` |
| `collectUnitTasks`, `selectionPermitsUnit` | `UnitTasks`, `PermitsUnit` |
| `unitMembers`, `unitGuards`, `coverageFor`, `attachUnit` | `UnitMembers`, `GuardsAbove`, `UnitGuards`, `CoverageFor`, `TaskOf` |
| `HasOverlap`, `globsOverlap` | `HasOverlap`, `GlobsOverlap` |
| `matcher.go` of the ignore rules | `IsDisabled`, `IsProjectDisabled`, `DisabledEverywhere` |
| `chunkFilesByCommandLength` | `AddFile`, `Chunks`, `Chunk` |
| editors, git, package managers | `EditTree`, `EditRules`, between any two steps |

A path is the sequence of its names, so that being inside a directory is having it as a
prefix; a glob is a directory and an ending, which is what every question the planner
asks of one depends on. A chunk's length counts a path as long as it has names. Plan is
two steps because guards are read from the disk after the walk was taken; within either
step the disk holds still.

### Properties

* `EachFileOnce`: no tool gets a file twice (`FileOnce`); a run of the repository leaves
  out no file that the rules leave a tool (`NothingMissed`); a per-project tool sees a file
  from its nearest project (`OwnProject`); and the cut into command lines gives every file
  once, in order, over the limit only when it is alone (`CutLosesNothing`, `CutFits`).
* `CoverageHonest`: a task that says it covers its unit was given all that a run of the
  whole repository would give it there. `ExecCache` records verdicts on its word.
* `StaysOnTarget`: under `target` nothing is rewritten outside what was asked for.
* `DisjointInPlace`: what `HasOverlap` lets run together in one directory shares no file.
  The statement across directories is the finding `PlanOverlapMissed`.
* `NothingStale`: guards are the disk's at the time of the plan (`GuardsCurrent`), and a
  planner whose walk still is the tree plans what a planner without memory would
  (`PlanIsFresh`, against the instance `Fresh`).

### Runs, bounds, fairness

`PlanRun`: nine tools, one of every scope and granularity, one switched off, one without
a binary; two npm projects, a directory in one that may become a third, a file of
neither; ignore rules that switch off, switch on again and do not parse; three
directories to stand in, three policies, seven ways to ask; two edits and two plans. A
memo is taken by one plan and used by the next, so two plans show what a long-lived
planner can get wrong; two edits move the tree away from a walk and back.

A planner acts when it is asked and no fairness is assumed; deadlock is not checked
because edits and plans are bounded. Left out: the order in which tools are listed,
timings and spans, and the walk itself; the guards that a tool's arguments or managed
configs add to a unit's own (`verdict.go`); and a task without a project path, which is
taken to be the root's (the code stats its guards relative to where the process runs).

### Proofs

`PlanProofs` proves all five properties `PlanRun` checks, and `TypeOK`, for any tree,
tools, operations, ignore rules, policies, requests and limits. Two assumptions about the
constants are needed, and TLC evaluates them on the instance:

* `PathsAssumption`: a directory one stands in is not a file; of two endings of
  one file one ends in the other (`a.test.ts` ends in `.ts` and in `.test.ts`), which is what
  lets `globsOverlap` decide by comparing the globs; rules are lists of rules; there are
  finitely many files, so that a task's files can be put in a list.
* `OperationsAssumption`: what the validation of a configuration enforces of scopes and
  granularities (`internal/config/config.go`, `validate.go`).

*What an edit can spoil.* `MemosInvariant` says that the memos of globs and of unit members
are true of the walk the planner holds, that detected projects are the walk's, and that a
plan begins with no guard remembered. It is inductive (`MemosSound`) because `Invalidate`
drops every memo with the walk, and `BeginPlan` drops the guards. `NothingStale` follows in
two parts: a guard memo that is empty when a plan begins cannot hold what is no longer on
the disk; and `PlanSame` goes through the planner operator by operator, against the instance
`Fresh` that remembers nothing, and shows each equal as long as the walk is the tree. The
property would fail at the first operator that reads a memo nobody cleared.

*What a plan is when it is made.* With true memos a plan is a function of the walk. The
lemmas named `…WhenMade` show of `PlanFor(r)`, for every request, what each property claims
of its tasks, by the scope of the operation: `RepositoryTaskIs`, `FileTaskIs` and
`ProjectTaskIs` say what tasks there are, `ShareFacts` what `groupFilesByProject` gives a
directory, and `NearestIs` and `UnderFacts` that the nearest project of a file exists, is
one, and has no other between it and the file. `PlanSteps` carries the claims on: a plan is
only ever replaced by one just made, or emptied, and the walk beneath it only dropped.

* `FileOnceHolds`: shares of one grouping are disjoint because the nearest project is one;
  a widened unit is a share of a grouping of its own, so it is disjoint as well.
* `OwnProjectHolds`: the directories that `filterProjectLocationsToSubtree` drops are no
  file's nearest one when the file is under the current directory. For named paths outside
  it they can be, and the proof does not go through; `OwnProject` says so.
* `NothingMissedHolds`: the shortcut for a tool disabled everywhere needs that no rule turns
  it on again; the fallback of `groupFilesByProject` needs that its shares were all disabled.
* `CoverageHonestHolds`: every file nearest to a unit lies below it and so is one of its
  members, which are what `coverageFor` compares with, after excludes and ignore rules; a
  task widened to its unit has the unit's share of everything.
* `StaysOnTargetHolds`: under `target`, `selectionPermitsUnit` lets a unit through only in
  a run of the root or when it lies in the directory stood in, and everything below it is
  then selected; other tasks are given selected files only.
* `DisjointInPlaceHolds`: where the globs overlap, the tasks are per-file ones of two
  different files; where they do not, no file matches both (`GlobsThatMeet`).

*The cut into command lines.* `chunkFilesByCommandLength` is a loop, here a function
defined by recursion over the number of files. `UpTo` is induction for a set of numbers,
taken from the least-element principle; `Iterates` shows that such a function exists, so
that `Chunks`, `LineLength` and `FlattenSeq` are what their definitions say.
`CutSoFar` is the loop's invariant: the finished chunks and the one being filled hold the
first n files in order, each fits, and the length kept is the chunk's. `CutStarts` and
`CutGoesOn` are the loop's two branches, `ChunksAre` its result and `CutIsRightHolds` the
property.

## The store: `StoreReady`, `StoreReadyProofs`

### What the code does and how the model corresponds

Processes share a store of installed subtrees and prepared states and talk through it
alone. A tool is installed without a lock: look, download, look again, rename, and a
rename that finds a directory there has lost and takes the winner's. An app's one-time
step runs under the lock of its subtree: a layout is staged, published with a lease, run
in, validated, marked, and renamed into place, a markerless remnant being moved aside
first. A full pull of a bundle places layers under the same locks and leaves a marker.
A waiter whose context ends leaves a goroutine behind that takes the lock later and
drops it. The end of a command sweeps what is left over.

| code | model |
| --- | --- |
| `EnsureTools`, `GetCommandInfo`, `seedFromChanged` | `Begin`, `Barrier`, `EndPrepare`, `EndSeed` |
| `getOrInstallBinaryPath`, `downloadInternal`, `moveDir` | `LookUp`, `Fetch`, `MoveLook`, `MoveRename`, `MoveBreaks` |
| `lockFile` and its goroutine | `Flock`, `Abandon`, `OrphanFlock`, `OrphanDrop` |
| `prepare.Run`, `newLayout`, `runStep`, `validateOutput` | `Check`, `Enter`, `Stage`, `Publish`, `StepStarts`, `StepEnds`, `StepFails`, `Validate` |
| `placeState` | `PlaceLook`, `MoveAside`, `PlaceRename` |
| `seedLayer`, `placeSubtree` | `Begin` (`Undeclared`), `Blob`, `LayerPlace`, `LayerRename` |
| `SweepStale` | `SweepStale`, `Swept`, `ProcessAlive` |
| kill, restart, 24 hours, the documented repair | `Die`, `Start`, `DayPasses`, `DeleteMarker` |

A look and the rename it is for are two steps, as they are in the code, and every other
process may act between them. A step whose directory was swept under it may make it
again without its lease and with a part of its content (`StepEnds`). `seedLayer` skips the
layer of a parser module that the config does not declare, before it takes any lock and
as a success (`Undeclared`); since the skip touches nothing shared, `Begin` leaves these
layers out, and queues the others. The marker lists them all the same, so after such a
pull it satisfies no later one unless something else brings the module
(`Before`): every full pull asks the registry again. A pid is looked for
among the processes of the sweeper's namespace, which is where two containers differ
from two shells.

### Properties

* `MarkersTrue`: what counts as ready is whole (`ReadyIsWhole`); a completed full pull left
  every subtree of the bundle in the store that it did not skip (`SeedMarkerTrue`); and
  what is put aside to be deleted was not ready (`AsideNotReady`).
* `OneAtATime`, `StepOnlyWhenNeeded`: one process at a time between lock and placement, and
  no step for a state that is ready.
* `ClosureFirst`: a step finds its whole closure installed and the states before it
  ready.
* `ReadyStays`: nobody but the user takes a ready subtree away.
* `LiveLayoutKept`: the layout of a living step is not swept, however old.
* `CommandsEnd`: every command ends, cancelled waiters and dead lock holders included.

### Runs, bounds, fairness

`StoreReady`: two processes; a tool and its dependency, each with a step; a bundle of one
binary and one state, so that a pull meets an install and a step, and of a parser module
that is not declared, there already or not; two commands, one death, one deleted marker
(or one deleted before). Every pair of commands meets over
every subtree; a third process could only wait where the second waits, and the proofs
below do not depend on the number. `StoreTwoContainers` is the same store with a pid
namespace for each process and is the finding.

Fairness: each process's own work and each orphaned goroutine; downloads and steps end,
by their timeouts if not otherwise. Deaths, restarts, deletions and abandoned waits are
not fair. Deadlock is not checked: bounds run out.

### Proofs

For any processes, closure, bundle and bounds, from `StoreAssumption` alone, the typing of
the constants and that no path is both a binary's and a state's:

| theorem | statement |
| --- | --- |
| `TypeCorrect` | `Spec => []TypeOK` |
| `OneAtATimeHolds` | `Spec => []OneAtATime` |
| `ClosureFirstHolds` | `Spec => []ClosureFirst` |
| `ReadyStaysHolds` | `Spec => ReadyStays` |
| `StepOnlyWhenNeededHolds` | `Spec => StepOnlyWhenNeeded` |
| `MarkersHold` | `Spec => [](SeedMarkerTrue /\ AsideNotReady)` |

and where all processes see each other (`OneNamespace`), which the finding shows is
needed:

| theorem | statement |
| --- | --- |
| `MarkersTrueHolds` | `Spec => []MarkersTrue` |
| `LiveLayoutKeptHolds` | `Spec => LiveLayoutKept` |

None of these is inductive as it stands. `IInv` (theorem `Invariant`) adds, and needs each
of: `LockHeld` (who is inside holds the lock, without which a second could enter);
`Phases` and `InOrder` (how far a process can be, and that a state begins when those before
it are done, which is what `ClosureFirst` rests on); `Unready` (what a holder works on does
not become ready under it, so that moving it aside or starting its step is right: it
rests on every placement being under the lock); `LayoutHome` (whose layout is whose);
`Kept` (what was found done stays, up to deleted markers: it carries both `ClosureFirst`
and the completed pull). `IInvOne` (`InvariantOne`) adds `Laying`, that a step under
way has its published and leased directory and what is placed passed validation, and
`ThereIsWhole`. The proof reduces almost every action to one form, `Move`: one process
gets on with one subtree, and what it does to store, lock and layout is tied to where it
comes from and goes to; `MoveKeeps` shows once that such a step keeps `IInv`. What remains
are the beginnings and ends of commands, the orphans, deaths, deletions and days.

`CommandsEnd` is only model-checked: liveness is beyond the prover. Left out: what happens
within a download, an extraction and a step; leftovers of a pull's staging; several
commands in one process, whose downloads are coalesced; pulls on demand, which take fewer
layers; Windows, where a rename is tried again and a step's processes are held in a job.
Several goroutines that one process left
waiting for one subtree count as one.

## The command and its report: `Runner`

### What the code does and how the model corresponds

A command runs its operations one after another (`check` is fix, then lint). For each it
plans, records what was skipped and narrowed, sets up, executes, and folds the results
into the report. Each process's findings are matched against the baseline and gated as
the process is judged, long before the report numbers them. A tool's findings are handed
out as events when its last task has arrived. At the end the report judges its own
completeness, and one of several reasons decides the exit code.

| code | model |
| --- | --- |
| `runOperations`, `runSingleOperation` and its early returns | `TakeUp`, `NeverBegins`, `PlanningFails`, `NothingToRun`, `SetupFails`, `Execute` |
| what a process comes to (`executor.go`, `accumulator.go`) | `Exit`, `Stop`, `Skip`, `Replay`, `Unset` |
| results delivered; `unreachedTasks`, `recordSkips`, `recordCoverage` | `EndStep`, `EndOperation`, `Unreached`, `RecordCoverage` |
| `BaselineMatcher.Mark`, `ThresholdGate`, `applyGate` | `MarkedOf`, `Gating`, `Passed` |
| `AddTask`, `flushTool`, `settleFindings`, `ordinals` | `Delivered`, `EventsOf`, `Listed`, `Ordinal` |
| `toolReasons`, `judge`, `runReasons` | `UnitComplete`, `TaskComplete`, `Complete` |
| `NewBaseline`, `heldOf` | `NewBaseline`, `HeldOf` |
| `outcome`, `coverageFailure`, `skipFailure`, `writeReports` | `Outcome`, `CoverageShort`, `SkipFailure`, `Finish` |
| signal | `Interrupt` |

The executor appears as its contract, which `Executor` is about: steps one after another,
the processes of a step in any order, the rest skipped once the run is cancelled. What a
process has to tell (`has`), what the parser makes of it (`found`), whether it could be
read and whether it exited 0 are separate, so that output nobody understood differs from
nothing to report. A finding is a tool, a line and a position; the line stands for what a
baseline compares: file, rule and the hash of the line's text.

### Properties

* `NewNeverSilenced`: whichever processes report the findings of a line, in whichever
  order, exactly as many are marked as the baseline holds, and a finding two processes
  report is marked for both or for neither.
* `BaselineAbsorbs`: a baseline made of a run's report holds, of every line, what the run
  found there, however the findings were spread over processes and operations. Findings
  with neither file nor rule are excepted (`Numbered`) where a process of their tool failed
  without a finding: its failure is listed as one, takes a number among them, and is left
  out of the baseline.
* `ReportTrue`: a report that calls itself complete lists everything there was to find
  (`CompleteListsAll`); events and report agree, and what the run stopped is listed as
  stopped and nothing else is (`EventsAreTheReport`).
* `Honest`: exit code 0 is earned (`ExitHonest`): every operation was taken up, every
  planned task passed, and under `--require-coverage` no answer was cut short. The last
  two are stated where a project type is detected, for the reason the finding shows.

### Runs, bounds, fairness

`RunnerCheck`: a fix, then a lint whose first step has two tasks of one tool with three
processes over three findings of one line, and whose second is a tool without a parser;
eight ways to ask (fail-fast, both coverage requirements, skips of every reason, a
misplaced config, nothing to fix); a baseline that holds none, one or two findings of the
line. Three findings, two of them reported twice, against two places is the least in which
order, duplicates and a full baseline meet. `RunnerUntyped` is the same where no project
type is detected, and is the finding.

Only safety is stated, so no fairness: that an execution ends is `Executor`'s `Returns`.
Deadlock is not checked because the command is over.

### Proofs

`RunnerProofs` proves all four properties, for any plans, tools, numbers of processes,
answers, baselines and flags. `RunnerAssumption` says what the rest of the program gives the
runner: a command is `fix`, `lint` or both (`cmd`); a plan has a task once (`Planner`); skips
have one of three reasons; an answer's findings are finitely many, are the tool's own, and a
parser that read an output to its end found what is in it, unless the process failed and it
found nothing (which is `Failing`).

Every step is one of six (`Steps`): an interruption, a task at work, the beginning of an
operation, the end of a step or of an operation, the end of the run. `Shape` is the inductive
core (`ShapeInvariant`): which operations are behind the run, which task may be at work, what each process
came to (`Sense`: one of its answers, or nothing) and which tasks have arrived
(`Arrivals`: those of the steps before this one, all of them ended). On it rest:

* `HonestHolds`, with `Stopping` (of an operation that is behind the run, the stopped tasks are those a
  cancellation kept from an outcome), `Earned` (what is behind a run that has not failed
  has begun and passed, and what it cut short is recorded) and `Exits`. `Earned` is what a test of
  the exit code cannot see: an operation skipped over without a failure.
* `ReportTrueHolds`, with `Telling`: while an operation executes, its events are those of
  the tools whose every task has arrived, numbered over exactly the tasks that are in the
  report then; so no event has to be taken back.
* `NewNeverSilencedHolds`: the property is inductive with `Shape`. The findings of a line that a
  process brings are ranked from 0 without a gap (`RanksCount`), as many of them rank below
  a number as the number allows (`RanksBelow`), and so the marks come to what the baseline holds
  (`MarksCount`).
* `BaselineAbsorbsHolds`: by the same ranks the ordinals of a line are 0, 1, and so on, each
  of them in the baseline, which holds a line up to its first gap.

Three things are coarser than the code. Whether output is parsed is a matter of the tool,
not of the tool and the operation (`parsesOutput`), and so is whether the gate judges it
(`gate.go` asks for each process which module parsed it). That a task of a parsed tool is
replayed only when it had nothing to find is assumed in `Replay`; it rests on what
`passes.go` records. Failures listed as findings are numbered before the real findings
at `Nowhere`, where the code sorts by row, column, source and message.

Left out: the fallback parser, annotations, masking of secrets, the observation of what a
fix changed, what `--explain` prints, and all rendering. The instance has no finding at
`Nowhere`.

## Not modelled

* **Content-hash memo.** Whether a hash taken before a rewrite of the same length can be
  served after it depends on the granularity of the file system's clock: a fact about
  the platform, not about an order of the code's steps. `ExecCache` reads contents.
* **The editor saving between the comparison with the disk and the write of the buffer**
  (`internal/lsp/server.go`). The code has no guard to state a property of: the window is
  there and the buffer wins.
* **Editor session and reloads.** The transport sees a reload that succeeds or fails and
  the cache sees its new key; the watch set in between is left for later.
* **Runtime manager.** Installs through the same store and through external package
  managers; what it adds to `StoreReady` is process invocation.
* **Evaluated-config cache, remote configs, verification state.** Content-addressed files
  written aside and renamed, verified or rebuilt when read: a race costs a repetition.
* **Config evaluation, parsers.** JavaScript and WASM; the models take the resulting
  configuration and findings as constants.
* **Managed configs, installer.** One directory swap under one lock, and one sequential
  pass run by hand.
* **Detector, target, registries, facts, traverser, terminal, developer tools.** Pure
  functions and I/O, or output that nothing reads back.
