------------------------------ MODULE FarmBake ------------------------------
(***************************************************************************)
(* One source-mode farm: a directory of tool names on the PATH of every    *)
(* activated shell, and beside it the manifest that says which config      *)
(* chain, read from which files, it was baked from.  Activations,          *)
(* refreshes and tools run through the farm (cmd/source.go, shim.go) judge *)
(* the manifest by its watch set and bake anew when it is stale            *)
(* (materialize.go): snapshot, load, lock, stage, and two renames.         *)
(*                                                                         *)
(* A version is an mtime and a size: every edit gives a file a new one.    *)
(* Ownership and mode checks, and what a plan says of a name beyond the    *)
(* name itself, are left out.                                              *)
(***************************************************************************)
EXTENDS Naturals, Functions

CONSTANTS
  Procs,        \* the invocations that can be under way at once
  Chains,       \* the config chains whose farms share the directory
  Plain,        \* the one selected without flags
  Known,        \* the watched files known before the config is loaded
  Files,        \* for each chain, those that only its load reports
  Apps(_, _),   \* the names a chain declares, its files read as given
  None,
  Bounds        \* how often each of Counters may happen, per alternative

Counters == {"edits", "runs", "failures", "torn", "crashes"}

Watched(c) == Known \cup Files[c]
AllFiles   == UNION {Watched(c) : c \in Chains}

ASSUME FarmAssumption ==
  /\ Plain \in Chains /\ None \notin Chains
  /\ Files \in [Chains -> SUBSET AllFiles]
  /\ None \notin Procs
  /\ Bounds \subseteq [Counters -> Nat]

VARIABLES
  tree,       \* the version of every file
  farm,       \* the names in the farm directory, if there is one
  manifest,   \* the manifest beside it, if there is one
  flock,      \* is there a lock that works (not on Windows)?
  lock,       \* who holds it
  job,        \* what each invocation is doing
  spent       \* how often what is bounded has happened

vars == <<tree, farm, manifest, flock, lock, job, spent>>

Nothing    == [x \in {} |-> 0]
NoFarm     == [there |-> FALSE, names |-> {}]
NoManifest == [chain |-> None, watch |-> Nothing, loaded |-> Nothing]
NoJob      == [phase |-> "idle", chain |-> None, force |-> FALSE, prior |-> Nothing,
               loaded |-> Nothing, watch |-> Nothing, retired |-> NoFarm]

FarmOf(c, read) == [there |-> TRUE, names |-> Apps(c, read)]

Init ==
  /\ tree = [x \in AllFiles |-> 0]
  /\ \/ farm = NoFarm /\ manifest = NoManifest
     \/ LET read == Restrict(tree, Watched(Plain))
        IN  /\ farm = FarmOf(Plain, read)
            /\ manifest = [chain |-> Plain, watch |-> read, loaded |-> read]
  /\ flock \in BOOLEAN
  /\ lock = None
  /\ job = [p \in Procs |-> NoJob]
  /\ spent = [c \in Counters |-> 0]

Spend(c) ==
  /\ spent' = [spent EXCEPT ![c] = @ + 1]
  /\ \E bound \in Bounds : \A x \in Counters : spent'[x] <= bound[x]

(***************************************************************************)
(* Judging the manifest.                                                   *)
(***************************************************************************)
Valid == \A x \in DOMAIN manifest.watch : manifest.watch[x] = tree[x]

EntriesPresent == farm.there /\ Apps(manifest.chain, manifest.loaded) \subseteq farm.names

ChainMatches(m, c) == m.chain = c

\* Is an invocation with chain c served the farm on disk as fresh?
FreshFor(c) == manifest # NoManifest /\ ChainMatches(manifest, c) /\ Valid /\ EntriesPresent

\* The farm the manifest tells of.
Described == IF manifest = NoManifest THEN NoFarm ELSE FarmOf(manifest.chain, manifest.loaded)

ManifestMatches(j) ==
  manifest # NoManifest /\ manifest.chain = j.chain /\ manifest.watch = j.watch

(***************************************************************************)
(* The world.                                                              *)
(***************************************************************************)
Edit(x) ==
  /\ Spend("edits")
  /\ tree' = [tree EXCEPT ![x] = @ + 1]
  /\ UNCHANGED <<farm, manifest, flock, lock, job>>

\* An activation, or a refresh, with or without --force.
Begin(p, c, force) ==
  /\ job[p].phase = "idle" /\ Spend("runs")
  /\ job' = [job EXCEPT ![p] = [NoJob EXCEPT !.phase = "check", !.chain = c, !.force = force]]
  /\ UNCHANGED <<tree, farm, manifest, flock, lock>>

\* A tool run through the farm: one that finds the manifest stale spawns a refresh
\* with the recorded flags and then runs what the manifest says by then; one that
\* finds it fresh, or finds none, changes nothing.
RunTool(p) ==
  /\ job[p].phase = "idle" /\ farm.there /\ manifest # NoManifest /\ ~Valid
  /\ job' = [job EXCEPT ![p] = [NoJob EXCEPT !.phase = "check", !.chain = manifest.chain]]
  /\ UNCHANGED <<tree, farm, manifest, flock, lock, spent>>

(***************************************************************************)
(* A bake.                                                                 *)
(***************************************************************************)
OnlyJob(p, j) ==
  /\ job' = [job EXCEPT ![p] = j]
  /\ UNCHANGED <<tree, farm, manifest, flock, lock, spent>>

Phase(p, phase) == [job[p] EXCEPT !.phase = phase]

\* Mutant of Unlocked: the lock is kept.
LockKept(p) == lock

Unlocked(p) == IF lock = p THEN None ELSE lock

\* Whatever the bake came to, the invocation ends: the error paths that serve or
\* refuse the previous farm write nothing.
Ends(p) ==
  /\ job' = [job EXCEPT ![p] = NoJob]
  /\ lock' = Unlocked(p)

\* Only an invocation without flags may be answered by the manifest.
CheckFresh(p) ==
  /\ job[p].phase = "check"
  /\ ~job[p].force /\ job[p].chain = Plain /\ FreshFor(Plain)
  /\ OnlyJob(p, NoJob)

Snapshot(p) ==
  /\ job[p].phase = "check"
  /\ job[p].force \/ job[p].chain # Plain \/ ~FreshFor(Plain)
  /\ OnlyJob(p, [Phase(p, "load") EXCEPT !.prior = Restrict(tree, Known)])

\* The load reads every file of the chain at a moment of its own.
Read(p, x) ==
  /\ job[p].phase = "load"
  /\ x \in Watched(job[p].chain) \ DOMAIN job[p].loaded
  /\ OnlyJob(p, [job[p] EXCEPT !.loaded =
       [y \in DOMAIN @ \cup {x} |-> IF y = x THEN tree[x] ELSE @[y]]])

LoadFails(p) ==
  /\ job[p].phase = "load" /\ Spend("failures")
  /\ Ends(p)
  /\ UNCHANGED <<tree, farm, manifest, flock>>

\* Mutant of WatchSetSince: the files as they are after the load.
WatchSetNow(prior, current) == current

\* A file that changed during the load is recorded as it was before.
WatchSetSince(prior, current) ==
  [x \in DOMAIN current |-> IF x \in DOMAIN prior THEN prior[x] ELSE current[x]]

Loaded(p) ==
  /\ job[p].phase = "load" /\ DOMAIN job[p].loaded = Watched(job[p].chain)
  /\ OnlyJob(p, [Phase(p, "lock") EXCEPT
       !.watch = WatchSetSince(job[p].prior, Restrict(tree, Watched(job[p].chain)))])

\* Mutant of LockFree: the lock is advisory, and not asked.
LockIgnored == TRUE

LockFree == flock => lock = None

\* First without waiting, then by polling, after the timeout by blocking.
Acquire(p) ==
  /\ job[p].phase \in {"lock", "poll", "block"} /\ LockFree
  /\ job' = [job EXCEPT ![p] = Phase(p, "stage")]
  /\ lock' = IF flock THEN p ELSE None
  /\ UNCHANGED <<tree, farm, manifest, flock, spent>>

Wait(p) ==
  /\ \/ job[p].phase = "lock" /\ ~LockFree /\ OnlyJob(p, Phase(p, "poll"))
     \/ job[p].phase = "poll" /\ ~LockFree /\ OnlyJob(p, Phase(p, "block"))

\* A peer has baked just what this bake would.
PeerWins(p) ==
  /\ job[p].phase = "poll" /\ ManifestMatches(job[p])
  /\ OnlyJob(p, NoJob)

StageFails(p) ==
  /\ job[p].phase = "stage" /\ Spend("failures")
  /\ Ends(p)
  /\ UNCHANGED <<tree, farm, manifest, flock>>

\* swapIntoPlace: the live farm aside, the new one in, then the manifest.
Retire(p) ==
  /\ job[p].phase = "stage"
  /\ job' = [job EXCEPT ![p] = [Phase(p, "move") EXCEPT !.retired = farm]]
  /\ farm' = NoFarm
  /\ UNCHANGED <<tree, manifest, flock, lock, spent>>

Move(p) ==
  /\ job[p].phase = "move" /\ ~farm.there
  /\ farm' = FarmOf(job[p].chain, job[p].loaded)
  /\ job' = [job EXCEPT ![p] = Phase(p, "manifest")]
  /\ UNCHANGED <<tree, manifest, flock, lock, spent>>

\* A peer's farm is there already: the bake counts as done.
LosesRace(p) ==
  /\ job[p].phase = "move" /\ farm.there
  /\ Ends(p)
  /\ UNCHANGED <<tree, farm, manifest, flock, spent>>

Restored(p) == job[p].retired

MoveFails(p) ==
  /\ job[p].phase = "move" /\ ~farm.there /\ Spend("failures")
  /\ farm' = Restored(p)
  /\ Ends(p)
  /\ UNCHANGED <<tree, manifest, flock>>

WriteManifest(p) ==
  /\ job[p].phase = "manifest"
  /\ manifest' = [chain |-> job[p].chain, watch |-> job[p].watch, loaded |-> job[p].loaded]
  /\ Ends(p)
  /\ UNCHANGED <<tree, farm, flock, spent>>

\* farmSwappedError: the new farm stays under the previous manifest.
ManifestFails(p) ==
  /\ job[p].phase = "manifest" /\ Spend("torn")
  /\ Ends(p)
  /\ UNCHANGED <<tree, farm, manifest, flock>>

\* The kernel releases the lock; the staging directory stays behind.  A death between
\* the two renames tears the swap, too.
Crash(p) ==
  /\ job[p].phase # "idle" /\ Spend(IF job[p].phase = "manifest" THEN "torn" ELSE "crashes")
  /\ job' = [job EXCEPT ![p] = NoJob]
  /\ lock' = IF lock = p THEN None ELSE lock
  /\ UNCHANGED <<tree, farm, manifest, flock>>

Bake(p) ==
  \/ CheckFresh(p) \/ Snapshot(p) \/ (\E x \in AllFiles : Read(p, x)) \/ Loaded(p)
  \/ Acquire(p) \/ Wait(p) \/ PeerWins(p)
  \/ Retire(p) \/ Move(p) \/ LosesRace(p) \/ WriteManifest(p)

Fails(p) == LoadFails(p) \/ StageFails(p) \/ MoveFails(p) \/ ManifestFails(p) \/ Crash(p)

Next ==
  \/ \E x \in AllFiles : Edit(x)
  \/ \E p \in Procs :
       \/ \E c \in Chains, force \in BOOLEAN : Begin(p, c, force)
       \/ RunTool(p) \/ Bake(p) \/ Fails(p)

Spec     == Init /\ [][Next]_vars
\* The operating system runs every invocation; a poll ends with its timeout.
FairSpec == Spec /\ \A p \in Procs : WF_vars(Bake(p))

(***************************************************************************)
(* Properties.                                                             *)
(***************************************************************************)
Vectors(s) == [s -> Nat]
Phases     == {"idle", "check", "load", "lock", "poll", "block", "stage", "move", "manifest"}

\* Past the load a bake has read every file of its chain, and knows their versions.
Baked(j) ==
  /\ j.chain \in Chains
  /\ j.watch \in Vectors(Watched(j.chain)) /\ j.loaded \in Vectors(Watched(j.chain))

Loading(j) ==
  /\ j.chain \in Chains /\ j.prior \in Vectors(Known)
  /\ DOMAIN j.loaded \subseteq Watched(j.chain) /\ j.loaded \in Vectors(DOMAIN j.loaded)

IsFarm(f) == f.there \in BOOLEAN /\ (~f.there => f = NoFarm)

JobTyped(j) ==
  /\ DOMAIN j = DOMAIN NoJob /\ j.phase \in Phases /\ IsFarm(j.retired)
  /\ j.phase = "check" => j.chain \in Chains /\ j.loaded = Nothing
  /\ j.phase = "load" => Loading(j)
  /\ j.phase \in Phases \ {"idle", "check", "load"} => Baked(j)

\* The state has its type; a manifest, and a bake that may write one, watches every
\* file its chain was read from; and only a bake past the lock holds it.
TypeOK ==
  /\ tree \in Vectors(AllFiles)
  /\ IsFarm(farm)
  /\ manifest # NoManifest => Baked(manifest)
  /\ flock \in BOOLEAN
  /\ lock # None => lock \in Procs /\ job[lock].phase \in {"stage", "move", "manifest"}
  /\ DOMAIN job = Procs /\ \A p \in Procs : JobTyped(job[p])
  /\ spent \in [Counters -> Nat]

Swapping(p) == job[p].phase \in {"move", "manifest"}

\* What an invocation is served as fresh was baked from the files as they are now:
\* no edit during a load is ever taken as seen.  Files only the load reports are
\* excepted, as watchSetSince says.  And the farm in place, which is what the shell
\* then finds, is the one the manifest tells of, or that of the bake about to tell of
\* its own: never another chain's, nor an overtaken bake's.  Without a lock, or after
\* a swap was torn before its manifest, it may be (TornIsStale).
FreshIsCurrent ==
  \A c \in Chains : FreshFor(c) =>
    /\ \A x \in Known : manifest.loaded[x] = tree[x]
    /\ flock /\ spent["torn"] = 0 =>
         \/ farm = FarmOf(c, manifest.loaded)
         \/ \E p \in Procs : job[p].phase = "manifest" /\ farm = FarmOf(job[p].chain, job[p].loaded)

\* What swapIntoPlace says of its order: a new farm left under the previous manifest
\* is rebaked by the next invocation, because the files no longer match that manifest.
\* So nobody is served, as fresh, a farm that the manifest does not tell of.
TornIsStale ==
  \A c \in Chains : flock /\ FreshFor(c) /\ (\A p \in Procs : ~Swapping(p)) => farm = Described

\* With a lock and without a torn swap the farm holds exactly what the manifest
\* describes, except while one bake is between its renames; one that died there has
\* left none.
FarmDescribed ==
  (flock /\ spent["torn"] = 0 /\ \A p \in Procs : ~Swapping(p)) =>
    farm = Described \/ (spent["crashes"] # 0 /\ farm = NoFarm)

\* A bake that fails, or loses a race, keeps a farm in place of one it found, also
\* where there is no lock.
KeepsAFarm ==
  (manifest # NoManifest /\ ~farm.there /\ spent["crashes"] = 0) =>
    \E p \in Procs : job[p].phase = "move"

\* Every invocation ends, whoever holds or waits for the lock.
BakesEnd == \A p \in Procs : (job[p].phase # "idle") ~> (job[p].phase = "idle")

\* Once the files hold still, and tools keep being run, the manifest was baked from
\* the files as they are, and the farm is the one it tells of: a bake that was overtaken
\* by an edit, or that overwrote a newer one, is found out.  Without a lock, or after a
\* torn swap, only the first is so.
Converges ==
  WF_vars(\E p \in Procs : RunTool(p)) =>
    <>[](farm.there /\ manifest # NoManifest =>
           /\ \A x \in Known : manifest.loaded[x] = tree[x]
           /\ flock /\ spent["torn"] = 0 => farm = Described)

\* As checked: there is a farm, and it is the one the manifest tells of.
FarmStands == TypeOK /\ FarmDescribed /\ KeepsAFarm

\* Every invocation ends, and the farm its bakes leave behind catches up with the files.
Settles == BakesEnd /\ Converges
=============================================================================
