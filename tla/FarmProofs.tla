----------------------------- MODULE FarmProofs -----------------------------
(***************************************************************************)
(* Theorems about FarmBake, for every number of invocations, chains and    *)
(* watched files: what is served as fresh is current, and the farm in      *)
(* place is the one the manifest tells of.                                 *)
(***************************************************************************)
EXTENDS FarmBake, TLAPS

(***************************************************************************)
(* The inductive invariant.                                                *)
(***************************************************************************)

\* What a bake, or the manifest it wrote, recorded of a file is not younger than
\* what it read, and that not younger than the file.
Ordered(j) == \A x \in Known : j.watch[x] <= j.loaded[x] /\ j.loaded[x] <= tree[x]

Since(j) ==
  /\ j.phase = "load" =>
       \A x \in Known : /\ j.prior[x] <= tree[x]
                        /\ x \in DOMAIN j.loaded => j.prior[x] <= j.loaded[x] /\ j.loaded[x] <= tree[x]
  /\ j.phase \in Phases \ {"idle", "check", "load"} => Ordered(j)

Recorded == (manifest # NoManifest => Ordered(manifest)) /\ \A p \in Procs : Since(job[p])

\* Where there is a lock, it is held from the staging to the last rename.
Locked == {"stage", "move", "manifest"}
Holds  == flock => \A p \in Procs : job[p].phase \in Locked => lock = p

\* Where there is a lock, and until a swap is torn before its manifest, the farm the
\* manifest tells of is in place, or set aside, or about to be told of; or there is
\* none, because a bake died with it in its hands.
Sound == flock /\ spent["torn"] = 0

Kin(f) == f = Described \/ (spent["crashes"] # 0 /\ f = NoFarm)

Placed ==
  Sound =>
    /\ (\A p \in Procs : ~Swapping(p)) => Kin(farm)
    /\ \A p \in Procs :
         /\ job[p].phase = "move" => farm = NoFarm /\ Kin(job[p].retired)
         /\ job[p].phase = "manifest" => farm = FarmOf(job[p].chain, job[p].loaded)

\* Unless a process died, a farm once there is there still, or in the hands of the
\* bake that will bring it back; with or without a lock.
Kept ==
  /\ spent["crashes"] = 0 /\ ~farm.there
  /\ manifest # NoManifest \/ \E p \in Procs : job[p].phase = "manifest"
  => \E p \in Procs : job[p].phase = "move" /\ job[p].retired.there

IInv == TypeOK /\ Recorded /\ Holds /\ Placed /\ Kept

(***************************************************************************)
(* Versions.                                                               *)
(***************************************************************************)

LEMMA KnownFiles ==
  /\ Known \subseteq AllFiles
  /\ \A c \in Chains : Known \subseteq Watched(c) /\ Watched(c) \subseteq AllFiles
<1>. QED BY FarmAssumption DEF AllFiles, Watched

LEMMA Taken ==
  ASSUME TypeOK, NEW s \in SUBSET AllFiles
  PROVE  Restrict(tree, s) \in Vectors(s) /\ \A x \in s : Restrict(tree, s)[x] = tree[x]
<1>. QED BY DEF TypeOK, Vectors, Restrict

LEMMA Spent ==
  ASSUME TypeOK, NEW c \in Counters, Spend(c)
  PROVE  /\ spent' \in [Counters -> Nat]
         /\ \A x \in Counters : spent'[x] = 0 => spent[x] = 0
         /\ spent'[c] > 0
<1>. QED BY DEF Spend, TypeOK

(***************************************************************************)
(* Steps of one invocation.                                                *)
(***************************************************************************)

\* How a step may count what is bounded.
Counted == spent' \in [Counters -> Nat] /\ \A x \in Counters : spent'[x] = 0 => spent[x] = 0

\* Before the swap, and when it ends without one, a step touches only the
\* invocation's own record and the lock.
LEMMA Quiet ==
  ASSUME IInv, NEW p \in Procs, NEW j, job' = [job EXCEPT ![p] = j], JobTyped(j), Since(j),
         ~Swapping(p), j.phase \notin {"move", "manifest"}, Counted,
         UNCHANGED <<tree, farm, manifest, flock>>,
         \/ lock' = Unlocked(p) /\ j.phase # "stage"
         \/ lock' = lock /\ job[p].phase # "stage" /\ j.phase # "stage"
         \/ j.phase = "stage" /\ (flock => lock = None) /\ lock' = IF flock THEN p ELSE None
  PROVE  IInv'
<1>. USE DEF IInv
<1>1. /\ DOMAIN job = Procs /\ DOMAIN job' = Procs /\ job'[p] = j
      /\ \A q \in Procs : q # p => job'[q] = job[q]
  BY DEF TypeOK
<1>2. /\ lock' # None => lock' \in Procs /\ job'[lock'].phase \in {"stage", "move", "manifest"}
      /\ Holds'
  BY <1>1, FarmAssumption DEF TypeOK, Holds, Unlocked, Locked, Swapping
<1>3. TypeOK'
  BY <1>1, <1>2 DEF TypeOK, Counted
<1>4. Recorded'
  BY <1>1 DEF Recorded, Since, Ordered
<1>5. Placed'
  <2>1. \A q \in Procs : job'[q].phase = "move" \/ job'[q].phase = "manifest" => q # p /\ job'[q] = job[q]
    BY <1>1
  <2>2. \A q \in Procs : Swapping(q)' <=> Swapping(q)
    BY <1>1 DEF Swapping
  <2>3. Sound' => Sound
    BY DEF Sound, Counted, Counters
  <2>. QED BY <2>1, <2>2, <2>3 DEF Placed, Described, Kin, Counted, Counters
<1>6. Kept'
  <2>1. \A q \in Procs : job[q].phase = "move" => q # p /\ job'[q] = job[q]
    BY <1>1 DEF Swapping
  <2>2. \A q \in Procs : job'[q].phase = "manifest" => job[q].phase = "manifest"
    BY <1>1
  <2>3. spent'["crashes"] = 0 => spent["crashes"] = 0
    BY DEF Counted, Counters
  <2>. QED BY <2>1, <2>2, <2>3 DEF Kept
<1>. QED BY <1>2, <1>3, <1>4, <1>5, <1>6

\* A record with nothing in it.
LEMMA NoJobFits == JobTyped(NoJob) /\ Since(NoJob) /\ NoJob.phase = "idle"
<1>. QED BY DEF JobTyped, Since, NoJob, IsFarm, NoFarm, Phases

LEMMA StillCounted ==
  ASSUME TypeOK, spent' = spent \/ \E c \in Counters : Spend(c)
  PROVE  Counted
<1>1. CASE spent' = spent
  BY <1>1 DEF Counted, TypeOK
<1>2. CASE \E c \in Counters : Spend(c)
  BY <1>2, Spent DEF Counted
<1>. QED BY <1>1, <1>2

\* An edit makes a file younger, and no record of it.
LEMMA EditKeeps ==
  ASSUME IInv, NEW x \in AllFiles, Edit(x)
  PROVE  IInv'
<1>. USE DEF IInv
<1>1. /\ tree' = [tree EXCEPT ![x] = @ + 1] /\ Counted
      /\ UNCHANGED <<farm, manifest, flock, lock, job>>
  BY StillCounted DEF Edit, Counters
<1>2. /\ tree' \in Vectors(AllFiles)
      /\ \A y \in AllFiles : tree[y] \in Nat /\ tree'[y] \in Nat /\ tree[y] <= tree'[y]
  BY <1>1 DEF TypeOK, Vectors
<1>3. TypeOK'
  BY <1>1, <1>2 DEF TypeOK, Counted
<1>4. \A y \in Known : tree[y] \in Nat /\ tree'[y] \in Nat /\ tree[y] <= tree'[y]
  BY <1>2, KnownFiles
<1>5. manifest # NoManifest => Ordered(manifest)'
  <2>1. manifest # NoManifest => \A y \in Known : manifest.loaded[y] \in Nat
    BY KnownFiles DEF TypeOK, Baked, Vectors
  <2>. QED BY <1>1, <1>4, <2>1 DEF Recorded, Ordered
<1>6. ASSUME NEW p \in Procs
      PROVE  Since(job[p])'
  <2>1. CASE job[p].phase = "load"
    <3>1. \A y \in Known : /\ job[p].prior[y] \in Nat
                           /\ y \in DOMAIN job[p].loaded => job[p].loaded[y] \in Nat
      BY <2>1 DEF TypeOK, JobTyped, Loading, Vectors
    <3>. QED BY <1>1, <1>4, <2>1, <3>1 DEF Recorded, Since
  <2>2. CASE job[p].phase \in Phases \ {"idle", "check", "load"}
    <3>1. \A y \in Known : job[p].loaded[y] \in Nat
      BY <2>2, KnownFiles DEF TypeOK, JobTyped, Baked, Vectors
    <3>. QED BY <1>1, <1>4, <2>2, <3>1 DEF Recorded, Since, Ordered
  <2>3. CASE job[p].phase \in {"idle", "check"}
    BY <1>1, <2>3 DEF Since
  <2>. QED BY <2>1, <2>2, <2>3 DEF TypeOK, JobTyped
<1>7. Holds' /\ Placed' /\ Kept'
  BY <1>1 DEF Holds, Placed, Kin, Kept, Described, Sound, Swapping, Counted, Counters
<1>. QED BY <1>1, <1>3, <1>5, <1>6, <1>7 DEF Recorded

(***************************************************************************)
(* Up to the staging.                                                      *)
(***************************************************************************)

\* A record that only moves to another phase.
LEMMA PhaseChanges ==
  ASSUME TypeOK, NEW p \in Procs, NEW phase
  PROVE  /\ DOMAIN Phase(p, phase) = DOMAIN NoJob
         /\ Phase(p, phase).phase = phase
         /\ Phase(p, phase).chain = job[p].chain /\ Phase(p, phase).watch = job[p].watch
         /\ Phase(p, phase).loaded = job[p].loaded /\ Phase(p, phase).prior = job[p].prior
         /\ Phase(p, phase).retired = job[p].retired
<1>1. DOMAIN job[p] = DOMAIN NoJob
  BY DEF TypeOK, JobTyped
<1>. QED BY <1>1 DEF Phase, NoJob

\* An invocation begins.
LEMMA BeginKeeps ==
  ASSUME IInv, NEW p \in Procs,
         \/ RunTool(p)
         \/ \E c \in Chains, force \in BOOLEAN : Begin(p, c, force)
  PROVE  IInv'
<1>. USE DEF IInv
<1>1. PICK j : job' = [job EXCEPT ![p] = j] /\ JobTyped(j) /\ Since(j) /\ j.phase = "check"
  <2>1. CASE RunTool(p)
    <3>. DEFINE j == [NoJob EXCEPT !.phase = "check", !.chain = manifest.chain]
    <3>1. manifest.chain \in Chains
      BY <2>1 DEF RunTool, TypeOK, Baked
    <3>2. JobTyped(j) /\ Since(j) /\ j.phase = "check"
      BY <3>1 DEF JobTyped, Since, NoJob, Phases, IsFarm, NoFarm
    <3>. QED BY <2>1, <3>2 DEF RunTool
  <2>2. ASSUME NEW c \in Chains, NEW force \in BOOLEAN, Begin(p, c, force)
        PROVE  \E j : job' = [job EXCEPT ![p] = j] /\ JobTyped(j) /\ Since(j) /\ j.phase = "check"
    <3>. DEFINE j == [NoJob EXCEPT !.phase = "check", !.chain = c, !.force = force]
    <3>1. JobTyped(j) /\ Since(j) /\ j.phase = "check"
      BY DEF JobTyped, Since, NoJob, Phases, IsFarm, NoFarm
    <3>. QED BY <2>2, <3>1 DEF Begin
  <2>. QED BY <2>1, <2>2
<1>2. /\ job[p].phase = "idle" /\ Counted /\ UNCHANGED <<tree, farm, manifest, flock, lock>>
  BY StillCounted DEF RunTool, Begin, Counters
<1>. QED BY <1>1, <1>2, Quiet DEF Swapping

\* An invocation ends without having touched the farm.
LEMMA EndsQuietly ==
  ASSUME IInv, NEW p \in Procs, ~Swapping(p), Counted, UNCHANGED <<tree, farm, manifest, flock>>,
         job' = [job EXCEPT ![p] = NoJob],
         lock' = Unlocked(p) \/ (lock' = lock /\ job[p].phase # "stage")
  PROVE  IInv'
<1>. QED BY NoJobFits, Quiet DEF NoJob

LEMMA QuietEndsKeep ==
  ASSUME IInv, NEW p \in Procs, CheckFresh(p) \/ PeerWins(p) \/ LoadFails(p) \/ StageFails(p)
  PROVE  IInv'
<1>. USE DEF IInv
<1>1. Counted
  BY StillCounted DEF CheckFresh, PeerWins, LoadFails, StageFails, OnlyJob, Counters
<1>. QED BY <1>1, EndsQuietly DEF CheckFresh, PeerWins, LoadFails, StageFails, OnlyJob, Ends, Swapping

\* The watch set is taken before the config is loaded.
LEMMA SnapshotKeeps ==
  ASSUME IInv, NEW p \in Procs, Snapshot(p)
  PROVE  IInv'
<1>. USE DEF IInv
<1>. DEFINE prior == Restrict(tree, Known)
            j     == [Phase(p, "load") EXCEPT !.prior = prior]
<1>1. /\ job[p].phase = "check" /\ job' = [job EXCEPT ![p] = j]
      /\ UNCHANGED <<tree, farm, manifest, flock, lock, spent>>
  BY DEF Snapshot, OnlyJob
<1>2. prior \in Vectors(Known) /\ \A x \in Known : prior[x] = tree[x] /\ tree[x] \in Nat
  BY KnownFiles, Taken DEF TypeOK, Vectors
<1>. HIDE DEF prior
<1>3. JobTyped(job[p]) /\ job[p].chain \in Chains /\ job[p].loaded = Nothing
  BY <1>1 DEF TypeOK, JobTyped
<1>4. /\ DOMAIN j = DOMAIN NoJob /\ j.phase = "load" /\ j.chain = job[p].chain /\ j.prior = prior
      /\ j.loaded = Nothing /\ j.retired = job[p].retired
  BY <1>3, PhaseChanges DEF NoJob
<1>. HIDE DEF j
<1>5. JobTyped(j) /\ Since(j)
  BY <1>2, <1>3, <1>4 DEF JobTyped, Since, Loading, Nothing, Vectors, Phases
<1>6. Counted
  BY <1>1, StillCounted
<1>. QED BY <1>1, <1>4, <1>5, <1>6, Quiet DEF Swapping

\* A file is read not before the snapshot was taken, and not later than it is now.
LEMMA ReadKeeps ==
  ASSUME IInv, NEW p \in Procs, NEW x \in AllFiles, Read(p, x)
  PROVE  IInv'
<1>. USE DEF IInv
<1>. DEFINE old  == job[p].loaded
            read == [y \in DOMAIN old \cup {x} |-> IF y = x THEN tree[x] ELSE old[y]]
            j    == [job[p] EXCEPT !.loaded = read]
<1>1. /\ job[p].phase = "load" /\ x \in Watched(job[p].chain) \ DOMAIN old
      /\ job' = [job EXCEPT ![p] = j]
      /\ UNCHANGED <<tree, farm, manifest, flock, lock, spent>>
  BY DEF Read, OnlyJob
<1>2. JobTyped(job[p]) /\ Loading(job[p]) /\ Since(job[p])
  BY <1>1 DEF TypeOK, JobTyped, Recorded
<1>3. tree[x] \in Nat
  BY DEF TypeOK, Vectors
<1>4. DOMAIN read = DOMAIN old \cup {x} /\ read \in Vectors(DOMAIN read) /\ DOMAIN read \subseteq Watched(job[p].chain)
  BY <1>1, <1>2, <1>3 DEF Loading, Vectors
<1>5. \A y \in Known \cap DOMAIN read : job[p].prior[y] <= read[y] /\ read[y] <= tree[y]
  <2>1. \A y \in Known : job[p].prior[y] <= tree[y]
    BY <1>1, <1>2 DEF Since
  <2>2. \A y \in Known \cap DOMAIN old : job[p].prior[y] <= old[y] /\ old[y] <= tree[y]
    BY <1>1, <1>2 DEF Since
  <2>. QED BY <1>3, <2>1, <2>2
<1>. HIDE DEF read
<1>6. /\ DOMAIN j = DOMAIN NoJob /\ j.phase = "load" /\ j.chain = job[p].chain /\ j.prior = job[p].prior
      /\ j.loaded = read /\ j.retired = job[p].retired
  BY <1>1, <1>2 DEF NoJob, JobTyped
<1>. HIDE DEF j
<1>7. JobTyped(j) /\ Since(j)
  BY <1>1, <1>2, <1>4, <1>5, <1>6 DEF JobTyped, Since, Loading, Phases
<1>8. Counted
  BY <1>1, StillCounted
<1>. QED BY <1>1, <1>6, <1>7, <1>8, Quiet DEF Swapping

\* What is recorded of a file known before is its version at the snapshot.
LEMMA LoadedKeeps ==
  ASSUME IInv, NEW p \in Procs, Loaded(p)
  PROVE  IInv'
<1>. USE DEF IInv
<1>. DEFINE files   == Watched(job[p].chain)
            current == Restrict(tree, files)
            watch   == WatchSetSince(job[p].prior, current)
            j       == [Phase(p, "lock") EXCEPT !.watch = watch]
<1>1. /\ job[p].phase = "load" /\ DOMAIN job[p].loaded = files /\ job' = [job EXCEPT ![p] = j]
      /\ UNCHANGED <<tree, farm, manifest, flock, lock, spent>>
  BY DEF Loaded, OnlyJob
<1>2. JobTyped(job[p]) /\ Loading(job[p]) /\ Since(job[p])
  BY <1>1 DEF TypeOK, JobTyped, Recorded
<1>3. Known \subseteq files /\ files \subseteq AllFiles
  BY <1>2, KnownFiles DEF Loading
<1>4. current \in Vectors(files)
  BY <1>3, Taken
<1>. HIDE DEF current
<1>5. watch \in Vectors(files) /\ \A x \in Known : watch[x] = job[p].prior[x]
  BY <1>2, <1>3, <1>4 DEF WatchSetSince, Vectors, Loading
<1>. HIDE DEF watch
<1>6. /\ DOMAIN j = DOMAIN NoJob /\ j.phase = "lock" /\ j.chain = job[p].chain /\ j.watch = watch
      /\ j.loaded = job[p].loaded /\ j.retired = job[p].retired
  BY <1>2, PhaseChanges DEF NoJob
<1>7. Ordered(j)
  BY <1>1, <1>2, <1>3, <1>5, <1>6 DEF Ordered, Since
<1>. HIDE DEF j
<1>8. JobTyped(j) /\ Since(j)
  BY <1>1, <1>2, <1>5, <1>6, <1>7 DEF JobTyped, Since, Loading, Baked, Phases
<1>9. Counted
  BY <1>1, StillCounted
<1>. QED BY <1>1, <1>6, <1>8, <1>9, Quiet DEF Swapping

\* A bake past its load waits for the lock, or takes it.
LEMMA LockKeeps ==
  ASSUME IInv, NEW p \in Procs, Wait(p) \/ Acquire(p)
  PROVE  IInv'
<1>. USE DEF IInv
<1>1. PICK phase \in {"poll", "block", "stage"} :
        /\ job[p].phase \in {"lock", "poll", "block"} /\ job' = [job EXCEPT ![p] = Phase(p, phase)]
        /\ UNCHANGED <<tree, farm, manifest, flock, spent>>
        /\ \/ phase # "stage" /\ lock' = lock
           \/ phase = "stage" /\ (flock => lock = None) /\ lock' = IF flock THEN p ELSE None
  BY DEF Wait, Acquire, OnlyJob, LockFree
<1>2. JobTyped(job[p]) /\ Since(job[p])
  BY DEF TypeOK, Recorded
<1>. DEFINE j == Phase(p, phase)
<1>3. /\ DOMAIN j = DOMAIN NoJob /\ j.phase = phase /\ j.chain = job[p].chain /\ j.watch = job[p].watch
      /\ j.loaded = job[p].loaded /\ j.retired = job[p].retired
  BY PhaseChanges
<1>. HIDE DEF j
<1>4. JobTyped(j) /\ Since(j)
  BY <1>1, <1>2, <1>3 DEF JobTyped, Since, Ordered, Baked, Phases
<1>5. Counted
  BY <1>1, StillCounted
<1>. QED BY <1>1, <1>3, <1>4, <1>5, Quiet DEF Swapping, j

(***************************************************************************)
(* The swap.                                                               *)
(***************************************************************************)

\* What does not depend on what the step does to the farm.  Where there is a lock,
\* nobody else is past it.
LEMMA Swap ==
  ASSUME IInv, NEW p \in Procs, NEW j, job' = [job EXCEPT ![p] = j], JobTyped(j), Since(j),
         job[p].phase \in Locked, Counted, UNCHANGED <<tree, flock>>, IsFarm(farm'),
         manifest' = manifest \/ (Baked(manifest') /\ Ordered(manifest')),
         \/ j.phase \in Locked /\ lock' = lock
         \/ j.phase = "idle" /\ lock' = Unlocked(p)
  PROVE  /\ TypeOK' /\ Recorded' /\ Holds' /\ (Sound' => Sound)
         /\ job'[p] = j /\ \A q \in Procs : q # p => job'[q] = job[q]
         /\ flock => \A q \in Procs : q # p => job[q].phase \notin Locked
<1>. USE DEF IInv
<1>1. /\ DOMAIN job = Procs /\ DOMAIN job' = Procs /\ job'[p] = j
      /\ \A q \in Procs : q # p => job'[q] = job[q]
  BY DEF TypeOK
<1>2. flock => lock = p /\ \A q \in Procs : q # p => job[q].phase \notin Locked
  BY DEF Holds
<1>3. /\ lock' # None => lock' \in Procs /\ job'[lock'].phase \in {"stage", "move", "manifest"}
      /\ Holds'
  BY <1>1, <1>2, FarmAssumption DEF TypeOK, Holds, Unlocked, Locked
<1>4. TypeOK'
  BY <1>1, <1>3 DEF TypeOK, Counted
<1>5. Recorded'
  BY <1>1 DEF Recorded, Since, Ordered
<1>6. Sound' => Sound
  BY DEF Sound, Counted, Counters
<1>. QED BY <1>1, <1>2, <1>3, <1>4, <1>5, <1>6

LEMMA RetireKeeps ==
  ASSUME IInv, NEW p \in Procs, Retire(p)
  PROVE  IInv'
<1>. USE DEF IInv
<1>. DEFINE j == [Phase(p, "move") EXCEPT !.retired = farm]
<1>1. /\ job[p].phase = "stage" /\ job' = [job EXCEPT ![p] = j] /\ farm' = NoFarm
      /\ UNCHANGED <<tree, manifest, flock, lock, spent>>
  BY DEF Retire
<1>2. JobTyped(job[p]) /\ Since(job[p])
  BY DEF TypeOK, Recorded
<1>3. /\ DOMAIN j = DOMAIN NoJob /\ j.phase = "move" /\ j.chain = job[p].chain /\ j.watch = job[p].watch
      /\ j.loaded = job[p].loaded /\ j.retired = farm
  BY PhaseChanges DEF NoJob
<1>. HIDE DEF j
<1>4. JobTyped(j) /\ Since(j)
  BY <1>1, <1>2, <1>3 DEF JobTyped, Since, Ordered, Baked, Phases, TypeOK
<1>5. Counted /\ IsFarm(farm') /\ j.phase \in Locked /\ job[p].phase \in Locked
  BY <1>1, <1>3, StillCounted DEF IsFarm, NoFarm, Locked
<1>6. /\ TypeOK' /\ Recorded' /\ Holds' /\ (Sound' => Sound)
      /\ job'[p] = j /\ \A q \in Procs : q # p => job'[q] = job[q]
      /\ flock => \A q \in Procs : q # p => job[q].phase \notin Locked
  BY <1>1, <1>4, <1>5, Swap
<1>7. Placed'
  <2>1. SUFFICES ASSUME Sound'
                 PROVE  /\ \E q \in Procs : Swapping(q)'
                        /\ \A q \in Procs : job'[q].phase \in {"move", "manifest"} => q = p
                        /\ job'[p].phase = "move" /\ farm' = NoFarm /\ Kin(job[p].retired)'
    BY DEF Placed
  <2>2. \A q \in Procs : q # p => job[q].phase \notin Locked
    BY <1>6, <2>1 DEF Sound
  <2>3. Kin(farm)
    BY <1>1, <1>6, <2>1, <2>2 DEF Placed, Swapping, Locked
  <2>. QED BY <1>1, <1>3, <1>6, <2>2, <2>3 DEF Swapping, Locked, Described, Kin
<1>8. Kept'
  BY <1>1, <1>3, <1>6 DEF Kept
<1>. QED BY <1>6, <1>7, <1>8

LEMMA MoveKeeps ==
  ASSUME IInv, NEW p \in Procs, Move(p)
  PROVE  IInv'
<1>. USE DEF IInv
<1>. DEFINE j == Phase(p, "manifest")
<1>1. /\ job[p].phase = "move" /\ job' = [job EXCEPT ![p] = j]
      /\ farm' = FarmOf(job[p].chain, job[p].loaded)
      /\ UNCHANGED <<tree, manifest, flock, lock, spent>>
  BY DEF Move
<1>2. JobTyped(job[p]) /\ Since(job[p])
  BY DEF TypeOK, Recorded
<1>3. /\ DOMAIN j = DOMAIN NoJob /\ j.phase = "manifest" /\ j.chain = job[p].chain
      /\ j.watch = job[p].watch /\ j.loaded = job[p].loaded /\ j.retired = job[p].retired
  BY PhaseChanges
<1>. HIDE DEF j
<1>4. JobTyped(j) /\ Since(j)
  BY <1>1, <1>2, <1>3 DEF JobTyped, Since, Ordered, Baked, Phases
<1>5. Counted /\ IsFarm(farm') /\ farm'.there /\ j.phase \in Locked /\ job[p].phase \in Locked
  BY <1>1, <1>3, StillCounted DEF IsFarm, FarmOf, Locked
<1>6. /\ TypeOK' /\ Recorded' /\ Holds' /\ (Sound' => Sound)
      /\ job'[p] = j /\ \A q \in Procs : q # p => job'[q] = job[q]
      /\ flock => \A q \in Procs : q # p => job[q].phase \notin Locked
  BY <1>1, <1>4, <1>5, Swap
<1>7. Placed'
  <2>1. Sound' => \A q \in Procs : q # p => job'[q].phase \notin Locked
    BY <1>6 DEF Sound
  <2>. QED BY <1>1, <1>3, <1>6, <2>1 DEF Placed, Swapping, Locked
<1>8. Kept'
  BY <1>5 DEF Kept
<1>. QED BY <1>6, <1>7, <1>8

\* The invocation ends in the swap.
LEMMA EndsSwapping ==
  ASSUME IInv, NEW p \in Procs, Ends(p) \/ (job' = [job EXCEPT ![p] = NoJob] /\ lock' = Unlocked(p)),
         job[p].phase \in Locked, Counted, UNCHANGED <<tree, flock>>, IsFarm(farm'),
         manifest' = manifest \/ (Baked(manifest') /\ Ordered(manifest'))
  PROVE  /\ TypeOK' /\ Recorded' /\ Holds' /\ (Sound' => Sound)
         /\ job'[p].phase = "idle" /\ \A q \in Procs : q # p => job'[q] = job[q]
         /\ flock => \A q \in Procs : q # p => job[q].phase \notin Locked
<1>. QED BY NoJobFits, Swap DEF Ends

\* A peer's farm is there already; only where there is no lock.
LEMMA LosesRaceKeeps ==
  ASSUME IInv, NEW p \in Procs, LosesRace(p)
  PROVE  IInv'
<1>. USE DEF IInv
<1>1. /\ job[p].phase = "move" /\ farm.there /\ Ends(p)
      /\ UNCHANGED <<tree, farm, manifest, flock, spent>>
  BY DEF LosesRace
<1>2. /\ TypeOK' /\ Recorded' /\ Holds' /\ (Sound' => Sound)
      /\ job'[p].phase = "idle" /\ \A q \in Procs : q # p => job'[q] = job[q]
  <2>1. Counted /\ IsFarm(farm') /\ job[p].phase \in Locked
    BY <1>1, StillCounted DEF Locked, TypeOK
  <2>. QED BY <1>1, <2>1, EndsSwapping
<1>3. ~Sound
  BY <1>1 DEF Placed, NoFarm
<1>. QED BY <1>1, <1>2, <1>3 DEF Placed, Kept

\* The move fails, and the farm set aside is put back.
LEMMA MoveFailsKeeps ==
  ASSUME IInv, NEW p \in Procs, MoveFails(p)
  PROVE  IInv'
<1>. USE DEF IInv
<1>1. /\ job[p].phase = "move" /\ ~farm.there /\ farm' = job[p].retired /\ Ends(p)
      /\ UNCHANGED <<tree, manifest, flock>>
  BY DEF MoveFails, Restored
<1>2. Counted /\ IsFarm(farm') /\ job[p].phase \in Locked
  BY <1>1, StillCounted DEF MoveFails, Locked, TypeOK, JobTyped, Counters
<1>3. /\ TypeOK' /\ Recorded' /\ Holds' /\ (Sound' => Sound)
      /\ job'[p].phase = "idle" /\ \A q \in Procs : q # p => job'[q] = job[q]
      /\ flock => \A q \in Procs : q # p => job[q].phase \notin Locked
  BY <1>1, <1>2, EndsSwapping
<1>4. Placed'
  <2>1. SUFFICES ASSUME Sound'
                 PROVE  /\ \A q \in Procs : job'[q].phase \notin {"move", "manifest"}
                        /\ Kin(farm)'
    BY DEF Placed
  <2>2. \A q \in Procs : q # p => job[q].phase \notin Locked
    BY <1>3, <2>1 DEF Sound
  <2>3. spent["crashes"] # 0 => spent'["crashes"] # 0
    BY <1>2 DEF Counted, Counters
  <2>. QED BY <1>1, <1>3, <2>1, <2>2, <2>3 DEF Placed, Locked, Described, Kin
<1>5. Kept'
  <2>1. spent'["crashes"] = 0 => spent["crashes"] = 0
    BY <1>2 DEF Counted, Counters
  <2>2. SUFFICES ASSUME spent["crashes"] = 0, ~farm'.there,
                        manifest # NoManifest \/ \E q \in Procs : job[q].phase = "manifest"
                 PROVE  \E q \in Procs : job'[q].phase = "move" /\ job'[q].retired.there
    BY <1>1, <1>3, <2>1 DEF Kept
  <2>3. PICK q \in Procs : job[q].phase = "move" /\ job[q].retired.there
    BY <1>1, <2>2 DEF Kept
  <2>4. q # p
    BY <1>1, <2>2, <2>3
  <2>. QED BY <1>3, <2>3, <2>4
<1>. QED BY <1>3, <1>4, <1>5

\* The manifest is written, or cannot be.
LEMMA ManifestKeeps ==
  ASSUME IInv, NEW p \in Procs, WriteManifest(p) \/ ManifestFails(p)
  PROVE  IInv'
<1>. USE DEF IInv
<1>. DEFINE m == [chain |-> job[p].chain, watch |-> job[p].watch, loaded |-> job[p].loaded]
<1>1. /\ job[p].phase = "manifest" /\ Ends(p) /\ UNCHANGED <<tree, farm, flock>>
      /\ \/ manifest' = m /\ spent' = spent
         \/ manifest' = manifest /\ Spend("torn")
  BY DEF WriteManifest, ManifestFails
<1>2. JobTyped(job[p]) /\ Since(job[p])
  BY DEF TypeOK, Recorded
<1>3. Baked(m) /\ Ordered(m) /\ m # NoManifest
  <2>1. Baked(job[p]) /\ Ordered(job[p])
    BY <1>1, <1>2 DEF JobTyped, Since, Phases
  <2>. QED BY <2>1, FarmAssumption DEF Baked, Ordered, NoManifest
<1>4. Counted /\ IsFarm(farm') /\ job[p].phase \in Locked
  BY <1>1, StillCounted DEF Locked, TypeOK, Counters
<1>. HIDE DEF m
<1>5. /\ TypeOK' /\ Recorded' /\ Holds' /\ (Sound' => Sound)
      /\ job'[p].phase = "idle" /\ \A q \in Procs : q # p => job'[q] = job[q]
      /\ flock => \A q \in Procs : q # p => job[q].phase \notin Locked
  BY <1>1, <1>3, <1>4, EndsSwapping
<1>6. Placed'
  <2>1. SUFFICES ASSUME Sound'
                 PROVE  /\ \A q \in Procs : job'[q].phase \notin {"move", "manifest"}
                        /\ Kin(farm)'
    BY DEF Placed
  <2>2. \A q \in Procs : q # p => job[q].phase \notin Locked
    BY <1>5, <2>1 DEF Sound
  <2>3. manifest' = m
    BY <1>1, <2>1, Spent DEF Sound, Counters
  <2>4. farm' = FarmOf(job[p].chain, job[p].loaded)
    BY <1>1, <1>5, <2>1 DEF Placed
  <2>. QED BY <1>3, <1>5, <2>2, <2>3, <2>4 DEF Locked, Described, Kin, m
<1>7. Kept'
  <2>1. spent'["crashes"] = 0 => spent["crashes"] = 0
    BY <1>4 DEF Counted, Counters
  <2>. QED BY <1>1, <1>5, <2>1 DEF Kept
<1>. QED BY <1>5, <1>6, <1>7

\* A process dies: what it had in hand is lost, and the lock released.
LEMMA CrashKeeps ==
  ASSUME IInv, NEW p \in Procs, Crash(p)
  PROVE  IInv'
<1>. USE DEF IInv
<1>1. /\ job' = [job EXCEPT ![p] = NoJob] /\ lock' = Unlocked(p)
      /\ Spend(IF job[p].phase = "manifest" THEN "torn" ELSE "crashes")
      /\ UNCHANGED <<tree, farm, manifest, flock>>
  BY DEF Crash, Unlocked
<1>2. Counted
  BY <1>1, StillCounted DEF Counters
<1>3. CASE ~Swapping(p)
  BY <1>1, <1>2, <1>3, EndsQuietly
<1>4. CASE Swapping(p)
  <2>1. job[p].phase \in Locked /\ IsFarm(farm')
    BY <1>1, <1>4 DEF Swapping, Locked, TypeOK
  <2>2. /\ TypeOK' /\ Recorded' /\ Holds' /\ (Sound' => Sound)
        /\ job'[p].phase = "idle" /\ \A q \in Procs : q # p => job'[q] = job[q]
        /\ flock => \A q \in Procs : q # p => job[q].phase \notin Locked
    BY <1>1, <1>2, <2>1, EndsSwapping
  <2>3. CASE job[p].phase = "manifest"
    <3>1. spent'["torn"] # 0 /\ (spent'["crashes"] = 0 => spent["crashes"] = 0)
      BY <1>1, <1>2, <2>3, Spent DEF Counters, Counted
    <3>2. Placed'
      BY <3>1 DEF Placed, Sound
    <3>3. Kept'
      <4>1. SUFFICES ASSUME spent["crashes"] = 0, ~farm.there
                     PROVE  \E q \in Procs : job'[q].phase = "move" /\ job'[q].retired.there
        BY <1>1, <3>1 DEF Kept
      <4>2. PICK q \in Procs : job[q].phase = "move" /\ job[q].retired.there
        BY <2>3, <4>1 DEF Kept
      <4>. QED BY <2>2, <2>3, <4>2
    <3>. QED BY <2>2, <3>2, <3>3
  <2>4. CASE job[p].phase = "move"
    <3>1. spent'["crashes"] # 0
      BY <1>1, <2>4, Spent DEF Counters
    <3>2. Sound' => farm' = NoFarm /\ \A q \in Procs : job'[q].phase \notin {"move", "manifest"}
      BY <1>1, <2>2, <2>4 DEF Placed, Sound, Locked
    <3>. QED BY <2>2, <3>1, <3>2 DEF Placed, Kept, Kin
  <2>. QED BY <1>4, <2>3, <2>4 DEF Swapping
<1>. QED BY <1>3, <1>4

(***************************************************************************)
(* Every step, and the theorems.                                           *)
(***************************************************************************)

LEMMA InitHolds == Init => IInv
<1>. SUFFICES ASSUME Init PROVE IInv
  OBVIOUS
<1>1. tree \in Vectors(AllFiles) /\ \A x \in AllFiles : tree[x] = 0
  BY DEF Init, Vectors
<1>2. job = [p \in Procs |-> NoJob] /\ lock = None /\ flock \in BOOLEAN /\ spent = [c \in Counters |-> 0]
  BY DEF Init
<1>. DEFINE read == Restrict(tree, Watched(Plain))
            m    == [chain |-> Plain, watch |-> read, loaded |-> read]
<1>3. \/ farm = NoFarm /\ manifest = NoManifest
      \/ farm = FarmOf(m.chain, m.loaded) /\ manifest = m
  BY DEF Init
<1>4. read \in Vectors(Watched(Plain)) /\ \A x \in Watched(Plain) : read[x] = tree[x] /\ tree[x] = 0
  BY <1>1, KnownFiles, FarmAssumption DEF Vectors, Restrict
<1>. HIDE DEF read
<1>5. Baked(m) /\ Ordered(m) /\ m # NoManifest
  BY <1>1, <1>4, KnownFiles, FarmAssumption DEF Baked, Ordered, NoManifest
<1>. HIDE DEF m
<1>6. TypeOK
  <2>1. IsFarm(farm) /\ (manifest # NoManifest => Baked(manifest))
    <3>1. IsFarm(NoFarm) /\ IsFarm(FarmOf(m.chain, m.loaded))
      BY DEF IsFarm, NoFarm, FarmOf
    <3>. QED BY <1>3, <1>5, <3>1
  <2>2. DOMAIN job = Procs /\ \A p \in Procs : JobTyped(job[p])
    BY <1>2, NoJobFits
  <2>3. spent \in [Counters -> Nat]
    BY <1>2
  <2>. QED BY <1>1, <1>2, <2>1, <2>2, <2>3 DEF TypeOK
<1>7. Recorded
  BY <1>2, <1>3, <1>5, NoJobFits DEF Recorded
<1>8. \A p \in Procs : job[p].phase = "idle"
  BY <1>2, NoJobFits
<1>9. Holds /\ Placed /\ Kept
  BY <1>3, <1>5, <1>8 DEF Holds, Placed, Kin, Kept, Locked, Described, NoFarm, FarmOf
<1>. QED BY <1>6, <1>7, <1>9 DEF IInv

LEMMA StepKeeps == IInv /\ [Next]_vars => IInv'
<1>. SUFFICES ASSUME IInv, [Next]_vars PROVE IInv'
  OBVIOUS
<1>1. CASE UNCHANGED vars
  BY <1>1 DEF vars, IInv, TypeOK, Recorded, Since, Ordered, Holds, Placed, Kin, Kept, Described, Sound,
             Swapping
<1>2. ASSUME NEW p \in Procs, Bake(p) \/ Fails(p)
      PROVE  IInv'
  BY <1>2, QuietEndsKeep, SnapshotKeeps, ReadKeeps, LoadedKeeps, LockKeeps, RetireKeeps, MoveKeeps,
     LosesRaceKeeps, MoveFailsKeeps, ManifestKeeps, CrashKeeps DEF Bake, Fails
<1>. QED BY <1>1, <1>2, EditKeeps, BeginKeeps DEF Next

\* The invariant holds in every state that can be reached.
THEOREM Invariant == Spec => []IInv
<1>. QED BY InitHolds, StepKeeps, PTL DEF Spec

\* Whenever a farm would be served as fresh, its manifest was baked from the files
\* known beforehand as they are now: no edit is ever taken as seen, with and without a
\* lock, after any failure or crash.  And where there is a lock and no swap was torn
\* before its manifest, the farm served is the very one the manifest tells of, or whole
\* from the bake that is about to write its own; for any number of invocations, chains
\* and edits.
THEOREM FreshIsCurrentHolds == Spec => []FreshIsCurrent
<1>1. IInv => FreshIsCurrent
  <2>. SUFFICES ASSUME IInv, NEW c \in Chains, FreshFor(c)
                PROVE  /\ \A x \in Known : manifest.loaded[x] = tree[x]
                       /\ flock /\ spent["torn"] = 0 =>
                            \/ farm = FarmOf(c, manifest.loaded)
                            \/ \E p \in Procs : /\ job[p].phase = "manifest"
                                                /\ farm = FarmOf(job[p].chain, job[p].loaded)
    BY DEF FreshIsCurrent
  <2>1. manifest # NoManifest /\ manifest.chain = c /\ Valid /\ farm.there
    BY DEF FreshFor, ChainMatches, EntriesPresent
  <2>2. Baked(manifest) /\ Ordered(manifest)
    BY <2>1 DEF IInv, TypeOK, Recorded
  <2>3. ASSUME NEW x \in Known
        PROVE  manifest.loaded[x] = tree[x]
    <3>1. x \in Watched(manifest.chain) /\ x \in AllFiles
      BY <2>2, KnownFiles DEF Baked
    <3>2. manifest.watch[x] = tree[x]
      BY <2>1, <2>2, <3>1 DEF Valid, Baked, Vectors
    <3>3. manifest.loaded[x] \in Nat /\ tree[x] \in Nat
      BY <2>2, <3>1 DEF Baked, Vectors, IInv, TypeOK
    <3>. QED BY <2>2, <3>2, <3>3 DEF Ordered
  <2>4. ASSUME Sound
        PROVE  \/ farm = FarmOf(c, manifest.loaded)
               \/ \E p \in Procs : /\ job[p].phase = "manifest"
                                   /\ farm = FarmOf(job[p].chain, job[p].loaded)
    <3>1. farm # NoFarm
      BY <2>1 DEF NoFarm
    <3>2. CASE \A p \in Procs : ~Swapping(p)
      BY <2>1, <2>4, <3>1, <3>2 DEF IInv, Placed, Kin, Described
    <3>3. CASE \E p \in Procs : Swapping(p)
      BY <2>4, <3>1, <3>3 DEF IInv, Placed, Swapping
    <3>. QED BY <3>2, <3>3
  <2>. QED BY <2>3, <2>4 DEF Sound
<1>. QED BY <1>1, Invariant, PTL

\* There is a farm, and it is the one the manifest tells of: a bake that fails or
\* loses a race keeps the farm it found, and under a lock the farm in place holds
\* exactly what the manifest describes except between the renames, or until a bake has
\* died there.
THEOREM FarmStandsHolds == Spec => []FarmStands
<1>1. IInv => FarmDescribed
  BY DEF IInv, FarmDescribed, Placed, Kin, Sound
<1>2. IInv => KeepsAFarm
  BY DEF IInv, KeepsAFarm, Kept
<1>3. IInv => FarmStands
  BY <1>1, <1>2 DEF FarmStands, IInv
<1>. QED BY <1>3, Invariant, PTL
=============================================================================
