----------------------------- MODULE StoreReady -----------------------------
(***************************************************************************)
(* The shared store and who fills it: tools installed by download          *)
(* (internal/binmanager), prepared states made by an app's one-time step   *)
(* (internal/prepare), both seeded from a bundle (internal/ocibundle),     *)
(* under the subtree locks of internal/storelock.  Processes run at once,  *)
(* may die anywhere, and share nothing but the disk and the locks.         *)
(***************************************************************************)
EXTENDS Naturals, Sequences, FiniteSets, SequencesExt

CONSTANTS
  Procs,
  PidOf, NamespaceOf,   \* of a process; pids are probed within a namespace
  Bins,                 \* installed subtrees
  States,               \* prepared subtrees
  Order,                \* the closure of the tool asked for, dependencies first
  BinOf, StateOf,       \* of its members, NoState when it declares no step
  Deletable,            \* the states whose marker the user deletes
  Bundle,               \* the subtrees with a layer in the bundle
  Undeclared,           \* those that are parser modules the config does not declare
  Before,               \* what earlier commands may have left (Init)
  MaxCalls, MaxDeaths, MaxDeletions

Subtrees == Bins \cup States
NoState  == "no step"
Closure  == ToSet(Order)

\* Paths of the store: no two kinds share one, and a step belongs to one app.
ASSUME StoreAssumption ==
  /\ Bins \cap States = {} /\ NoState \notin Subtrees
  /\ Deletable \subseteq States /\ Bundle \subseteq Subtrees
  /\ Undeclared \subseteq Bins /\ Before \subseteq SUBSET (Deletable \cup Undeclared)
  /\ Order \in Seq(Closure)
  /\ \A a \in Closure : BinOf[a] \in Bins \ Undeclared /\ StateOf[a] \in States \cup {NoState}
  /\ PidOf \in [Procs -> Nat]
  /\ MaxCalls \in Nat /\ MaxDeaths \in Nat /\ MaxDeletions \in Nat

VARIABLES
  store,     \* what is at a subtree's path
  seeded,    \* whether the marker of a completed full pull is there
  lock,      \* who holds a subtree's lock file
  orphans,   \* goroutines still after a lock that their caller gave up on
  layout,    \* the staging directory of a process's step
  tmp,       \* what dead processes and replaced states left under {store}/tmp
  cmd, pc,   \* what a process is doing
  at,        \* how far it is with each subtree
  deleted,   \* states whose marker was deleted by hand, once
  calls, deaths, deletions

disk   == <<store, seeded, tmp>>
locks  == <<lock, orphans>>
bounds == <<deleted, calls, deaths, deletions>>
vars   == <<disk, locks, layout, cmd, pc, at, bounds>>

Absent   == [there |-> FALSE, content |-> "none", marked |-> FALSE]
Whole(s) == [there |-> TRUE, content |-> "whole", marked |-> s \in States]
Free     == <<"nobody", "free">>
NoLayout == [there |-> FALSE, published |-> FALSE, leased |-> FALSE, old |-> FALSE,
             content |-> "none", marked |-> FALSE]

There(s) == store[s].there
\* subtreeReady: a prepared state counts with its marker only.
Ready(s) == There(s) /\ (s \in States => store[s].marked)

Active == {"wait", "won", "stage", "publish", "step", "stepping", "validate", "place", "aside",
           "rename", "blob", "fetch", "move", "moving"}
\* Between taking the subtree's lock and giving it back.
Inside == Active \ {"wait", "fetch", "move", "moving"}
Set(p, s, status) == at' = [at EXCEPT ![p][s] = status]
Unlock(s) == lock' = [lock EXCEPT ![s] = Free]

\* A marker deleted before we begin.
Remnant == [there |-> TRUE, content |-> "whole", marked |-> FALSE]

\* What earlier commands left: states whose marker was then deleted, and modules
\* that their configs did declare.
Left(had) == [s \in Subtrees |-> IF s \notin had THEN Absent
                                 ELSE IF s \in Deletable THEN Remnant ELSE Whole(s)]

Init ==
  /\ \E had \in Before : deleted = had \cap Deletable /\ store = Left(had)
  /\ seeded = FALSE /\ tmp = {}
  /\ lock = [s \in Subtrees |-> Free] /\ orphans = {}
  /\ layout = [p \in Procs |-> NoLayout]
  /\ pc = [p \in Procs |-> "idle"] /\ cmd = [p \in Procs |-> "none"]
  /\ at = [p \in Procs |-> [s \in Subtrees |-> "none"]]
  /\ calls = 0 /\ deaths = 0 /\ deletions = 0

(***************************************************************************)
(* A command begins.  "tools" is EnsureTools: its workers install the      *)
(* closure at once.  "command" is GetCommandInfo: one member after another,*)
(* then the steps, then a sweep.  "seed" is a full pull of the bundle,     *)
(* whose layers are placed at once; that of a parser module which the      *)
(* config does not declare could not be verified, and is skipped as a      *)
(* success.                                                                *)
(***************************************************************************)

Begin(p, c) ==
  /\ pc[p] = "idle" /\ calls < MaxCalls /\ calls' = calls + 1
  /\ IF c = "seed"
     THEN IF seeded /\ \A s \in Bundle : Ready(s) THEN UNCHANGED <<cmd, pc, at>>
          ELSE /\ pc' = [pc EXCEPT ![p] = "seed"]
               /\ at' = [at EXCEPT ![p] = [s \in Subtrees |->
                           IF s \in Bundle \ Undeclared /\ ~Ready(s) THEN "wait" ELSE "none"]]
               /\ cmd' = [cmd EXCEPT ![p] = c]
     ELSE /\ pc' = [pc EXCEPT ![p] = "install"]
          /\ at' = [at EXCEPT ![p] = [s \in Subtrees |->
                      IF \E a \in Closure : s \in {BinOf[a], StateOf[a]} THEN "queued" ELSE "none"]]
          /\ cmd' = [cmd EXCEPT ![p] = c]
  /\ UNCHANGED <<disk, locks, layout, deleted, deaths, deletions>>

Finish(p) == /\ pc' = [pc EXCEPT ![p] = "idle"] /\ cmd' = [cmd EXCEPT ![p] = "none"]
             /\ at' = [at EXCEPT ![p] = [s \in Subtrees |-> "none"]]

(***************************************************************************)
(* Installing by download: no lock, a stat before and a rename that fails  *)
(* on a directory that came to be meanwhile.                               *)
(***************************************************************************)

Installing(p, s) == pc[p] = "install" /\ s \in Bins
Earlier(s) == {BinOf[Order[i]] : i \in {j \in DOMAIN Order : \E k \in DOMAIN Order :
                                          j < k /\ BinOf[Order[k]] = s}}

LookUp(p, s) ==
  /\ Installing(p, s) /\ at[p][s] = "queued"
  /\ cmd[p] = "command" => \A b \in Earlier(s) : at[p][b] = "done"
  /\ Set(p, s, IF There(s) THEN "done" ELSE "fetch")
  /\ UNCHANGED <<disk, locks, layout, cmd, pc, bounds>>

Fetch(p, s) ==
  /\ Installing(p, s) /\ at[p][s] = "fetch"
  /\ \E got \in {"move", "failed"} : Set(p, s, got)
  /\ UNCHANGED <<disk, locks, layout, cmd, pc, bounds>>

MoveLook(p, s) ==
  /\ Installing(p, s) /\ at[p][s] = "move"
  /\ Set(p, s, IF There(s) THEN "done" ELSE "moving")
  /\ UNCHANGED <<disk, locks, layout, cmd, pc, bounds>>

\* Mutant of MoveRename: whatever is there makes way.
MoveReplacing(p, s) ==
  /\ Installing(p, s) /\ at[p][s] = "moving"
  /\ store' = [store EXCEPT ![s] = IF There(s) THEN Absent ELSE Whole(s)]
  /\ Set(p, s, IF There(s) THEN "moving" ELSE "done")
  /\ UNCHANGED <<seeded, tmp, locks, layout, cmd, pc, bounds>>

MoveRename(p, s) ==
  /\ Installing(p, s) /\ at[p][s] = "moving"
  /\ store' = IF There(s) THEN store ELSE [store EXCEPT ![s] = Whole(s)]
  /\ Set(p, s, "done")
  /\ UNCHANGED <<seeded, tmp, locks, layout, cmd, pc, bounds>>

\* The rename, or the copy that stands in for it, fails with nothing there.
MoveBreaks(p, s) ==
  /\ Installing(p, s) /\ at[p][s] = "moving" /\ ~There(s)
  /\ Set(p, s, "failed")
  /\ UNCHANGED <<disk, locks, layout, cmd, pc, bounds>>

\* Mutant of Barrier: a tool that could not be installed does not end the command.
BarrierOpen(p) ==
  /\ pc[p] = "install"
  /\ \A a \in Closure : at[p][BinOf[a]] \in {"done", "failed"}
  /\ pc' = [pc EXCEPT ![p] = "prepare"]
  /\ UNCHANGED <<disk, locks, layout, cmd, at, bounds>>

\* The barrier: no step starts against a half-installed closure.
Barrier(p) ==
  LET bins == {BinOf[a] : a \in Closure}
      failed == \E s \in bins : at[p][s] = "failed"
  IN  /\ pc[p] = "install"
      /\ IF cmd[p] = "command" /\ failed THEN TRUE ELSE \A s \in bins : at[p][s] \in {"done", "failed"}
      /\ IF failed THEN Finish(p) ELSE pc' = [pc EXCEPT ![p] = "prepare"] /\ UNCHANGED <<cmd, at>>
      /\ UNCHANGED <<disk, locks, layout, bounds>>

(***************************************************************************)
(* The subtree lock: a goroutine of the caller takes it, and the caller    *)
(* stops waiting when its context ends (lockFile).  Only a step and a      *)
(* prepared layer wait that way; the lock of another layer is plain.       *)
(***************************************************************************)

\* Mutant of Flock: a layer has a lock of its own.
FlockApart(p, s) ==
  /\ at[p][s] = "wait" /\ (lock[s] = Free \/ pc[p] = "seed")
  /\ lock' = IF lock[s] = Free THEN [lock EXCEPT ![s] = <<p, "caller">>] ELSE lock
  /\ Set(p, s, "won")
  /\ UNCHANGED <<disk, orphans, layout, cmd, pc, bounds>>

Flock(p, s) ==
  /\ at[p][s] = "wait" /\ lock[s] = Free
  /\ lock' = [lock EXCEPT ![s] = <<p, "caller">>]
  /\ Set(p, s, "won")
  /\ UNCHANGED <<disk, orphans, layout, cmd, pc, bounds>>

Abandon(p, s) ==
  /\ s \in States /\ at[p][s] \in {"wait", "won"}
  /\ IF at[p][s] = "wait" THEN orphans' = orphans \cup {<<p, s>>} /\ UNCHANGED lock
     ELSE lock' = [lock EXCEPT ![s] = <<p, "orphan">>] /\ UNCHANGED orphans
  /\ Set(p, s, "failed")
  /\ UNCHANGED <<disk, layout, cmd, pc, bounds>>

OrphanFlock(p, s) ==
  /\ <<p, s>> \in orphans /\ lock[s] = Free
  /\ lock' = [lock EXCEPT ![s] = <<p, "orphan">>] /\ orphans' = orphans \ {<<p, s>>}
  /\ UNCHANGED <<disk, layout, cmd, pc, at, bounds>>

\* Mutant of OrphanDrop: nobody receives from the channel of a cancelled wait.
OrphanKeeps(p, s) == lock[s] = <<p, "orphan">> /\ UNCHANGED vars

OrphanDrop(p, s) ==
  /\ lock[s] = <<p, "orphan">> /\ Unlock(s)
  /\ UNCHANGED <<disk, orphans, layout, cmd, pc, at, bounds>>

\* Mutant of Enter: the look before the lock is taken to be enough.
EnterAnyway(p, s) ==
  /\ at[p][s] = "won"
  /\ Set(p, s, IF pc[p] = "seed" THEN "blob" ELSE "stage")
  /\ UNCHANGED <<disk, locks, layout, cmd, pc, bounds>>

\* Readiness is looked at again under the lock.
Enter(p, s) ==
  /\ at[p][s] = "won"
  /\ IF Ready(s) THEN Set(p, s, "done") /\ Unlock(s)
     ELSE Set(p, s, IF pc[p] = "seed" THEN "blob" ELSE "stage") /\ UNCHANGED lock
  /\ UNCHANGED <<disk, orphans, layout, cmd, pc, bounds>>

(***************************************************************************)
(* The step: its directory is built aside, published with a lease, run in, *)
(* marked and renamed into place (prepare.Run).                            *)
(***************************************************************************)

\* Mutant of Leave: the layout is left to the sweeper.
LeaveLayout(p, s, how) == Set(p, s, how) /\ Unlock(s) /\ UNCHANGED layout

\* The deferred calls: the layout is removed, then the lock is released.
Leave(p, s, how) ==
  Set(p, s, how) /\ layout' = [layout EXCEPT ![p] = NoLayout] /\ Unlock(s)

Stepping(p, s, status) == pc[p] = "prepare" /\ s \in States /\ at[p][s] = status

\* The states are made ready in the order of the closure.
Check(p, s) ==
  /\ Stepping(p, s, "queued")
  /\ \A i \in DOMAIN Order : StateOf[Order[i]] = s =>
       \A j \in 1 .. i - 1 : StateOf[Order[j]] \in States => at[p][StateOf[Order[j]]] = "done"
  /\ \A t \in States : at[p][t] # "failed"
  /\ \E how \in IF Ready(s) THEN {"done"} ELSE {"wait", "failed"} : Set(p, s, how)
  /\ UNCHANGED <<disk, locks, layout, cmd, pc, bounds>>

Stage(p, s) ==
  /\ Stepping(p, s, "stage")
  /\ \/ Set(p, s, "publish") /\ UNCHANGED lock
        /\ layout' = [layout EXCEPT ![p] = [NoLayout EXCEPT !.there = TRUE, !.leased = TRUE]]
     \/ Leave(p, s, "failed")
  /\ UNCHANGED <<disk, orphans, cmd, pc, bounds>>

\* A staging directory swept meanwhile has nothing to rename.
Publish(p, s) ==
  /\ Stepping(p, s, "publish")
  /\ \/ layout[p].there /\ Set(p, s, "step") /\ UNCHANGED lock
        /\ layout' = [layout EXCEPT ![p].published = TRUE]
     \/ Leave(p, s, "failed")
  /\ UNCHANGED <<disk, orphans, cmd, pc, bounds>>

\* Without its working directory the command does not start.
StepStarts(p, s) ==
  /\ Stepping(p, s, "step")
  /\ IF layout[p].there
     THEN /\ Set(p, s, "stepping") /\ UNCHANGED lock
          /\ layout' = [layout EXCEPT ![p].content = "part"]
     ELSE Leave(p, s, "failed")
  /\ UNCHANGED <<disk, orphans, cmd, pc, bounds>>

\* A step whose directory was swept under it may make it again: without a
\* lease, and without what it had written before.
StepEnds(p, s) ==
  /\ Stepping(p, s, "stepping")
  /\ Set(p, s, "validate")
  /\ \E made \in IF layout[p].there THEN {"whole", "unusable"} ELSE {"none", "part"} :
       layout' = [layout EXCEPT ![p].content = made, ![p].there = made # "none",
                                ![p].published = TRUE]
  /\ UNCHANGED <<disk, locks, cmd, pc, bounds>>

\* It fails, runs into its timeout, or is cancelled.
StepFails(p, s) ==
  /\ Stepping(p, s, "stepping")
  /\ Leave(p, s, "failed")
  /\ UNCHANGED <<disk, orphans, cmd, pc, bounds>>

\* Mutant of Validate: what the step left is taken as it is.
ValidateNothing(p, s) ==
  /\ Stepping(p, s, "validate")
  /\ Set(p, s, "place") /\ layout' = [layout EXCEPT ![p].marked = TRUE]
  /\ UNCHANGED <<disk, locks, cmd, pc, bounds>>

\* validateOutput and writeMarker.
Validate(p, s) ==
  /\ Stepping(p, s, "validate")
  /\ IF layout[p].content \in {"whole", "part"}
     THEN /\ Set(p, s, "place") /\ UNCHANGED lock
          /\ layout' = [layout EXCEPT ![p].marked = TRUE]
     ELSE Leave(p, s, "failed")
  /\ UNCHANGED <<disk, orphans, cmd, pc, bounds>>

PlaceLook(p, s) ==
  /\ Stepping(p, s, "place")
  /\ IF Ready(s) THEN Leave(p, s, "done")
     ELSE Set(p, s, IF There(s) THEN "aside" ELSE "rename") /\ UNCHANGED <<lock, layout>>
  /\ UNCHANGED <<disk, orphans, cmd, pc, bounds>>

AsideOf(s) == [kind |-> "aside", marked |-> store[s].marked, pid |-> 0, old |-> FALSE]

\* The markerless remnant is moved aside, for a step or for a layer.
MoveAside(p, s) ==
  /\ at[p][s] = "aside"
  /\ \/ /\ There(s) /\ Set(p, s, "rename") /\ UNCHANGED <<lock, layout>>
        /\ store' = [store EXCEPT ![s] = Absent] /\ tmp' = tmp \cup {AsideOf(s)}
     \/ /\ Leave(p, s, IF Ready(s) /\ pc[p] = "prepare" THEN "done" ELSE "failed")
        /\ UNCHANGED <<store, tmp>>
  /\ UNCHANGED <<seeded, orphans, cmd, pc, bounds>>

PlaceRename(p, s) ==
  /\ Stepping(p, s, "rename")
  /\ \/ /\ layout[p].there /\ ~There(s) /\ Leave(p, s, "done")
        /\ store' = [store EXCEPT ![s] = [there |-> TRUE, content |-> layout[p].content,
                                          marked |-> layout[p].marked]]
     \/ Leave(p, s, IF Ready(s) THEN "done" ELSE "failed") /\ UNCHANGED store
  /\ UNCHANGED <<seeded, tmp, orphans, cmd, pc, bounds>>

(***************************************************************************)
(* SweepStale.  A lease names a pid, and a pid is looked for among the     *)
(* processes that the sweeper can see.                                     *)
(***************************************************************************)

ProcessAlive(p, pid) ==
  \E q \in Procs : PidOf[q] = pid /\ NamespaceOf[q] = NamespaceOf[p] /\ pc[q] # "down"

\* Mutant of Swept: a layout is judged by its age alone.
SweptByAge(p, e) == e.old

Swept(p, e) == IF e.kind = "layout" THEN ~ProcessAlive(p, e.pid) ELSE e.old

LayoutOf(q) == [kind |-> IF layout[q].published THEN "layout" ELSE "staging",
                pid |-> IF layout[q].leased THEN PidOf[q] ELSE 0,
                old |-> layout[q].old, marked |-> FALSE]

SweepStale(p) ==
  /\ tmp' = {e \in tmp : ~Swept(p, e)}
  /\ layout' = [q \in Procs |-> IF layout[q].there /\ Swept(p, LayoutOf(q))
                                THEN NoLayout ELSE layout[q]]

EndPrepare(p) ==
  LET states == {StateOf[a] : a \in Closure} \cap States
      failed == \E s \in states : at[p][s] = "failed"
  IN  /\ pc[p] = "prepare" /\ (failed \/ (\A s \in states : at[p][s] = "done"))
      /\ IF cmd[p] = "command" /\ ~failed THEN SweepStale(p) ELSE UNCHANGED <<tmp, layout>>
      /\ Finish(p)
      /\ UNCHANGED <<store, seeded, locks, bounds>>

(***************************************************************************)
(* A layer of the bundle (seedLayer, placeSubtree).                        *)
(***************************************************************************)

Seeding(p, s, status) == pc[p] = "seed" /\ at[p][s] = status

Blob(p, s) ==
  /\ Seeding(p, s, "blob")
  /\ \/ Set(p, s, "place") /\ UNCHANGED <<lock, layout>>
     \/ Leave(p, s, "failed")
  /\ UNCHANGED <<disk, orphans, cmd, pc, bounds>>

\* What is there wins, unless it is a state without its marker.
LayerPlace(p, s) ==
  /\ Seeding(p, s, "place")
  /\ IF Ready(s) THEN Leave(p, s, "done")
     ELSE Set(p, s, IF There(s) THEN "aside" ELSE "rename") /\ UNCHANGED <<lock, layout>>
  /\ UNCHANGED <<disk, orphans, cmd, pc, bounds>>

LayerRename(p, s) ==
  /\ Seeding(p, s, "rename")
  /\ \/ There(s) /\ Leave(p, s, "done") /\ UNCHANGED store
     \/ ~There(s) /\ Leave(p, s, "done") /\ store' = [store EXCEPT ![s] = Whole(s)]
     \/ ~There(s) /\ Leave(p, s, "failed") /\ UNCHANGED store
  /\ UNCHANGED <<seeded, tmp, orphans, cmd, pc, bounds>>

\* Mutant of EndSeed: the marker is written though a layer failed.
EndSeedAnyway(p) ==
  /\ pc[p] = "seed" /\ \A s \in Subtrees : at[p][s] \in {"none", "done", "failed"}
  /\ seeded' \in {seeded, TRUE}
  /\ Finish(p)
  /\ UNCHANGED <<store, tmp, locks, layout, bounds>>

\* The marker lists every subtree of the bundle, the skipped ones with the rest, so a
\* pull that skipped one does not satisfy the next (Begin).  One that could not be
\* written costs the next pull a look, no more.
EndSeed(p) ==
  /\ pc[p] = "seed" /\ \A s \in Subtrees : at[p][s] \in {"none", "done", "failed"}
  /\ seeded' \in IF \E s \in Subtrees : at[p][s] = "failed" THEN {seeded} ELSE {seeded, TRUE}
  /\ Finish(p)
  /\ UNCHANGED <<store, tmp, locks, layout, bounds>>

(***************************************************************************)
(* What happens to them.                                                   *)
(***************************************************************************)

\* A dead process's locks go with it; its directories stay, and its pid may
\* be another's later.
Die(p) ==
  /\ pc[p] # "down" /\ deaths < MaxDeaths /\ deaths' = deaths + 1
  /\ pc' = [pc EXCEPT ![p] = "down"] /\ cmd' = [cmd EXCEPT ![p] = "none"]
  /\ at' = [at EXCEPT ![p] = [s \in Subtrees |-> "none"]]
  /\ lock' = [s \in Subtrees |-> IF lock[s][1] = p THEN Free ELSE lock[s]]
  /\ orphans' = {o \in orphans : o[1] # p}
  /\ tmp' = IF layout[p].there THEN tmp \cup {LayoutOf(p)} ELSE tmp
  /\ layout' = [layout EXCEPT ![p] = NoLayout]
  /\ UNCHANGED <<store, seeded, deleted, calls, deletions>>

Start(p) ==
  /\ pc[p] = "down" /\ pc' = [pc EXCEPT ![p] = "idle"]
  /\ UNCHANGED <<disk, locks, layout, cmd, at, bounds>>

\* The documented repair.
DeleteMarker(s) ==
  /\ Ready(s) /\ deletions < MaxDeletions /\ deletions' = deletions + 1
  /\ store' = [store EXCEPT ![s].marked = FALSE] /\ deleted' = deleted \cup {s}
  /\ UNCHANGED <<seeded, tmp, locks, layout, cmd, pc, at, calls, deaths>>

\* 24 hours, for whatever is there.
DayPasses ==
  /\ tmp' = {[e EXCEPT !.old = TRUE] : e \in tmp}
  /\ layout' = [q \in Procs |-> [layout[q] EXCEPT !.old = layout[q].there]]
  /\ UNCHANGED <<store, seeded, locks, cmd, pc, at, bounds>>

Install(p, s) == LookUp(p, s) \/ Fetch(p, s) \/ MoveLook(p, s) \/ MoveRename(p, s)
                 \/ MoveBreaks(p, s)
Layer(p, s)   == Blob(p, s) \/ LayerPlace(p, s) \/ LayerRename(p, s)
Run(p, s)     == \/ Check(p, s) \/ Stage(p, s) \/ Publish(p, s) \/ StepStarts(p, s)
                 \/ StepEnds(p, s) \/ StepFails(p, s) \/ Validate(p, s)
                 \/ PlaceLook(p, s) \/ PlaceRename(p, s)
Both(p, s)    == Flock(p, s) \/ Enter(p, s) \/ MoveAside(p, s)

Work(p) == \/ \E s \in Subtrees : Both(p, s) \/ Layer(p, s)
           \/ \E s \in States : Run(p, s)
           \/ \E s \in Bins : Install(p, s)
           \/ Barrier(p) \/ EndPrepare(p) \/ EndSeed(p)

Next ==
  \/ \E p \in Procs : \/ \E c \in {"tools", "command", "seed"} : Begin(p, c)
                      \/ Work(p)
                      \/ \E s \in States : Abandon(p, s) \/ OrphanFlock(p, s) \/ OrphanDrop(p, s)
                      \/ Die(p) \/ Start(p)
  \/ \E s \in Deletable : DeleteMarker(s)
  \/ DayPasses

Spec == Init /\ [][Next]_vars

\* The scheduler runs every process and every goroutine that can run.
Fairness ==
  \A p \in Procs : /\ WF_vars(Work(p))
                   /\ \A s \in States : WF_vars(OrphanFlock(p, s)) /\ WF_vars(OrphanDrop(p, s))
FairSpec == Spec /\ Fairness

(***************************************************************************)
(* Properties.                                                             *)
(***************************************************************************)

Statuses == Active \cup {"none", "queued", "done", "failed"}
Holders  == {Free} \cup (Procs \X {"caller", "orphan"})
Contents == {"none", "part", "whole", "unusable"}
Stored   == [there : BOOLEAN, content : Contents, marked : BOOLEAN]
Layouts  == [there : BOOLEAN, published : BOOLEAN, leased : BOOLEAN, old : BOOLEAN,
             content : Contents, marked : BOOLEAN]
Debris   == [kind : {"layout", "staging", "aside"}, pid : Nat, old : BOOLEAN, marked : BOOLEAN]

\* Store, locks, layouts and progress are of their types, and only a step that
\* is under way has a layout.
TypeOK ==
  /\ store \in [Subtrees -> Stored] /\ seeded \in BOOLEAN /\ tmp \subseteq Debris
  /\ lock \in [Subtrees -> Holders] /\ orphans \subseteq Procs \X States
  /\ layout \in [Procs -> Layouts]
  /\ pc \in [Procs -> {"down", "idle", "install", "prepare", "seed"}]
  /\ cmd \in [Procs -> {"none", "tools", "command", "seed"}]
  /\ at \in [Procs -> [Subtrees -> Statuses]]
  /\ \A p \in Procs : layout[p].there => pc[p] = "prepare"
  /\ deleted \subseteq Deletable
  /\ calls \in 0 .. MaxCalls /\ deaths \in 0 .. MaxDeaths /\ deletions \in 0 .. MaxDeletions

\* What counts as ready is all of what a step that succeeded, or a layer, put
\* there: whoever died, was swept, timed out or lost a race on the way.
ReadyIsWhole == \A s \in Subtrees : Ready(s) => store[s].content = "whole"

\* Nobody but the user takes a ready subtree away: no remnant moved aside and
\* no install that lost its race was somebody else's finished work.
ReadyStays ==
  [][\A s \in Subtrees : Ready(s) => Ready(s)' \/ (s \in States /\ deletions' # deletions)]_vars

\* One process at a time is between the lock and the placement of a subtree.
OneAtATime ==
  \A s \in Subtrees : \A p, q \in Procs : at[p][s] \in Inside /\ at[q][s] \in Inside => p = q

\* A step starts only for a state that is not ready, so that two processes
\* that wanted the same state run its step once.
StepOnlyWhenNeeded ==
  [][\A p \in Procs, s \in States : at[p][s] # "stepping" /\ at'[p][s] = "stepping" => ~Ready(s)]_vars

\* A step runs with every tool of the closure installed and the states of its
\* dependencies ready, unless their markers were deleted under it.
ClosureFirst ==
  \A p \in Procs : \A i \in DOMAIN Order :
    LET s == StateOf[Order[i]]
    IN  s \in States /\ at[p][s] \in {"step", "stepping"} /\ pc[p] = "prepare" =>
          /\ \A a \in Closure : There(BinOf[a])
          /\ \A j \in 1 .. i - 1 :
               LET t == StateOf[Order[j]] IN t \in States => Ready(t) \/ t \in deleted

\* A completed full pull left every subtree of the bundle in the store, but for the
\* parser modules it skipped, which its marker lists all the same.
SeedMarkerTrue == seeded => \A s \in Bundle \ Undeclared : Ready(s) \/ s \in deleted

\* Nothing that is moved aside, to be deleted a day later, was ready.
AsideNotReady == \A e \in tmp : e.kind = "aside" => ~e.marked

\* A published layout whose owner lives is never swept, however long its step
\* runs (the lease in SweepStale).
LiveLayoutKept ==
  [][\A p \in Procs : layout[p].published /\ at[p] = at'[p] =>
       layout'[p].published \/ ~layout[p].leased]_vars

\* A command ends: a lock that a cancelled waiter's goroutine takes later is
\* dropped again, and a dead process's goes with it.
CommandsEnd == \A p \in Procs : pc[p] \in {"install", "prepare", "seed"} ~> pc[p] \in {"idle", "down"}

\* As checked: what a marker says of a subtree or of a bundle is so, and nothing
\* that carries one is put aside to be deleted.
MarkersTrue == ReadyIsWhole /\ SeedMarkerTrue /\ AsideNotReady
=============================================================================
