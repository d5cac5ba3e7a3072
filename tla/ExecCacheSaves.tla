--------------------------- MODULE ExecCacheSaves ---------------------------
(***************************************************************************)
(* Theorems about the saves of ExecCache: no pass is stranded in memory, a *)
(* prune sticks, a session yields, and a save forgets no pass and renews   *)
(* no verdict backwards but for the race with another rename.              *)
(***************************************************************************)
EXTENDS ExecCacheProofs

(***************************************************************************)
(* What a step is to a process.                                            *)
(***************************************************************************)

\* What process p keeps of its cache.
Quiet(p) ==
  /\ key'[p] = key[p] /\ held'[p] = held[p]
  /\ entries'[p] = entries[p] /\ verdicts'[p] = verdicts[p]
  /\ goneFiles'[p] = goneFiles[p] /\ goneIds'[p] = goneIds[p]
  /\ dirty'[p] = dirty[p] /\ unsaved'[p] = unsaved[p] /\ save'[p] = save[p]

Opens(p) == \E prune \in BOOLEAN : Start(p, prune) \/ Reload(p, prune)
Ends(p)  == Exit(p) \/ Crash(p)

\* A process opens, ends, saves, records, or is left alone.
LEMMA StepOfProcess ==
  ASSUME TypeOK, [Next]_vars, NEW p \in Procs
  PROVE  \/ Quiet(p) \/ Opens(p) \/ Ends(p) \/ Saver(p)
         \/ \E w \in Workers : Records(w) /\ Run(w) /\ Owner[w] = p
<1>1. CASE Environment
  BY <1>1 DEF Environment, Edit, EditConfig, Tick, ClearProject, mem, Quiet
<1>2. ASSUME NEW q \in Procs, Lifecycle(q)
      PROVE  Quiet(p) \/ Opens(p) \/ Ends(p)
  <2>1. CASE q = p
    <3>1. CASE \E why \in {"exiting", "reloading"} : Shutdown(q, why)
      BY <3>1 DEF Shutdown, mem, Quiet
    <3>. QED BY <1>2, <2>1, <3>1 DEF Lifecycle, Opens, Ends
  <2>2. CASE q # p
    <3>1. CASE \E prune \in BOOLEAN : Start(q, prune) \/ Reload(q, prune)
      BY <2>2, <3>1 DEF Start, Reload, Open, TypeOK, Quiet
    <3>2. CASE Exit(q) \/ Crash(q)
      BY <2>2, <3>2 DEF Exit, Crash, Forgotten, TypeOK, Quiet
    <3>3. CASE \E why \in {"exiting", "reloading"} : Shutdown(q, why)
      BY <3>3 DEF Shutdown, mem, Quiet
    <3>. QED BY <1>2, <3>1, <3>2, <3>3 DEF Lifecycle
  <2>. QED BY <2>1, <2>2
<1>3. ASSUME NEW q \in Procs, Saver(q), q # p PROVE Quiet(p)
  <2>. USE DEF TypeOK, Quiet
  <2>1. CASE Flush(q) \/ SessionSave(q) \/ MergeYield(q)
    BY <1>3, <2>1 DEF Flush, SessionSave, MergeYield, mem
  <2>2. CASE MergeFromDisk(q)
    BY <1>3, <2>2 DEF MergeFromDisk
  <2>3. CASE Encode(q) \/ Rename(q) \/ WriteFails(q)
    BY <1>3, <2>3 DEF Encode, Rename, WriteFails, mem
  <2>. QED BY <1>3, <2>1, <2>2, <2>3 DEF Saver
<1>4. ASSUME NEW w \in Workers, Run(w), ~(Records(w) /\ Owner[w] = p) PROVE Quiet(p)
  <2>1. CASE Records(w)
    <3>1. Owner[w] # p
      BY <1>4, <2>1
    <3>2. CASE RecordFile(w)
      BY <3>1, <3>2 DEF RecordFile, MarkDirty, TypeOK, Quiet
    <3>3. CASE RecordVerdict(w)
      BY <3>1, <3>3 DEF RecordVerdict, MarkDirty, TypeOK, Quiet
    <3>. QED BY <2>1, <3>2, <3>3 DEF Records
  <2>2. CASE ~Records(w)
    BY <1>4, <2>2 DEF Run, Records, Begin, Observe, Handle, Probe, Replay, Spawn, Succeed, Fail,
                      mem, Quiet
  <2>. QED BY <2>1, <2>2
<1>5. CASE UNCHANGED vars
  BY <1>5 DEF vars, mem, Quiet
<1>. QED BY <1>1, <1>2, <1>3, <1>4, <1>5 DEF Next

(***************************************************************************)
(* No pass is stranded.                                                    *)
(***************************************************************************)

\* A pass recorded while a flush is under way marks the cache dirty again.
LEMMA StrandedKept ==
  ASSUME ShapeInv, NothingStranded, [Next]_vars
  PROVE  NothingStranded'
<1>0. TypeOK
  BY DEF ShapeInv
<1>. SUFFICES ASSUME NEW p \in Procs
              PROVE  (unsaved[p] => dirty[p] \/ save[p].phase \in {"merge", "encode"})'
  BY DEF NothingStranded
<1>1. /\ unsaved[p] => dirty[p] \/ save[p].phase \in {"merge", "encode"}
      /\ save[p] \in SaveState
  BY <1>0 DEF NothingStranded, TypeOK
<1>2. CASE Quiet(p)
  BY <1>1, <1>2 DEF Quiet
<1>3. CASE Opens(p) \/ Ends(p)
  <2>1. unsaved' = [unsaved EXCEPT ![p] = FALSE]
    BY <1>3 DEF Opens, Ends, Start, Reload, Open, Exit, Crash, Forgotten
  <2>. QED BY <1>0, <2>1 DEF TypeOK
<1>4. CASE Saver(p)
  <2>1. CASE Flush(p) \/ SessionSave(p)
    <3>1. save' = [save EXCEPT ![p].phase = "merge"]
      BY <2>1 DEF Flush, SessionSave
    <3>. QED BY <1>0, <1>1, <3>1 DEF TypeOK, SaveState
  <2>2. CASE MergeFromDisk(p)
    <3>1. save' = [save EXCEPT ![p].phase = "encode", ![p].saw = disk]
      BY <2>2 DEF MergeFromDisk
    <3>. QED BY <1>0, <1>1, <3>1 DEF TypeOK, SaveState
  <2>3. CASE MergeYield(p) \/ Encode(p)
    BY <1>0, <2>3 DEF MergeYield, Encode, TypeOK
  <2>4. CASE Rename(p) \/ WriteFails(p)
    BY <1>1, <2>4 DEF Rename, WriteFails
  <2>. QED BY <1>4, <2>1, <2>2, <2>3, <2>4 DEF Saver
<1>5. ASSUME NEW w \in Workers, Records(w), Run(w), Owner[w] = p
      PROVE  (unsaved[p] => dirty[p] \/ save[p].phase \in {"merge", "encode"})'
  <2>1. \/ unsaved' = unsaved /\ dirty' = dirty
        \/ MarkDirty(p)
    BY <1>5 DEF Records, RecordFile, RecordVerdict
  <2>2. save'[p].phase = save[p].phase
    BY <1>0, <1>5, RunLeavesSaves
  <2>. QED BY <1>0, <1>1, <2>1, <2>2 DEF MarkDirty, TypeOK
<1>. QED BY <1>0, <1>2, <1>3, <1>4, <1>5, StepOfProcess

\* A pass that memory holds and no save has encoded is never left behind: a flush is
\* pending or has yet to encode (MarkDirty, flush).
THEOREM NothingStrandedHolds == Spec => []NothingStranded
<1>1. Init => NothingStranded
  BY DEF Init, NothingStranded
<1>2. ShapeInv /\ NothingStranded /\ [Next]_vars => NothingStranded'
  BY StrandedKept
<1>. QED BY ShapeInvariant, <1>1, <1>2, PTL DEF Spec

(***************************************************************************)
(* A prune that sticks, and a session that yields.                         *)
(***************************************************************************)

\* A process opens with what it loaded, less what it pruned; a prune is followed by
\* a save of its own (Load, NewCache).
LEMMA OpensPruned ==
  ASSUME TypeOK, NEW p \in Procs, Opens(p)
  PROVE  /\ \A f \in Files : f \in goneFiles'[p] => entries'[p][f] = NoEntry
         /\ \A i \in Ids : i \in goneIds'[p] => verdicts'[p][i] = NoVerdict
         /\ save'[p] \in {NoSave, [NoSave EXCEPT !.phase = "merge", !.boot = TRUE]}
         /\ save'[p].phase \in {"idle", "merge"}
         /\ job' = job /\ life[p] # "up"
<1>1. PICK prune \in BOOLEAN : Start(p, prune) \/ Reload(p, prune)
  BY DEF Opens
<1>. DEFINE ours == disk.key = config
            es   == IF ours THEN disk.entries ELSE NoEntries
            vs   == IF ours THEN disk.verdicts ELSE NoVerdicts
            oldE == IF prune THEN StaleEntries(es, content) ELSE {}
            oldV == IF prune THEN StaleVerdicts(vs, clock) ELSE {}
<1>2. /\ entries' = [entries EXCEPT ![p] = PruneEntries(es, oldE)]
      /\ verdicts' = [verdicts EXCEPT ![p] = PruneVerdicts(vs, oldV)]
      /\ goneFiles' = [goneFiles EXCEPT ![p] = oldE]
      /\ goneIds' = [goneIds EXCEPT ![p] = oldV]
  BY <1>1 DEF Start, Reload, Open
<1>3. \/ save' = [save EXCEPT ![p] = NoSave]
      \/ save' = [save EXCEPT ![p] = [NoSave EXCEPT !.phase = "merge", !.boot = TRUE]]
  BY <1>1 DEF Start, Reload, Open
<1>4. job' = job /\ life[p] # "up"
  BY <1>1 DEF Start, Reload
<1>. HIDE DEF ours, es, vs, oldE, oldV
<1>5. /\ goneFiles'[p] = oldE /\ entries'[p] = PruneEntries(es, oldE)
      /\ goneIds'[p] = oldV /\ verdicts'[p] = PruneVerdicts(vs, oldV)
  BY <1>2 DEF TypeOK
<1>6. save'[p] \in {NoSave, [NoSave EXCEPT !.phase = "merge", !.boot = TRUE]}
  BY <1>3 DEF TypeOK
<1>7. NoSave.phase = "idle" /\ [NoSave EXCEPT !.phase = "merge", !.boot = TRUE].phase = "merge"
  BY DEF NoSave
<1>. QED BY <1>4, <1>5, <1>6, <1>7 DEF PruneEntries, PruneVerdicts

\* Only a process that is up has tool runs.
LEMMA UpRuns ==
  ASSUME ShapeInv, NEW p \in Procs, life[p] # "up"
  PROVE  Running(p) = {}
BY DEF ShapeInv, JobShape, Running

\* While a prune is saved no tool run begins, so what it dropped is not recorded
\* again before it is written (NewCache).
LEMMA PruneKept ==
  ASSUME ShapeInv, NEW p \in Procs, PruneHeld(p), [Next]_vars
  PROVE  PruneHeld(p)'
<1>0. TypeOK /\ save[p] \in SaveState
  BY DEF ShapeInv, TypeOK
<1>1. CASE Quiet(p)
  <2>1. ASSUME save[p].boot, Running(p) = {} PROVE Running(p)' = {}
    <3>1. ASSUME NEW w \in Workers, Owner[w] = p PROVE job'[w].phase = "idle"
      <4>1. job[w].phase = "idle"
        BY <2>1, <3>1 DEF Running
      <4>2. CASE Environment
        BY <4>1, <4>2 DEF Environment, Edit, EditConfig, Tick, ClearProject
      <4>3. ASSUME NEW q \in Procs, Lifecycle(q) \/ Saver(q) PROVE job'[w].phase = "idle"
        BY <4>1, <4>3, ProcessLeavesJobs DEF NoJob
      <4>4. ASSUME NEW v \in Workers, Run(v) PROVE job'[w].phase = "idle"
        <5>1. CASE v # w
          BY <4>1, <4>4, <5>1, RunIsLocal
        <5>2. CASE v = w
          BY <2>1, <3>1, <4>1, <4>4, <5>2
             DEF Run, Begin, Observe, Handle, Probe, Replay, Spawn, Succeed, Fail, RecordFile,
                 RecordVerdict, Observed, Handled, Probed
        <5>. QED BY <5>1, <5>2
      <4>5. CASE UNCHANGED vars
        BY <4>1, <4>5 DEF vars
      <4>. QED BY <4>2, <4>3, <4>4, <4>5 DEF Next
    <3>. QED BY <3>1 DEF Running
  <2>. QED BY <1>1, <2>1 DEF Quiet, PruneHeld
<1>2. CASE Opens(p)
  <2>1. Running(p)' = {}
    BY <1>0, <1>2, OpensPruned, UpRuns DEF Running
  <2>2. goneFiles'[p] \subseteq Files /\ goneIds'[p] \subseteq Ids
    BY NextTyped DEF TypeOK
  <2>. QED BY <1>0, <1>2, <2>1, <2>2, OpensPruned DEF PruneHeld
<1>3. CASE Ends(p)
  <2>1. save'[p] = NoSave
    BY <1>0, <1>3 DEF Ends, Exit, Crash, Forgotten, TypeOK
  <2>. QED BY <2>1 DEF PruneHeld, NoSave
<1>4. CASE Saver(p)
  <2>0. Running(p)' = Running(p) /\ goneFiles' = goneFiles /\ goneIds' = goneIds
    BY <1>4 DEF Saver, Flush, SessionSave, MergeYield, MergeFromDisk, Encode, Rename, WriteFails,
                mem, Running
  <2>1. CASE Flush(p) \/ SessionSave(p)
    <3>1. /\ save' = [save EXCEPT ![p].phase = "merge"]
          /\ entries' = entries /\ verdicts' = verdicts
      BY <2>1 DEF Flush, SessionSave, mem
    <3>2. save'[p].phase = "merge" /\ save'[p].boot = save[p].boot
      BY <1>0, <3>1 DEF TypeOK, SaveState
    <3>. QED BY <2>0, <3>1, <3>2 DEF PruneHeld
  <2>2. CASE MergeFromDisk(p)
    <3>1. save'[p].phase = "encode" /\ save'[p].boot = save[p].boot
      BY <1>0, <2>2 DEF MergeFromDisk, TypeOK, SaveState
    <3>2. /\ \A f \in goneFiles[p] : entries'[p][f] = entries[p][f]
          /\ \A i \in goneIds[p] : verdicts'[p][i] = verdicts[p][i]
      <4>1. goneFiles[p] \subseteq Files /\ goneIds[p] \subseteq Ids
        BY <1>0 DEF TypeOK
      <4>. QED BY <1>0, <2>2, <4>1 DEF MergeFromDisk, MergeEntries, MergeVerdicts, TypeOK
    <3>. QED BY <2>0, <3>1, <3>2 DEF PruneHeld
  <2>3. CASE Encode(p)
    <3>. DEFINE payload == [key |-> key[p], entries |-> entries[p], verdicts |-> verdicts[p]]
    <3>1. /\ save' = [save EXCEPT ![p].phase = "rename", ![p].payload = payload]
          /\ entries' = entries /\ verdicts' = verdicts
      BY <2>3 DEF Encode, mem
    <3>2. save'[p].payload = payload /\ save'[p].boot = save[p].boot
      BY <1>0, <3>1 DEF TypeOK, SaveState
    <3>3. payload.entries = entries[p] /\ payload.verdicts = verdicts[p]
      OBVIOUS
    <3>. HIDE DEF payload
    <3>4. save[p].boot => /\ \A f \in goneFiles[p] : entries[p][f] = NoEntry
                          /\ \A i \in goneIds[p] : verdicts[p][i] = NoVerdict
                          /\ Running(p) = {}
      BY DEF PruneHeld
    <3>. QED BY <2>0, <3>1, <3>2, <3>3, <3>4 DEF PruneHeld
  <2>4. CASE MergeYield(p) \/ Rename(p) \/ WriteFails(p)
    <3>1. save'[p] = NoSave
      BY <1>0, <2>4 DEF MergeYield, Rename, WriteFails, TypeOK
    <3>. QED BY <3>1 DEF PruneHeld, NoSave
  <2>. QED BY <1>4, <2>1, <2>2, <2>3, <2>4 DEF Saver
<1>5. ASSUME NEW w \in Workers, Records(w), Run(w), Owner[w] = p PROVE PruneHeld(p)'
  <2>1. save'[p].boot = save[p].boot
    BY <1>0, <1>5, RunLeavesSaves
  <2>2. w \in Running(p)
    BY <1>5 DEF Records, RecordFile, RecordVerdict, Probed, Running
  <2>. QED BY <2>1, <2>2 DEF PruneHeld
<1>. QED BY <1>0, <1>1, <1>2, <1>3, <1>4, <1>5, StepOfProcess

\* A session past its merge has merged a file it may replace.
LEMMA MergedOwnKept ==
  ASSUME ShapeInv, NEW p \in Procs, MergedOwn(p), [Next]_vars
  PROVE  MergedOwn(p)'
<1>0. TypeOK /\ save[p] \in SaveState
  BY DEF ShapeInv, TypeOK
<1>1. CASE Quiet(p)
  BY <1>1 DEF Quiet, MergedOwn
<1>2. CASE Opens(p) \/ Ends(p)
  <2>1. save'[p].phase \in {"idle", "merge"}
    BY <1>0, <1>2, OpensPruned DEF Ends, Exit, Crash, Forgotten, NoSave, TypeOK
  <2>. QED BY <2>1 DEF MergedOwn
<1>3. CASE Saver(p)
  <2>1. CASE Flush(p) \/ SessionSave(p) \/ MergeYield(p) \/ Rename(p) \/ WriteFails(p)
    <3>1. save'[p].phase \in {"idle", "merge"}
      BY <1>0, <2>1 DEF Flush, SessionSave, MergeYield, Rename, WriteFails, NoSave, TypeOK, SaveState
    <3>. QED BY <3>1 DEF MergedOwn
  <2>2. CASE MergeFromDisk(p)
    <3>1. save'[p].saw = disk /\ save'[p].boot = save[p].boot /\ key' = key /\ held' = held
      BY <1>0, <2>2 DEF MergeFromDisk, TypeOK, SaveState
    <3>2. (p \in Sessions /\ ~save[p].boot) => disk.key \in {None, key[p]} \cup held[p]
      BY <2>2 DEF MergeFromDisk, Foreign, Yields
    <3>. QED BY <3>1, <3>2 DEF MergedOwn
  <2>3. CASE Encode(p)
    <3>1. /\ save[p].phase = "encode" /\ save'[p].saw = save[p].saw
          /\ save'[p].boot = save[p].boot /\ key' = key /\ held' = held
      BY <1>0, <2>3 DEF Encode, mem, TypeOK, SaveState
    <3>. QED BY <3>1 DEF MergedOwn
  <2>. QED BY <1>3, <2>1, <2>2, <2>3 DEF Saver
<1>4. ASSUME NEW w \in Workers, Records(w), Run(w), Owner[w] = p PROVE MergedOwn(p)'
  <2>1. /\ save'[p].phase = save[p].phase /\ save'[p].boot = save[p].boot
        /\ save'[p].saw = save[p].saw
    BY <1>0, <1>4, RunLeavesSaves
  <2>2. key' = key /\ held' = held
    BY <1>4 DEF Records, RecordFile, RecordVerdict
  <2>. QED BY <2>1, <2>2 DEF MergedOwn
<1>. QED BY <1>0, <1>1, <1>2, <1>3, <1>4, StepOfProcess

(***************************************************************************)
(* Records that say nothing are empty ones.                                *)
(***************************************************************************)

\* The empty cache is plain.
LEMMA NothingPlain == Plain(NoEntries, NoVerdicts)
BY DEF Plain, NoEntries, NoVerdicts, NoVerdict

\* A prune leaves plain records plain.
LEMMA PrunePlain ==
  ASSUME NEW es \in [Files -> Entry], NEW vs \in [Ids -> Verdict], NEW oldE, NEW oldV,
         Plain(es, vs)
  PROVE  Plain(PruneEntries(es, oldE), PruneVerdicts(vs, oldV))
BY DEF Plain, PruneEntries, PruneVerdicts, NoVerdict

\* What merging makes of one path: ours, theirs, nothing, or the union of both.
LEMMA MergeEntryCases ==
  ASSUME NEW ours \in Entry, NEW old \in Entry
  PROVE  LET new == MergeEntry(ours, old)
         IN  \/ old.hash = Gone /\ new = ours
             \/ ours.hash = Gone /\ new = old
             \/ old.hash # Gone /\ new = NoEntry
             \/ /\ old.hash # Gone /\ new.hash = old.hash
                /\ new.lint = ours.lint \cup old.lint /\ new.fix = ours.fix \cup old.fix
BY DEF MergeEntry

\* ... and of one verdict: ours, or theirs, no later than now.
LEMMA MergeVerdictCases ==
  ASSUME NEW ours \in Verdict, NEW old \in Verdict, NEW now \in Nat
  PROVE  LET new == MergeVerdict(ours, old, now)
         IN  /\ \/ new = ours
                \/ /\ new.inputs = old.inputs
                   /\ new.at = (IF old.at > now THEN now ELSE old.at)
             /\ old.inputs # NoInputs => new.at >= (IF old.at > now THEN now ELSE old.at)
<1>. DEFINE clamped == [old EXCEPT !.at = IF @ > now THEN now ELSE @]
<1>1. /\ clamped.inputs = old.inputs
      /\ clamped.at = (IF old.at > now THEN now ELSE old.at)
      /\ clamped.at \in Nat /\ ours.at \in Nat
  BY DEF Verdict
<1>2. MergeVerdict(ours, old, now) =
        IF old.inputs # NoInputs /\ (ours.inputs = NoInputs \/ clamped.at > ours.at)
        THEN clamped ELSE ours
  BY DEF MergeVerdict
<1>. HIDE DEF clamped
<1>. QED BY <1>1, <1>2

\* Plain records merge into plain ones.
LEMMA MergePlain ==
  ASSUME NEW es \in [Files -> Entry], NEW ds \in [Files -> Entry], NEW goneE,
         NEW vs \in [Ids -> Verdict], NEW dv \in [Ids -> Verdict], NEW goneV, NEW now \in Nat,
         Plain(es, vs), Plain(ds, dv)
  PROVE  Plain(MergeEntries(es, ds, goneE), MergeVerdicts(vs, dv, goneV, now))
<1>1. ASSUME NEW f \in Files, MergeEntry(es[f], ds[f]).hash = Gone
      PROVE  MergeEntry(es[f], ds[f]) = NoEntry
  BY <1>1, MergeEntryCases DEF Plain
<1>2. ASSUME NEW i \in Ids, MergeVerdict(vs[i], dv[i], now).inputs = NoInputs
      PROVE  MergeVerdict(vs[i], dv[i], now).at = 0
  BY <1>2, MergeVerdictCases DEF Plain
<1>. QED BY <1>1, <1>2 DEF Plain, MergeEntries, MergeVerdicts

\* What a run records names the bytes or the inputs it answers for.
LEMMA RecordPlain ==
  ASSUME ShapeInv, PlacesPlain, NEW w \in Workers, Records(w)
  PROVE  Plain(entries'[Owner[w]], verdicts'[Owner[w]])
<1>. DEFINE j == job[w]
            p == Owner[w]
<1>0. TypeOK /\ JobShape(w) /\ j \in JobState /\ p \in Procs
  BY ExecAssumption DEF ShapeInv, TypeOK
<1>1. Plain(entries[p], verdicts[p])
  BY <1>0 DEF PlacesPlain
<1>2. CASE RecordFile(w)
  <2>. DEFINE f == j.target
              e == entries[p][f]
              new == CASE j.op = "lint" /\ j.after[f] = j.seen[f] /\ j.seen[f] # Gone
                           -> EntryAfterLint(e, Pass(j), j.seen[f])
                      [] j.op = "fix" /\ j.after[f] # Gone
                           -> EntryAfterFix(e, Pass(j), j.after[f])
                      [] OTHER -> e
  <2>1. verdicts' = verdicts /\ f \in Files
        /\ (entries' = entries \/ entries' = [entries EXCEPT ![p][f] = new])
    BY <1>2 DEF RecordFile
  <2>2. new.hash # Gone \/ new = e
    <3>1. e \in Entry
      BY <1>0, <2>1 DEF TypeOK
    <3>. HIDE DEF e
    <3>. QED BY <3>1 DEF EntryAfterLint, EntryAfterFix, Entry
  <2>3. \A g \in Files : entries'[p][g] = entries[p][g] \/ entries'[p][g].hash # Gone
    <3>1. entries \in [Procs -> [Files -> Entry]] /\ p \in Procs /\ e = entries[p][f]
      BY <1>0 DEF TypeOK
    <3>. HIDE DEF new, e, f, p
    <3>. QED BY <2>1, <2>2, <3>1
  <2>. QED BY <1>1, <2>1, <2>3 DEF Plain
<1>3. CASE RecordVerdict(w)
  <2>. DEFINE pass == [inputs |-> j.after, at |-> clock]
              sibling == <<j.tool, "lint", j.target>>
  <2>1. /\ entries' = entries
        /\ \/ verdicts' = verdicts
           \/ verdicts' = [verdicts EXCEPT ![p][Id(j)] = pass]
           \/ verdicts' = [verdicts EXCEPT ![p][Id(j)] = pass, ![p][sibling] = NoVerdict]
    BY <1>3 DEF RecordVerdict
  <2>2. pass.inputs # NoInputs
    <3>1. Conf \in DOMAIN j.after
      BY <1>0, <1>3 DEF RecordVerdict, Probed, Scope, InputsOf
    <3>. QED BY <3>1 DEF NoInputs
  <2>3. \A i \in Ids : \/ verdicts'[p][i] = verdicts[p][i]
                       \/ verdicts'[p][i] = pass
                       \/ verdicts'[p][i] = NoVerdict
    <3>1. verdicts \in [Procs -> [Ids -> Verdict]] /\ p \in Procs
      BY <1>0 DEF TypeOK
    <3>. HIDE DEF pass, sibling, p
    <3>. QED BY <2>1, <3>1
  <2>4. NoVerdict.at = 0
    BY DEF NoVerdict
  <2>. HIDE DEF pass
  <2>. QED BY <1>0, <1>1, <2>1, <2>2, <2>3, <2>4 DEF TypeOK, Plain
<1>. QED BY <1>2, <1>3 DEF Records

\* Every place stays plain.
LEMMA PlainKept ==
  ASSUME ShapeInv, PlacesPlain, [Next]_vars
  PROVE  PlacesPlain'
<1>0. TypeOK
  BY DEF ShapeInv
<1>1. Plain(NoFile.entries, NoFile.verdicts)
  BY NothingPlain DEF NoFile
<1>2. ASSUME NEW p \in Procs
      PROVE  /\ DiskMoves /\ PayloadMoves(p)
             /\ MemoryMoves(p) \/ \E w \in Workers : Records(w) /\ Owner[w] = p
  BY RecordsMove
<1>3. Plain(disk'.entries, disk'.verdicts)
  <2>1. CASE Procs = {}
    BY <1>1, <2>1, DiskWithoutProcs DEF PlacesPlain
  <2>2. CASE Procs # {}
    BY <1>1, <1>2, <2>2 DEF DiskMoves, PlacesPlain
  <2>. QED BY <2>1, <2>2
<1>4. ASSUME NEW p \in Procs PROVE Plain(save'[p].payload.entries, save'[p].payload.verdicts)
  BY <1>1, <1>2 DEF PayloadMoves, PlacesPlain
<1>5. ASSUME NEW p \in Procs, MemoryMoves(p) PROVE Plain(entries'[p], verdicts'[p])
  <2>0. /\ entries[p] \in [Files -> Entry] /\ disk.entries \in [Files -> Entry]
        /\ verdicts[p] \in [Ids -> Verdict] /\ disk.verdicts \in [Ids -> Verdict]
        /\ clock \in Nat
    BY <1>0 DEF TypeOK, FileData
  <2>1. ASSUME NEW es \in {NoEntries, disk.entries}, NEW vs \in {NoVerdicts, disk.verdicts},
               NEW oldE, NEW oldV,
               entries'[p] = PruneEntries(es, oldE), verdicts'[p] = PruneVerdicts(vs, oldV)
        PROVE  Plain(entries'[p], verdicts'[p])
    <3>1. Plain(es, vs)
      BY NothingPlain DEF PlacesPlain, Plain
    <3>2. es \in [Files -> Entry] /\ vs \in [Ids -> Verdict]
      BY <2>0, NothingTyped
    <3>. QED BY <2>1, <3>1, <3>2, PrunePlain
  <2>2. CASE /\ entries'[p] = MergeEntries(entries[p], disk.entries, goneFiles[p])
             /\ verdicts'[p] = MergeVerdicts(verdicts[p], disk.verdicts, goneIds[p], clock)
    BY <2>0, <2>2, MergePlain DEF PlacesPlain
  <2>3. CASE \/ entries'[p] = entries[p] /\ verdicts'[p] = verdicts[p]
             \/ entries'[p] = NoEntries /\ verdicts'[p] = NoVerdicts
    BY <2>3, NothingPlain DEF PlacesPlain
  <2>. QED BY <1>5, <2>1, <2>2, <2>3 DEF MemoryMoves
<1>6. ASSUME NEW p \in Procs PROVE Plain(entries'[p], verdicts'[p])
  BY <1>2, <1>5, RecordPlain
<1>. QED BY <1>3, <1>4, <1>6 DEF PlacesPlain

(***************************************************************************)
(* A save forgets nothing of the file it merged.                           *)
(***************************************************************************)

\* The merge takes every pass of the file in, path by path, but where the process
\* holds other bytes or a tombstone (mergeFromDisk).
LEMMA MergeKeepsPasses ==
  ASSUME NEW es \in [Files -> Entry], NEW ds \in [Files -> Entry], NEW gone,
         \A f \in Files : ds[f].hash = Gone => ds[f] = NoEntry,
         NEW f \in Files \ gone,
         MergeEntries(es, ds, gone)[f].hash = ds[f].hash
  PROVE  /\ ds[f].lint \subseteq MergeEntries(es, ds, gone)[f].lint
         /\ ds[f].fix \subseteq MergeEntries(es, ds, gone)[f].fix
<1>1. MergeEntries(es, ds, gone)[f] = MergeEntry(es[f], ds[f])
  BY DEF MergeEntries
<1>2. NoEntry.hash = Gone /\ NoEntry.lint = {} /\ NoEntry.fix = {}
  BY DEF NoEntry
<1>. QED BY <1>1, <1>2, MergeEntryCases

\* Between the merge and the encoding a run adds to the entry it finds, or the path
\* is one recorded under other bytes since (AfterLint, AfterFix).
LEMMA RecordKeepsPasses ==
  ASSUME ShapeInv, NEW w \in Workers, Records(w), NEW f \in Files,
         f \notin save'[Owner[w]].moved, save[Owner[w]].phase = "encode"
  PROVE  LET old == entries[Owner[w]][f]
             new == entries'[Owner[w]][f]
         IN  /\ new.hash = old.hash
             /\ old.lint \subseteq new.lint /\ old.fix \subseteq new.fix
<1>. DEFINE j == job[w]
            p == Owner[w]
            e == entries[p][j.target]
<1>0. TypeOK /\ p \in Procs
  BY ExecAssumption DEF ShapeInv, TypeOK
<1>1. CASE RecordFile(w) /\ j.after[Conf] = j.seen[Conf]
  <2>. DEFINE new == CASE j.op = "lint" /\ j.after[j.target] = j.seen[j.target]
                            /\ j.seen[j.target] # Gone
                            -> EntryAfterLint(e, Pass(j), j.seen[j.target])
                       [] j.op = "fix" /\ j.after[j.target] # Gone
                            -> EntryAfterFix(e, Pass(j), j.after[j.target])
                       [] OTHER -> e
  <2>1. /\ j.target \in Files
        /\ entries' = [entries EXCEPT ![p][j.target] = new]
        /\ save' = [save EXCEPT ![p].moved =
             IF save[p].phase = "encode" /\ entries'[p][j.target].hash # e.hash
             THEN @ \cup {j.target} ELSE @]
    BY <1>1 DEF RecordFile
  <2>2. new.hash = e.hash => e.lint \subseteq new.lint /\ e.fix \subseteq new.fix
    <3>1. e \in Entry
      BY <1>0, <2>1 DEF TypeOK
    <3>. HIDE DEF e
    <3>. QED BY <3>1 DEF EntryAfterLint, EntryAfterFix, Entry
  <2>3. entries \in [Procs -> [Files -> Entry]] /\ save[p] \in SaveState
    BY <1>0 DEF TypeOK
  <2>. HIDE DEF new
  <2>4. entries'[p][j.target] = new /\ (f # j.target => entries'[p][f] = entries[p][f])
    BY <1>0, <2>1, <2>3
  <2>5. f = j.target => new.hash = e.hash
    <3>. SUFFICES ASSUME f = j.target, new.hash # e.hash PROVE f \in save'[p].moved
      OBVIOUS
    <3>1. save' = [save EXCEPT ![p].moved = @ \cup {j.target}]
      BY <2>1, <2>4
    <3>2. save'[p].moved = save[p].moved \cup {j.target}
      BY <1>0, <2>3, <3>1 DEF TypeOK, SaveState
    <3>. QED BY <3>2
  <2>. QED BY <2>2, <2>4, <2>5
<1>2. CASE RecordFile(w) /\ j.after[Conf] # j.seen[Conf]
  BY <1>2 DEF RecordFile
<1>3. CASE RecordVerdict(w)
  BY <1>3 DEF RecordVerdict
<1>. QED BY <1>1, <1>2, <1>3 DEF Records

\* Past the merge, the save keeps the passes it merged.
LEMMA EntriesKeptKept ==
  ASSUME ShapeInv, PlacesPlain, NEW p \in Procs, EntriesKept(p), [Next]_vars
  PROVE  EntriesKept(p)'
<1>0. TypeOK /\ Loaded /\ save[p] \in SaveState
  BY DEF ShapeInv, TypeOK
<1>1. CASE Quiet(p)
  BY <1>1 DEF Quiet, EntriesKept, ToWrite
<1>2. CASE Opens(p) \/ Ends(p)
  <2>1. save'[p].phase \in {"idle", "merge"}
    BY <1>0, <1>2, OpensPruned DEF Ends, Exit, Crash, Forgotten, NoSave, TypeOK
  <2>. QED BY <2>1 DEF EntriesKept
<1>3. CASE Saver(p)
  <2>1. CASE Flush(p) \/ SessionSave(p) \/ MergeYield(p) \/ Rename(p) \/ WriteFails(p)
    <3>1. save'[p].phase \in {"idle", "merge"}
      BY <1>0, <2>1 DEF Flush, SessionSave, MergeYield, Rename, WriteFails, NoSave, TypeOK, SaveState
    <3>. QED BY <3>1 DEF EntriesKept
  <2>2. CASE MergeFromDisk(p)
    <3>1. /\ save'[p].saw = disk /\ save'[p].phase = "encode"
          /\ key' = key /\ goneFiles' = goneFiles
      BY <1>0, <2>2 DEF MergeFromDisk, TypeOK, SaveState
    <3>2. CASE Foreign(p)
      BY <3>1, <3>2 DEF Foreign, EntriesKept
    <3>3. CASE ~Foreign(p)
      <4>1. entries'[p] = MergeEntries(entries[p], disk.entries, goneFiles[p])
        BY <1>0, <2>2, <3>3 DEF MergeFromDisk, TypeOK
      <4>2. ToWrite(p)'.entries = entries'[p]
        BY <3>1 DEF ToWrite
      <4>3. /\ entries[p] \in [Files -> Entry] /\ disk.entries \in [Files -> Entry]
            /\ \A f \in Files : disk.entries[f].hash = Gone => disk.entries[f] = NoEntry
        BY <1>0 DEF TypeOK, FileData, PlacesPlain, Plain
      <4>4. \A f \in Files \ goneFiles[p] :
              entries'[p][f].hash = disk.entries[f].hash =>
                /\ disk.entries[f].lint \subseteq entries'[p][f].lint
                /\ disk.entries[f].fix \subseteq entries'[p][f].fix
        BY <4>1, <4>3, MergeKeepsPasses
      <4>. QED BY <3>1, <4>2, <4>4 DEF EntriesKept
    <3>. QED BY <3>2, <3>3
  <2>3. CASE Encode(p)
    <3>. DEFINE payload == [key |-> key[p], entries |-> entries[p], verdicts |-> verdicts[p]]
    <3>1. /\ save[p].phase = "encode" /\ key' = key /\ goneFiles' = goneFiles
          /\ save' = [save EXCEPT ![p].phase = "rename", ![p].payload = payload]
      BY <2>3 DEF Encode, mem
    <3>2. /\ save'[p].saw = save[p].saw /\ save'[p].moved = save[p].moved
          /\ save'[p].payload = payload /\ save'[p].phase = "rename"
      <4>. HIDE DEF payload
      <4>. QED BY <1>0, <3>1 DEF TypeOK, SaveState
    <3>3. ToWrite(p) = payload /\ ToWrite(p)' = payload
      BY <3>1, <3>2 DEF ToWrite
    <3>. HIDE DEF payload
    <3>. QED BY <3>1, <3>2, <3>3 DEF EntriesKept
  <2>. QED BY <1>3, <2>1, <2>2, <2>3 DEF Saver
<1>4. ASSUME NEW w \in Workers, Records(w), Run(w), Owner[w] = p PROVE EntriesKept(p)'
  <2>1. /\ save'[p].phase = save[p].phase /\ save'[p].saw = save[p].saw
        /\ save'[p].payload = save[p].payload
    BY <1>0, <1>4, RunLeavesSaves
  <2>2. key' = key /\ goneFiles' = goneFiles
    BY <1>4 DEF Records, RecordFile, RecordVerdict
  <2>3. save[p].moved \subseteq save'[p].moved
    <3>1. \/ save' = save
          \/ save' = [save EXCEPT ![p].moved = @ \cup {job[w].target}]
          \/ save' = [save EXCEPT ![p].moved = @]
      BY <1>4 DEF Records, RecordFile, RecordVerdict
    <3>. QED BY <1>0, <3>1 DEF TypeOK, SaveState
  <2>4. CASE save[p].phase = "rename"
    BY <2>1, <2>2, <2>3, <2>4 DEF EntriesKept, ToWrite
  <2>5. CASE save[p].phase = "encode"
    <3>1. ToWrite(p).entries = entries[p] /\ ToWrite(p)'.entries = entries'[p]
      BY <2>1, <2>5 DEF ToWrite
    <3>2. \A f \in Files : f \notin save'[p].moved =>
            /\ entries'[p][f].hash = entries[p][f].hash
            /\ entries[p][f].lint \subseteq entries'[p][f].lint
            /\ entries[p][f].fix \subseteq entries'[p][f].fix
      BY <1>4, <2>5, RecordKeepsPasses
    <3>. QED BY <2>1, <2>2, <2>3, <3>1, <3>2 DEF EntriesKept
  <2>. QED BY <2>1, <2>4, <2>5 DEF EntriesKept
<1>. QED BY <1>0, <1>1, <1>2, <1>3, <1>4, StepOfProcess

\* What a save under way knows of the file it merged stays true.
THEOREM SavesInvariant == Spec => []SavesInv
<1>1. Init => SavesInv
  <2>. SUFFICES ASSUME Init PROVE SavesInv
    OBVIOUS
  <2>1. PlacesPlain
    BY NothingPlain DEF Init, PlacesPlain, NoFile, NoSave
  <2>2. \A p \in Procs : PruneHeld(p) /\ MergedOwn(p) /\ EntriesKept(p)
    BY DEF Init, PruneHeld, MergedOwn, EntriesKept, NoSave
  <2>. QED BY <2>1, <2>2, InitShape DEF SavesInv
<1>2. SavesInv /\ [Next]_vars => SavesInv'
  <2>. SUFFICES ASSUME SavesInv, [Next]_vars PROVE SavesInv'
    OBVIOUS
  <2>1. ShapeInv'
    BY NextTyped, LoadedKept, ShapeKept DEF SavesInv, ShapeInv
  <2>. QED BY <2>1, PlainKept, PruneKept, MergedOwnKept, EntriesKeptKept DEF SavesInv
<1>. QED BY <1>1, <1>2, PTL DEF Spec

\* What a prune dropped is not in the file that the save of the prune writes
\* (deletedEntries, deletedVerdicts).
THEOREM PruneSticksHolds == Spec => []PruneSticks
<1>1. SavesInv => PruneSticks
  BY DEF SavesInv, PruneHeld, PruneSticks
<1>. QED BY SavesInvariant, <1>1, PTL

\* A session replaces the file of another configuration only if that file appeared
\* while it was saving, or under a key its own reloads retired
\* (SetYieldToForeignKey, SetSupersededKeys).
THEOREM SessionsYieldHolds == Spec => SessionsYield
<1>. DEFINE Step == \A p \in Sessions :
                      (Rename(p) /\ ~save[p].boot /\ Foreign(p) /\ disk.key \notin held[p])
                        => disk.key # save[p].saw.key
<1>1. SavesInv /\ [Next]_vars => [Step]_vars
  BY ExecAssumption DEF SavesInv, MergedOwn, Rename, Foreign
<1>. QED BY SavesInvariant, <1>1, PTL DEF Spec, SessionsYield

\* A save loses a pass of the file it merged only when another process renamed in
\* between, or the process itself holds, or has held since, other bytes for the path,
\* or a tombstone (Save, mergeFromDisk).
THEOREM OnlyRacesLoseHolds == Spec => OnlyRacesLose
<1>. DEFINE Step == \A p \in Procs, f \in Files :
                      LET old == disk.entries[f]
                          new == save[p].payload.entries[f]
                      IN  (Rename(p) /\ disk = save[p].saw /\ disk.key = key[p]
                             /\ f \notin goneFiles[p] \cup save[p].moved
                             /\ new.hash = old.hash)
                            => old.lint \subseteq new.lint /\ old.fix \subseteq new.fix
<1>1. SavesInv => Step
  BY DEF SavesInv, EntriesKept, ToWrite, Rename
<1>2. SavesInv /\ [Next]_vars => [Step]_vars
  BY <1>1
<1>. QED BY SavesInvariant, <1>2, PTL DEF Spec, OnlyRacesLose

(***************************************************************************)
(* A save renews no verdict backwards.                                     *)
(***************************************************************************)

\* Time moves on.
LEMMA ClockAdvances ==
  ASSUME TypeOK, ClockJumps = FALSE, [Next]_vars
  PROVE  clock' >= clock
<1>. clock \in Nat
  BY DEF TypeOK
<1>1. CASE Tick
  BY <1>1 DEF Tick
<1>2. CASE clock' = clock
  BY <1>2
<1>3. CASE Environment
  BY <1>1, <1>2, <1>3 DEF Environment, Edit, EditConfig, ClearProject
<1>4. ASSUME NEW q \in Procs, Lifecycle(q) \/ Saver(q) PROVE clock' = clock
  BY <1>4 DEF Lifecycle, Start, Reload, Shutdown, Exit, Crash, Saver, Flush, SessionSave,
              MergeYield, MergeFromDisk, Encode, Rename, WriteFails
<1>5. ASSUME NEW w \in Workers, Run(w) PROVE clock' = clock
  BY <1>5 DEF Run, Begin, Observe, Handle, Probe, Replay, Spawn, Succeed, Fail, RecordFile,
              RecordVerdict
<1>6. CASE UNCHANGED vars
  BY <1>6 DEF vars
<1>. QED BY <1>2, <1>3, <1>4, <1>5, <1>6 DEF Next

\* No verdict is from the future of the clock.
DatedBy(vs, now) == \A i \in Ids : vs[i].at <= now

\* The merge gives every verdict at least the file's time, unless it is deleted
\* (mergeFromDisk).
LEMMA MergeKeepsTimes ==
  ASSUME NEW vs \in [Ids -> Verdict], NEW dv \in [Ids -> Verdict],
         NEW gone, NEW now \in Nat, DatedBy(dv, now),
         \A i \in Ids : dv[i].inputs = NoInputs => dv[i].at = 0,
         NEW i \in Ids \ gone
  PROVE  MergeVerdicts(vs, dv, gone, now)[i].at >= dv[i].at
<1>1. MergeVerdicts(vs, dv, gone, now)[i] = MergeVerdict(vs[i], dv[i], now)
  BY DEF MergeVerdicts
<1>2. dv[i].at <= now /\ vs[i].at \in Nat /\ dv[i].at \in Nat
  BY DEF DatedBy, Verdict
<1>3. MergeVerdict(vs[i], dv[i], now).at \in Nat
  BY <1>2, MergeVerdictCases
<1>. QED BY <1>1, <1>2, <1>3, MergeVerdictCases

\* ... and none a time to come.
LEMMA MergeDated ==
  ASSUME NEW vs \in [Ids -> Verdict], NEW dv \in [Ids -> Verdict], NEW gone,
         NEW now \in Nat, DatedBy(vs, now), DatedBy(dv, now)
  PROVE  DatedBy(MergeVerdicts(vs, dv, gone, now), now)
<1>. SUFFICES ASSUME NEW i \in Ids PROVE MergeVerdicts(vs, dv, gone, now)[i].at <= now
  BY DEF DatedBy
<1>1. MergeVerdicts(vs, dv, gone, now)[i] \in {vs[i], MergeVerdict(vs[i], dv[i], now)}
  BY DEF MergeVerdicts
<1>2. vs[i].at <= now /\ dv[i].at <= now /\ vs[i].at \in Nat /\ dv[i].at \in Nat
  BY DEF DatedBy, Verdict
<1>3. MergeVerdict(vs[i], dv[i], now).at <= now
  BY <1>2, MergeVerdictCases
<1>. QED BY <1>1, <1>2, <1>3

\* The verdict a run records is of now, and all others keep their time or are dropped
\* with a tombstone (recordVerdict).
LEMMA RecordTimes ==
  ASSUME TypeOK, NEW w \in Workers, Records(w), NEW i \in Ids
  PROVE  \/ verdicts'[Owner[w]][i] = verdicts[Owner[w]][i]
         \/ verdicts'[Owner[w]][i].at = clock
         \/ verdicts'[Owner[w]][i].at = 0 /\ i \in goneIds'[Owner[w]]
<1>. DEFINE j == job[w]
            p == Owner[w]
            pass == [inputs |-> j.after, at |-> clock]
            sibling == <<j.tool, "lint", j.target>>
<1>0. verdicts \in [Procs -> [Ids -> Verdict]] /\ goneIds \in [Procs -> SUBSET Ids]
      /\ p \in Procs
  BY ExecAssumption DEF TypeOK
<1>1. \/ verdicts' = verdicts
      \/ verdicts' = [verdicts EXCEPT ![p][Id(j)] = pass]
      \/ /\ verdicts' = [verdicts EXCEPT ![p][Id(j)] = pass, ![p][sibling] = NoVerdict]
         /\ goneIds' = [goneIds EXCEPT ![p] = @ \cup {sibling}]
  BY DEF Records, RecordFile, RecordVerdict
<1>2. pass.at = clock /\ NoVerdict.at = 0
  BY DEF NoVerdict
<1>. HIDE DEF pass, sibling, p
<1>3. \/ verdicts'[p][i] = verdicts[p][i]
      \/ verdicts'[p][i] = pass
      \/ verdicts'[p][i] = NoVerdict /\ i = sibling /\ sibling \in goneIds'[p]
  BY <1>0, <1>1
<1>. QED BY <1>2, <1>3 DEF p

\* Without clock jumps no place holds a verdict from the future.
LEMMA DatedKept ==
  ASSUME ShapeInv, PlacesDated, ClockJumps = FALSE, [Next]_vars
  PROVE  PlacesDated'
<1>0. TypeOK /\ clock \in Nat
  BY DEF ShapeInv, TypeOK
<1>0a. TypeOK' /\ clock' \in Nat /\ clock' >= clock
  BY <1>0, NextTyped, ClockAdvances DEF TypeOK
<1>1. \A vs \in [Ids -> Verdict] : DatedBy(vs, clock) => DatedBy(vs, clock')
  BY <1>0, <1>0a DEF DatedBy, Verdict
<1>2. DatedBy(NoVerdicts, clock) /\ NoVerdicts \in [Ids -> Verdict]
      /\ NoFile.verdicts = NoVerdicts
  BY <1>0, NothingTyped DEF DatedBy, NoVerdicts, NoVerdict, NoFile
<1>3. /\ DatedBy(disk.verdicts, clock)
      /\ \A p \in Procs : /\ DatedBy(verdicts[p], clock)
                          /\ DatedBy(save[p].saw.verdicts, clock)
                          /\ DatedBy(save[p].payload.verdicts, clock)
  BY DEF PlacesDated, Dated, DatedBy
<1>4. /\ disk.verdicts \in [Ids -> Verdict]
      /\ \A p \in Procs : /\ verdicts[p] \in [Ids -> Verdict]
                          /\ save[p].saw.verdicts \in [Ids -> Verdict]
                          /\ save[p].payload.verdicts \in [Ids -> Verdict]
  BY <1>0 DEF TypeOK, SaveState, FileData
<1>5. ASSUME NEW p \in Procs
      PROVE  /\ DiskMoves /\ PayloadMoves(p)
             /\ MemoryMoves(p) \/ \E w \in Workers : Records(w) /\ Owner[w] = p
  BY RecordsMove
<1>6. DatedBy(disk'.verdicts, clock')
  <2>1. \/ disk' \in {disk, NoFile}
        \/ \E p \in Procs : disk' = save[p].payload
    BY <1>5, DiskWithoutProcs DEF DiskMoves
  <2>. QED BY <1>1, <1>2, <1>3, <1>4, <2>1
<1>7. ASSUME NEW p \in Procs PROVE DatedBy(save'[p].payload.verdicts, clock')
  BY <1>1, <1>2, <1>3, <1>4, <1>5 DEF PayloadMoves
<1>8. ASSUME NEW p \in Procs PROVE DatedBy(save'[p].saw.verdicts, clock')
  <2>1. save'[p].saw \in {save[p].saw, disk, NoFile}
    <3>0. save[p] \in SaveState /\ NoSave.saw = NoFile
      BY <1>0 DEF TypeOK, NoSave
    <3>1. CASE Quiet(p)
      BY <3>1 DEF Quiet
    <3>2. CASE Opens(p)
      <4>1. [NoSave EXCEPT !.phase = "merge", !.boot = TRUE].saw = NoFile
        BY DEF NoSave
      <4>. QED BY <1>0, <3>0, <3>2, <4>1, OpensPruned
    <3>3. CASE Ends(p)
      BY <1>0, <3>0, <3>3 DEF Ends, Exit, Crash, Forgotten, TypeOK
    <3>4. CASE Saver(p)
      <4>1. CASE Flush(p) \/ SessionSave(p)
        BY <1>0, <3>0, <4>1 DEF Flush, SessionSave, TypeOK, SaveState
      <4>2. CASE MergeYield(p) \/ Rename(p) \/ WriteFails(p)
        BY <1>0, <3>0, <4>2 DEF MergeYield, Rename, WriteFails, TypeOK
      <4>3. CASE MergeFromDisk(p)
        BY <1>0, <3>0, <4>3 DEF MergeFromDisk, TypeOK, SaveState
      <4>4. CASE Encode(p)
        BY <1>0, <3>0, <4>4 DEF Encode, TypeOK, SaveState
      <4>. QED BY <3>4, <4>1, <4>2, <4>3, <4>4 DEF Saver
    <3>5. ASSUME NEW w \in Workers, Run(w) PROVE save'[p].saw = save[p].saw
      BY <1>0, <3>5, RunLeavesSaves
    <3>. QED BY <1>0, <3>1, <3>2, <3>3, <3>4, <3>5, StepOfProcess
  <2>. QED BY <1>1, <1>2, <1>3, <1>4, <2>1
<1>9. ASSUME NEW p \in Procs, MemoryMoves(p) PROVE DatedBy(verdicts'[p], clock')
  <2>1. DatedBy(verdicts'[p], clock)
    <3>1. ASSUME NEW vs \in {NoVerdicts, disk.verdicts}, NEW oldV,
                 verdicts'[p] = PruneVerdicts(vs, oldV)
          PROVE  DatedBy(verdicts'[p], clock)
      BY <1>0, <1>2, <1>3, <3>1 DEF DatedBy, PruneVerdicts, NoVerdict
    <3>2. CASE verdicts'[p] = MergeVerdicts(verdicts[p], disk.verdicts, goneIds[p], clock)
      BY <1>0, <1>3, <1>4, <3>2, MergeDated
    <3>3. CASE verdicts'[p] \in {verdicts[p], NoVerdicts}
      BY <1>2, <1>3, <3>3
    <3>. QED BY <1>9, <3>1, <3>2, <3>3 DEF MemoryMoves
  <2>2. verdicts'[p] \in [Ids -> Verdict]
    BY <1>0a DEF TypeOK
  <2>. QED BY <1>1, <2>1, <2>2
<1>10. ASSUME NEW w \in Workers, Records(w) PROVE DatedBy(verdicts'[Owner[w]], clock')
  <2>1. Owner[w] \in Procs
    BY ExecAssumption
  <2>2. \A i \in Ids : verdicts'[Owner[w]][i].at <= clock
    BY <1>0, <1>3, <1>10, <2>1, RecordTimes DEF DatedBy
  <2>3. verdicts'[Owner[w]] \in [Ids -> Verdict]
    BY <1>0a, <2>1 DEF TypeOK
  <2>. QED BY <1>1, <2>2, <2>3 DEF DatedBy
<1>11. ASSUME NEW p \in Procs PROVE DatedBy(verdicts'[p], clock')
  BY <1>5, <1>9, <1>10
<1>. QED BY <1>6, <1>7, <1>8, <1>11 DEF PlacesDated, Dated, DatedBy

\* Past the merge, no verdict the save will write is older than the merged file's.
LEMMA VerdictsKeptKept ==
  ASSUME ShapeInv, PlacesPlain, PlacesDated, NEW p \in Procs, VerdictsKept(p), [Next]_vars
  PROVE  VerdictsKept(p)'
<1>0. TypeOK /\ save[p] \in SaveState /\ clock \in Nat
  BY DEF ShapeInv, TypeOK
<1>1. CASE Quiet(p)
  BY <1>1 DEF Quiet, VerdictsKept, ToWrite
<1>2. CASE Opens(p) \/ Ends(p)
  <2>1. save'[p].phase \in {"idle", "merge"}
    BY <1>0, <1>2, OpensPruned DEF Ends, Exit, Crash, Forgotten, NoSave, TypeOK
  <2>. QED BY <2>1 DEF VerdictsKept
<1>3. CASE Saver(p)
  <2>1. CASE Flush(p) \/ SessionSave(p) \/ MergeYield(p) \/ Rename(p) \/ WriteFails(p)
    <3>1. save'[p].phase \in {"idle", "merge"}
      BY <1>0, <2>1 DEF Flush, SessionSave, MergeYield, Rename, WriteFails, NoSave, TypeOK, SaveState
    <3>. QED BY <3>1 DEF VerdictsKept
  <2>2. CASE MergeFromDisk(p)
    <3>1. /\ save'[p].saw = disk /\ save'[p].phase = "encode"
          /\ key' = key /\ goneIds' = goneIds
      BY <1>0, <2>2 DEF MergeFromDisk, TypeOK, SaveState
    <3>2. CASE Foreign(p)
      <4>1. disk.key # key[p]
        BY <3>2 DEF Foreign
      <4>. QED BY <3>1, <4>1 DEF VerdictsKept
    <3>3. CASE ~Foreign(p)
      <4>1. verdicts'[p] = MergeVerdicts(verdicts[p], disk.verdicts, goneIds[p], clock)
        BY <1>0, <2>2, <3>3 DEF MergeFromDisk, TypeOK
      <4>2. ToWrite(p)'.verdicts = verdicts'[p]
        BY <3>1 DEF ToWrite
      <4>3. /\ verdicts[p] \in [Ids -> Verdict] /\ disk.verdicts \in [Ids -> Verdict]
            /\ DatedBy(disk.verdicts, clock)
            /\ \A i \in Ids : disk.verdicts[i].inputs = NoInputs => disk.verdicts[i].at = 0
        BY <1>0 DEF TypeOK, FileData, PlacesPlain, Plain, PlacesDated, Dated, DatedBy
      <4>4. \A i \in Ids \ goneIds[p] : verdicts'[p][i].at >= disk.verdicts[i].at
        BY <1>0, <4>1, <4>3, MergeKeepsTimes
      <4>. QED BY <3>1, <4>2, <4>4 DEF VerdictsKept
    <3>. QED BY <3>2, <3>3
  <2>3. CASE Encode(p)
    <3>. DEFINE payload == [key |-> key[p], entries |-> entries[p], verdicts |-> verdicts[p]]
    <3>1. /\ save[p].phase = "encode" /\ key' = key /\ goneIds' = goneIds
          /\ save' = [save EXCEPT ![p].phase = "rename", ![p].payload = payload]
      BY <2>3 DEF Encode, mem
    <3>2. /\ save'[p].saw = save[p].saw
          /\ save'[p].payload = payload /\ save'[p].phase = "rename"
      <4>. HIDE DEF payload
      <4>. QED BY <1>0, <3>1 DEF TypeOK, SaveState
    <3>3. ToWrite(p) = payload /\ ToWrite(p)' = payload
      BY <3>1, <3>2 DEF ToWrite
    <3>. HIDE DEF payload
    <3>. QED BY <3>1, <3>2, <3>3 DEF VerdictsKept
  <2>. QED BY <1>3, <2>1, <2>2, <2>3 DEF Saver
<1>4. ASSUME NEW w \in Workers, Records(w), Run(w), Owner[w] = p PROVE VerdictsKept(p)'
  <2>1. /\ save'[p].phase = save[p].phase /\ save'[p].saw = save[p].saw
        /\ save'[p].payload = save[p].payload
    BY <1>0, <1>4, RunLeavesSaves
  <2>2. key' = key
    BY <1>4 DEF Records, RecordFile, RecordVerdict
  <2>3. goneIds[p] \subseteq goneIds'[p]
    <3>1. \/ goneIds' = goneIds
          \/ goneIds' = [goneIds EXCEPT ![p] = @ \cup {<<job[w].tool, "lint", job[w].target>>}]
      BY <1>4 DEF Records, RecordFile, RecordVerdict
    <3>. QED BY <1>0, <3>1 DEF TypeOK
  <2>4. CASE save[p].phase = "rename"
    BY <2>1, <2>2, <2>3, <2>4 DEF VerdictsKept, ToWrite
  <2>5. CASE save[p].phase = "encode"
    <3>1. ToWrite(p).verdicts = verdicts[p] /\ ToWrite(p)'.verdicts = verdicts'[p]
      BY <2>1, <2>5 DEF ToWrite
    <3>2. \A i \in Ids \ goneIds'[p] : \/ verdicts'[p][i] = verdicts[p][i]
                                       \/ verdicts'[p][i].at = clock
      BY <1>0, <1>4, RecordTimes
    <3>3. \A i \in Ids : save[p].saw.verdicts[i].at <= clock
                         /\ save[p].saw.verdicts[i].at \in Nat
      BY <1>0 DEF PlacesDated, Dated, SaveState, FileData, Verdict
    <3>4. ASSUME save[p].saw.key = key[p], NEW i \in Ids \ goneIds'[p]
          PROVE  verdicts'[p][i].at >= save[p].saw.verdicts[i].at
      <4>1. CASE verdicts'[p][i] = verdicts[p][i]
        BY <2>3, <2>5, <3>1, <3>4, <4>1 DEF VerdictsKept
      <4>2. CASE verdicts'[p][i].at = clock
        BY <1>0, <3>3, <4>2
      <4>. QED BY <3>2, <4>1, <4>2
    <3>. QED BY <2>1, <2>2, <3>1, <3>4 DEF VerdictsKept
  <2>. QED BY <2>1, <2>4, <2>5 DEF VerdictsKept
<1>. QED BY <1>0, <1>1, <1>2, <1>3, <1>4, StepOfProcess

\* With a clock that is never set back, a save replaces no validation by an older one
\* unless another process renamed since the merge, or the verdict was deleted
\* (mergeFromDisk, AfterVerdict).
THEOREM VerdictsOnlyRenewedHolds ==
  ASSUME ClockJumps = FALSE PROVE Spec => VerdictsOnlyRenewed
<1>. DEFINE Step == \A p \in Procs, i \in Ids :
                      (Rename(p) /\ disk = save[p].saw /\ disk.key = key[p]
                         /\ i \notin goneIds[p])
                        => save[p].payload.verdicts[i].at >= disk.verdicts[i].at
<1>1. Init => RenewInv
  <2>. SUFFICES ASSUME Init PROVE RenewInv
    OBVIOUS
  <2>1. PlacesPlain
    BY NothingPlain DEF Init, PlacesPlain, NoFile, NoSave
  <2>2. PlacesDated
    BY DEF Init, PlacesDated, Dated, NoFile, NoSave, NoVerdicts, NoVerdict
  <2>3. \A p \in Procs : VerdictsKept(p)
    BY DEF Init, VerdictsKept, NoSave
  <2>. QED BY <2>1, <2>2, <2>3, InitShape DEF RenewInv
<1>2. RenewInv /\ [Next]_vars => RenewInv'
  <2>. SUFFICES ASSUME RenewInv, [Next]_vars PROVE RenewInv'
    OBVIOUS
  <2>1. ShapeInv'
    BY NextTyped, LoadedKept, ShapeKept DEF RenewInv, ShapeInv
  <2>. QED BY <2>1, PlainKept, DatedKept, VerdictsKeptKept DEF RenewInv
<1>3. RenewInv => Step
  BY DEF RenewInv, VerdictsKept, ToWrite, Rename
<1>4. RenewInv /\ [Next]_vars => [Step]_vars
  BY <1>3
<1>. QED BY <1>1, <1>2, <1>4, PTL DEF Spec, VerdictsOnlyRenewed
=============================================================================
