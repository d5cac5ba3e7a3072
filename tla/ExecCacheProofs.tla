-------------------------- MODULE ExecCacheProofs --------------------------
(***************************************************************************)
(* Theorems about ExecCache: its types; the truth of every pass of a lint  *)
(* and of a fix it records; and that it implements the ledger of           *)
(* PassLedger.  Records only move, merge and vanish, but for the one a     *)
(* tool run adds (RecordsMove); so it is enough that merging and pruning   *)
(* keep them true, and that what a run adds is.                            *)
(***************************************************************************)
EXTENDS ExecCache, TLAPS

(***************************************************************************)
(* The operations on entries and verdicts stay within their types.         *)
(***************************************************************************)

\* The initial records are records.
LEMMA NothingTyped ==
  /\ NoEntry \in Entry /\ NoVerdict \in Verdict
  /\ NoEntries \in [Files -> Entry] /\ NoVerdicts \in [Ids -> Verdict]
  /\ NoFile \in FileData /\ NoSave \in SaveState
  /\ NoInputs \in Observations /\ NoJob \in JobState
<1>1. NoEntry \in Entry /\ NoEntries \in [Files -> Entry]
  BY DEF NoEntry, NoEntries, Entry, Bytes
<1>2. NoVerdict \in Verdict /\ NoVerdicts \in [Ids -> Verdict]
  BY DEF NoVerdict, NoVerdicts, Verdict
<1>3. NoFile \in FileData
  BY <1>1, <1>2 DEF NoFile, FileData
<1>4. NoSave \in SaveState
  BY <1>3 DEF NoSave, SaveState
<1>5. NoInputs \in Observations
  <2>1. NoInputs \in [{} -> Bytes]
    BY DEF NoInputs
  <2>. QED BY <2>1 DEF Observations
<1>6. NoJob \in JobState
  BY <1>5 DEF NoJob, JobState, Ops
<1>. QED BY <1>1, <1>2, <1>3, <1>4, <1>5, <1>6

\* Recording a pass yields an entry (AfterLint, AfterFix).
LEMMA RecordTyped ==
  ASSUME NEW e \in Entry, NEW pass \in Passes, NEW h \in Bytes
  PROVE  EntryAfterLint(e, pass, h) \in Entry /\ EntryAfterFix(e, pass, h) \in Entry
BY DEF Entry, EntryAfterLint, EntryAfterFix

\* Merging two entries yields an entry (mergeFromDisk).
LEMMA MergeTyped ==
  ASSUME NEW ours \in [Files -> Entry], NEW theirs \in [Files -> Entry], NEW gone
  PROVE  MergeEntries(ours, theirs, gone) \in [Files -> Entry]
<1>1. ASSUME NEW e \in Entry, NEW d \in Entry PROVE MergeEntry(e, d) \in Entry
  BY NothingTyped DEF MergeEntry, Entry
<1>. QED BY <1>1 DEF MergeEntries

\* Merging two verdicts yields a verdict (mergeFromDisk).
LEMMA MergeVerdictTyped ==
  ASSUME NEW ours \in [Ids -> Verdict], NEW theirs \in [Ids -> Verdict], NEW gone,
         NEW now \in Nat
  PROVE  MergeVerdicts(ours, theirs, gone, now) \in [Ids -> Verdict]
<1>1. ASSUME NEW v \in Verdict, NEW d \in Verdict PROVE MergeVerdict(v, d, now) \in Verdict
  <2>1. [d EXCEPT !.at = IF @ > now THEN now ELSE @] \in Verdict
    BY DEF Verdict
  <2>. QED BY <2>1 DEF MergeVerdict
<1>. QED BY <1>1 DEF MergeVerdicts

\* Pruning yields entries and verdicts.
LEMMA PruneTyped ==
  ASSUME NEW es \in [Files -> Entry], NEW vs \in [Ids -> Verdict], NEW stale
  PROVE  /\ PruneEntries(es, stale) \in [Files -> Entry]
         /\ PruneVerdicts(vs, stale) \in [Ids -> Verdict]
BY NothingTyped DEF PruneEntries, PruneVerdicts

\* One more path observed.
LEMMA ExtendTyped ==
  ASSUME NEW o \in Observations, NEW x \in Paths, NEW b \in Bytes
  PROVE  /\ Extend(o, x, b) \in Observations
         /\ DOMAIN Extend(o, x, b) = DOMAIN o \cup {x}
         /\ Extend(o, x, b)[x] = b
         /\ \A y \in DOMAIN o \ {x} : Extend(o, x, b)[y] = o[y]
<1>1. PICK S \in SUBSET Paths : o \in [S -> Bytes]
  BY DEF Observations
<1>2. Extend(o, x, b) \in [S \cup {x} -> Bytes]
  BY <1>1 DEF Extend
<1>. QED BY <1>1, <1>2 DEF Extend, Observations

(***************************************************************************)
(* Type correctness.                                                       *)
(***************************************************************************)

\* What Scope and Turn can name.
LEMMA ScopePaths ==
  ASSUME NEW j \in JobState, j.target # None
  PROVE  Scope(j) \subseteq Paths
BY CacheAssumption DEF Scope, InputsOf, Paths, JobState

\* The snapshots of a finished probe are what a verdict may hold.
LEMMA InputsTyped ==
  ASSUME NEW u \in Units, NEW o \in Observations, DOMAIN o = InputsOf(u)
  PROVE  o \in Vectors
<1>1. o \in [DOMAIN o -> Bytes]
  BY DEF Observations
<1>. QED BY <1>1 DEF Vectors

\* The initial state is well typed.
LEMMA InitTyped == Init => TypeOK
<1>. SUFFICES ASSUME Init PROVE TypeOK
  OBVIOUS
<1>1. content \in [Paths -> Bytes] /\ config \in Keys /\ clock \in Nat
  BY DEF Init, Bytes
<1>2. disk \in FileData /\ entries \in [Procs -> [Files -> Entry]]
      /\ verdicts \in [Procs -> [Ids -> Verdict]] /\ save \in [Procs -> SaveState]
      /\ job \in [Workers -> JobState]
  BY NothingTyped DEF Init
<1>3. spent \in [Counters -> Nat]
  BY DEF Init
<1>. QED BY <1>1, <1>2, <1>3 DEF Init, TypeOK

\* Opening the cache.
LEMMA OpenTyped ==
  ASSUME TypeOK, NEW p \in Procs, NEW prune \in BOOLEAN, Open(p, prune)
  PROVE  /\ key' \in [Procs -> Keys \cup {None}]
         /\ entries' \in [Procs -> [Files -> Entry]]
         /\ verdicts' \in [Procs -> [Ids -> Verdict]]
         /\ goneFiles' \in [Procs -> SUBSET Files]
         /\ goneIds' \in [Procs -> SUBSET Ids]
         /\ life' \in [Procs -> {"down", "up", "exiting", "reloading"}]
         /\ dirty' \in [Procs -> BOOLEAN]
         /\ unsaved' \in [Procs -> BOOLEAN]
         /\ save' \in [Procs -> SaveState]
<1>. DEFINE ours == disk.key = config
            es   == IF ours THEN disk.entries ELSE NoEntries
            vs   == IF ours THEN disk.verdicts ELSE NoVerdicts
            oldE == IF prune THEN StaleEntries(es, content) ELSE {}
            oldV == IF prune THEN StaleVerdicts(vs, clock) ELSE {}
<1>1. es \in [Files -> Entry] /\ vs \in [Ids -> Verdict]
  BY NothingTyped DEF TypeOK, FileData
<1>2. oldE \subseteq Files /\ oldV \subseteq Ids
  BY DEF StaleEntries, StaleVerdicts
<1>3. PruneEntries(es, oldE) \in [Files -> Entry] /\ PruneVerdicts(vs, oldV) \in [Ids -> Verdict]
  BY <1>1, PruneTyped
<1>4. [NoSave EXCEPT !.phase = "merge", !.boot = TRUE] \in SaveState
  BY NothingTyped DEF SaveState
<1>5. entries' = [entries EXCEPT ![p] = PruneEntries(es, oldE)]
      /\ verdicts' = [verdicts EXCEPT ![p] = PruneVerdicts(vs, oldV)]
      /\ goneFiles' = [goneFiles EXCEPT ![p] = oldE]
      /\ goneIds' = [goneIds EXCEPT ![p] = oldV]
      /\ key' = [key EXCEPT ![p] = config]
      /\ life' = [life EXCEPT ![p] = "up"]
      /\ dirty' = [dirty EXCEPT ![p] = FALSE]
      /\ unsaved' = [unsaved EXCEPT ![p] = FALSE]
      /\ save' = [save EXCEPT ![p] =
                    IF prune THEN [NoSave EXCEPT !.phase = "merge", !.boot = TRUE]
                             ELSE NoSave]
  BY DEF Open
<1>. HIDE DEF ours, es, vs, oldE, oldV
<1>. QED BY <1>2, <1>3, <1>4, <1>5, NothingTyped DEF TypeOK

\* Counting an event.
LEMMA SpendTyped ==
  ASSUME TypeOK,
         NEW b \in {"edits", "configs", "failures", "ticks", "clears", "opens", "lint", "fix"},
         Spend(b)
  PROVE  spent' \in [Counters -> Nat]
BY DEF TypeOK, Spend, Counters

\* Losing everything in memory.
LEMMA ForgottenTyped ==
  ASSUME TypeOK, NEW p \in Procs, Forgotten(p)
  PROVE  /\ key' \in [Procs -> Keys \cup {None}]
         /\ held' \in [Procs -> SUBSET Keys]
         /\ entries' \in [Procs -> [Files -> Entry]]
         /\ verdicts' \in [Procs -> [Ids -> Verdict]]
         /\ goneFiles' \in [Procs -> SUBSET Files]
         /\ goneIds' \in [Procs -> SUBSET Ids]
         /\ life' \in [Procs -> {"down", "up", "exiting", "reloading"}]
         /\ dirty' \in [Procs -> BOOLEAN]
         /\ unsaved' \in [Procs -> BOOLEAN]
         /\ save' \in [Procs -> SaveState]
BY NothingTyped DEF Forgotten, TypeOK

\* A step of the environment keeps the types.
LEMMA EnvironmentTyped == TypeOK /\ Environment => TypeOK'
<1>. SUFFICES ASSUME TypeOK, Environment PROVE TypeOK'
  OBVIOUS
<1>1. CASE \E x \in Paths, b \in Bytes : Edit(x, b)
  BY <1>1, SpendTyped DEF Edit, mem, TypeOK
<1>2. CASE \E k \in Keys : EditConfig(k)
  BY <1>2, SpendTyped DEF EditConfig, mem, TypeOK
<1>3. CASE Tick
  <2>1. clock' \in Nat
    BY <1>3 DEF Tick, TypeOK
  <2>. QED BY <1>3, <2>1, SpendTyped DEF Tick, mem, TypeOK
<1>4. CASE ClearProject
  BY <1>4, SpendTyped, NothingTyped DEF ClearProject, mem, TypeOK
<1>. QED BY <1>1, <1>2, <1>3, <1>4 DEF Environment

\* Opening, closing, reloading and dying keep the types.
LEMMA LifecycleTyped ==
  ASSUME TypeOK, Loaded, NEW p \in Procs, Lifecycle(p)
  PROVE  TypeOK'
<1>1. CASE \E prune \in BOOLEAN : Start(p, prune)
  <2>1. PICK prune \in BOOLEAN : Start(p, prune)
    BY <1>1
  <2>2. held' \in [Procs -> SUBSET Keys]
    BY <2>1 DEF Start, TypeOK
  <2>. QED BY <2>1, <2>2, OpenTyped, SpendTyped DEF Start, TypeOK
<1>2. CASE \E prune \in BOOLEAN : Reload(p, prune)
  <2>1. PICK prune \in BOOLEAN : Reload(p, prune)
    BY <1>2
  <2>2. key[p] \in Keys
    BY <2>1 DEF Reload, Loaded
  <2>3. held' \in [Procs -> SUBSET Keys]
    BY <2>1, <2>2 DEF Reload, TypeOK
  <2>. QED BY <2>1, <2>3, OpenTyped, SpendTyped DEF Reload, TypeOK
<1>3. CASE \E why \in {"exiting", "reloading"} : Shutdown(p, why)
  BY <1>3 DEF Shutdown, mem, TypeOK
<1>4. CASE Exit(p)
  BY <1>4, ForgottenTyped DEF Exit, TypeOK
<1>5. CASE Crash(p)
  <2>1. job' \in [Workers -> JobState]
    BY <1>5, NothingTyped DEF Crash, TypeOK
  <2>. QED BY <1>5, <2>1, ForgottenTyped, SpendTyped DEF Crash, TypeOK
<1>. QED BY <1>1, <1>2, <1>3, <1>4, <1>5 DEF Lifecycle

\* A save keeps the types.
LEMMA SaverTyped ==
  ASSUME TypeOK, NEW p \in Procs, Saver(p)
  PROVE  TypeOK'
<1>0. save[p] \in SaveState /\ disk \in FileData
  BY DEF TypeOK
<1>1. CASE Flush(p)
  <2>1. save' \in [Procs -> SaveState]
    BY <1>1 DEF Flush, TypeOK, SaveState
  <2>. QED BY <1>1, <2>1 DEF Flush, mem, TypeOK
<1>2. CASE SessionSave(p)
  <2>1. save' \in [Procs -> SaveState]
    BY <1>2 DEF SessionSave, TypeOK, SaveState
  <2>. QED BY <1>2, <2>1 DEF SessionSave, mem, TypeOK
<1>3. CASE MergeYield(p)
  BY <1>3, NothingTyped DEF MergeYield, mem, TypeOK
<1>4. CASE MergeFromDisk(p)
  <2>1. save' \in [Procs -> SaveState]
    <3>1. [save[p] EXCEPT !.phase = "encode", !.saw = disk] \in SaveState
      BY <1>0 DEF SaveState
    <3>2. save' = [save EXCEPT ![p] = [save[p] EXCEPT !.phase = "encode", !.saw = disk]]
      BY <1>4 DEF MergeFromDisk, TypeOK
    <3>. QED BY <3>1, <3>2 DEF TypeOK
  <2>2. entries' \in [Procs -> [Files -> Entry]]
    <3>1. MergeEntries(entries[p], disk.entries, goneFiles[p]) \in [Files -> Entry]
      BY MergeTyped DEF TypeOK, FileData
    <3>. QED BY <1>4, <3>1 DEF MergeFromDisk, TypeOK
  <2>3. verdicts' \in [Procs -> [Ids -> Verdict]]
    <3>1. MergeVerdicts(verdicts[p], disk.verdicts, goneIds[p], clock) \in [Ids -> Verdict]
      BY MergeVerdictTyped DEF TypeOK, FileData
    <3>. QED BY <1>4, <3>1 DEF MergeFromDisk, TypeOK
  <2>. QED BY <1>4, <2>1, <2>2, <2>3 DEF MergeFromDisk, TypeOK
<1>5. CASE Encode(p)
  <2>. DEFINE payload == [key |-> key[p], entries |-> entries[p], verdicts |-> verdicts[p]]
  <2>1. payload \in FileData
    BY DEF TypeOK, FileData
  <2>2. [save[p] EXCEPT !.phase = "rename", !.payload = payload] \in SaveState
    BY <1>0, <2>1 DEF SaveState
  <2>3. save' = [save EXCEPT ![p] = [save[p] EXCEPT !.phase = "rename", !.payload = payload]]
    BY <1>5 DEF Encode, TypeOK
  <2>4. save' \in [Procs -> SaveState]
    BY <2>2, <2>3 DEF TypeOK
  <2>. QED BY <1>5, <2>4 DEF Encode, mem, TypeOK
<1>6. CASE Rename(p)
  <2>1. save[p].payload \in FileData
    BY <1>0 DEF SaveState
  <2>. QED BY <1>6, <2>1, NothingTyped DEF Rename, mem, TypeOK
<1>7. CASE WriteFails(p)
  BY <1>7, NothingTyped, SpendTyped DEF WriteFails, mem, TypeOK
<1>. QED BY <1>1, <1>2, <1>3, <1>4, <1>5, <1>6, <1>7 DEF Saver

\* One field of a job changes.
LEMMA JobTyped ==
  ASSUME NEW j \in JobState, NEW ph \in {"idle", "observe", "run", "probe"},
         NEW o \in Observations
  PROVE  /\ [j EXCEPT !.phase = ph] \in JobState
         /\ [j EXCEPT !.seen = o] \in JobState
         /\ [j EXCEPT !.read = o] \in JobState
         /\ [j EXCEPT !.after = o] \in JobState
BY DEF JobState

\* Recording keeps the types (updateCacheAfterSuccess, recordVerdict).
LEMMA RecordStepTyped ==
  ASSUME TypeOK, NEW w \in Workers, JobShape(w), RecordFile(w) \/ RecordVerdict(w)
  PROVE  TypeOK'
<1>. DEFINE j == job[w]
            p == Owner[w]
<1>0. job' = [job EXCEPT ![w] = NoJob]
  BY DEF RecordFile, RecordVerdict
<1>1. p \in Procs /\ j \in JobState /\ job' \in [Workers -> JobState]
  BY <1>0, NothingTyped, ExecAssumption DEF TypeOK
<1>2. CASE RecordFile(w)
  <2>. DEFINE f == j.target
              e == entries[p][f]
  <2>1. f \in Files /\ j.tool \in Tools /\ DOMAIN j.seen = Scope(j) /\ DOMAIN j.after = Scope(j)
    BY <1>2 DEF RecordFile, Probed, JobShape
  <2>2. Scope(j) = {f, Conf}
    BY <2>1, CacheAssumption DEF Scope
  <2>3. j.seen[Conf] \in Bytes /\ j.seen[f] \in Bytes /\ j.after[f] \in Bytes
    BY <1>1, <2>1, <2>2 DEF JobState, Observations
  <2>4. Pass(j) \in Passes /\ e \in Entry
    BY <1>1, <2>1, <2>3 DEF Pass, Passes, TypeOK
  <2>5. /\ EntryAfterLint(e, Pass(j), j.seen[f]) \in Entry
        /\ EntryAfterFix(e, Pass(j), j.after[f]) \in Entry
    BY <2>3, <2>4, RecordTyped
  <2>6. entries' \in [Procs -> [Files -> Entry]]
    <3>1. CASE j.after[Conf] # j.seen[Conf]
      BY <1>2, <3>1 DEF RecordFile, TypeOK
    <3>2. CASE j.after[Conf] = j.seen[Conf]
      <4>1. PICK new \in Entry : entries' = [entries EXCEPT ![p][f] = new]
        <5>. DEFINE new == CASE j.op = "lint" /\ j.after[f] = j.seen[f] /\ j.seen[f] # Gone
                                 -> EntryAfterLint(e, Pass(j), j.seen[f])
                            [] j.op = "fix" /\ j.after[f] # Gone
                                 -> EntryAfterFix(e, Pass(j), j.after[f])
                            [] OTHER -> e
        <5>1. entries' = [entries EXCEPT ![p][f] = new]
          BY <1>2, <3>2 DEF RecordFile
        <5>2. new \in Entry
          BY <2>4, <2>5
        <5>. QED BY <5>1, <5>2
      <4>. QED BY <4>1, <1>1, <2>1 DEF TypeOK
    <3>. QED BY <3>1, <3>2
  <2>7. dirty' \in [Procs -> BOOLEAN] /\ unsaved' \in [Procs -> BOOLEAN]
    BY <1>2 DEF RecordFile, MarkDirty, TypeOK
  <2>8. save' \in [Procs -> SaveState]
    <3>1. CASE save' = save
      BY <3>1 DEF TypeOK
    <3>2. PICK more \in {{}, {f}} :
            save' # save => save' = [save EXCEPT ![p].moved = @ \cup more]
      BY <1>2, <2>1 DEF RecordFile
    <3>3. [save[p] EXCEPT !.moved = @ \cup more] \in SaveState
      <4>1. save[p] \in SaveState /\ more \subseteq Files
        BY <1>1, <2>1 DEF TypeOK
      <4>2. save[p].moved \cup more \in SUBSET Files
        BY <4>1 DEF SaveState
      <4>. QED BY <4>1, <4>2 DEF SaveState
    <3>. QED BY <1>1, <3>1, <3>2, <3>3 DEF TypeOK
  <2>. QED BY <1>1, <1>2, <2>6, <2>7, <2>8 DEF RecordFile, TypeOK
<1>3. CASE RecordVerdict(w)
  <2>. DEFINE sibling == <<j.tool, "lint", j.target>>
              pass == [inputs |-> j.after, at |-> clock]
  <2>1. j.target \in Units /\ j.tool \in Tools /\ DOMAIN j.after = InputsOf(j.target)
    BY <1>3 DEF RecordVerdict, Probed, JobShape, Scope
  <2>2. Id(j) \in Ids /\ sibling \in Ids
    BY <1>1, <2>1 DEF Id, Ids, Ops, JobState
  <2>3. j.after \in Vectors
    BY <1>1, <2>1, InputsTyped DEF JobState
  <2>4. pass \in Verdict
    BY <2>3 DEF Verdict, TypeOK
  <2>5. verdicts' \in [Procs -> [Ids -> Verdict]]
    <3>. USE DEF TypeOK
    <3>1. CASE verdicts' = verdicts
      BY <3>1
    <3>2. CASE verdicts' = [verdicts EXCEPT ![p][Id(j)] = pass]
      BY <3>2, <2>4
    <3>3. CASE verdicts' = [verdicts EXCEPT ![p][Id(j)] = pass, ![p][sibling] = NoVerdict]
      <4>1. [verdicts EXCEPT ![p][Id(j)] = pass] \in [Procs -> [Ids -> Verdict]]
        BY <2>4
      <4>. QED BY <3>3, <4>1, NothingTyped
    <3>. QED BY <1>3, <3>1, <3>2, <3>3 DEF RecordVerdict
  <2>6. goneIds' \in [Procs -> SUBSET Ids]
    <3>1. goneIds' = goneIds \/ goneIds' = [goneIds EXCEPT ![p] = @ \cup {sibling}]
      BY <1>3 DEF RecordVerdict
    <3>2. goneIds[p] \cup {sibling} \in SUBSET Ids
      BY <1>1, <2>2 DEF TypeOK
    <3>. HIDE DEF sibling
    <3>. QED BY <3>1, <3>2 DEF TypeOK
  <2>7. dirty' \in [Procs -> BOOLEAN] /\ unsaved' \in [Procs -> BOOLEAN]
    BY <1>3 DEF RecordVerdict, MarkDirty, TypeOK
  <2>. QED BY <1>1, <1>3, <2>5, <2>6, <2>7 DEF RecordVerdict, TypeOK
<1>. QED BY <1>2, <1>3

\* What a tool writes is content (Handle).
LEMMA HandleTyped ==
  ASSUME TypeOK, Loaded, NEW w \in Workers, JobShape(w), NEW x \in Paths, Handle(w, x)
  PROVE  content' \in [Paths -> Bytes] /\ job' \in [Workers -> JobState]
<1>. DEFINE j == job[w]
            p == Owner[w]
            b == IF j.op = "fix" /\ x # Conf /\ content[x] # Gone
                 THEN Fixed(key[p], j.tool, j.read[Conf], content[x]) ELSE content[x]
<1>1. j \in JobState /\ p \in Procs /\ key[p] \in Keys /\ j.tool \in Tools
  BY ExecAssumption DEF TypeOK, Handle, JobShape, Loaded
<1>2. x # Conf => j.read[Conf] \in Bytes
  BY <1>1 DEF Handle, JobState, Observations
<1>3. b \in Bytes
  BY <1>1, <1>2, CacheAssumption DEF Bytes, TypeOK
<1>4. Extend(j.read, x, b) \in Observations
  BY <1>1, <1>3, ExtendTyped DEF JobState
<1>5. [j EXCEPT !.read = Extend(j.read, x, b)] \in JobState
  BY <1>1, <1>4, JobTyped
<1>6. /\ content' = [content EXCEPT ![x] = b]
      /\ job' = [job EXCEPT ![w] = [j EXCEPT !.read = Extend(j.read, x, b)]]
  BY DEF Handle, TypeOK
<1>. HIDE DEF b
<1>. QED BY <1>3, <1>5, <1>6 DEF TypeOK

\* A step of a worker keeps the types.
LEMMA RunTyped ==
  ASSUME ShapeInv, NEW w \in Workers, Run(w)
  PROVE  TypeOK'
<1>. DEFINE j == job[w]
<1>0. TypeOK /\ Loaded /\ JobShape(w) /\ j \in JobState
  BY DEF ShapeInv, TypeOK
<1>1. CASE \E task \in Tasks, handed \in SUBSET Files : Begin(w, task, handed)
  <2>1. PICK task \in Tasks, handed \in SUBSET Files : Begin(w, task, handed)
    BY <1>1
  <2>2. task[1] \in Tools /\ task[2] \in Ops /\ task[3] \in Files \cup Units
    BY ExecAssumption
  <2>3. [NoJob EXCEPT !.phase = "observe", !.tool = task[1], !.op = task[2],
                      !.target = task[3], !.handed = handed] \in JobState
    BY <2>2, NothingTyped DEF JobState
  <2>4. job' \in [Workers -> JobState]
    BY <1>0, <2>1, <2>3 DEF Begin, TypeOK
  <2>5. spent' \in [Counters -> Nat]
    BY <1>0, <2>1, <2>2, SpendTyped DEF Begin, Ops
  <2>. QED BY <1>0, <2>1, <2>4, <2>5 DEF Begin, mem, TypeOK
<1>2. CASE \E x \in Paths : Observe(w, x)
  <2>1. PICK x \in Paths : Observe(w, x)
    BY <1>2
  <2>2. [j EXCEPT !.seen = Extend(j.seen, x, content[x])] \in JobState
    <3>1. j.seen \in Observations /\ content[x] \in Bytes
      BY <1>0 DEF TypeOK, JobState
    <3>2. Extend(j.seen, x, content[x]) \in Observations
      BY <3>1, ExtendTyped
    <3>. QED BY <1>0, <3>2, JobTyped
  <2>3. job' = [job EXCEPT ![w] = [j EXCEPT !.seen = Extend(j.seen, x, content[x])]]
    BY <1>0, <2>1 DEF Observe, TypeOK
  <2>4. job' \in [Workers -> JobState]
    BY <1>0, <2>2, <2>3 DEF TypeOK
  <2>. QED BY <1>0, <2>1, <2>4 DEF Observe, mem, TypeOK
<1>3. CASE \E x \in Paths : Handle(w, x)
  <2>1. PICK x \in Paths : Handle(w, x)
    BY <1>3
  <2>2. content' \in [Paths -> Bytes] /\ job' \in [Workers -> JobState]
    BY <1>0, <2>1, HandleTyped
  <2>3. UNCHANGED <<config, clock, disk, life, mem, dirty, save, unsaved, spent>>
    BY <2>1 DEF Handle
  <2>. QED BY <1>0, <2>2, <2>3 DEF mem, TypeOK
<1>4. CASE \E x \in Paths : Probe(w, x)
  <2>1. PICK x \in Paths : Probe(w, x)
    BY <1>4
  <2>2. [j EXCEPT !.after = Extend(j.after, x, content[x])] \in JobState
    <3>1. j.after \in Observations /\ content[x] \in Bytes
      BY <1>0 DEF TypeOK, JobState
    <3>2. Extend(j.after, x, content[x]) \in Observations
      BY <3>1, ExtendTyped
    <3>. QED BY <1>0, <3>2, JobTyped
  <2>3. job' = [job EXCEPT ![w] = [j EXCEPT !.after = Extend(j.after, x, content[x])]]
    BY <1>0, <2>1 DEF Probe, TypeOK
  <2>4. job' \in [Workers -> JobState]
    BY <1>0, <2>2, <2>3 DEF TypeOK
  <2>. QED BY <1>0, <2>1, <2>4 DEF Probe, mem, TypeOK
<1>5. CASE Replay(w) \/ Fail(w)
  <2>1. job' \in [Workers -> JobState]
    BY <1>0, <1>5, NothingTyped DEF Replay, Fail, TypeOK
  <2>. QED BY <1>0, <1>5, <2>1 DEF Replay, Fail, mem, TypeOK
<1>6. CASE Spawn(w) \/ Succeed(w)
  <2>1. PICK ph \in {"run", "probe"} : job' = [job EXCEPT ![w] = [j EXCEPT !.phase = ph]]
    BY <1>0, <1>6 DEF Spawn, Succeed, TypeOK
  <2>2. [j EXCEPT !.phase = ph] \in JobState
    BY <1>0 DEF JobState
  <2>3. job' \in [Workers -> JobState]
    BY <1>0, <2>1, <2>2 DEF TypeOK
  <2>. QED BY <1>0, <1>6, <2>3 DEF Spawn, Succeed, mem, TypeOK
<1>7. CASE RecordFile(w) \/ RecordVerdict(w)
  BY <1>0, <1>7, RecordStepTyped
<1>. QED BY <1>1, <1>2, <1>3, <1>4, <1>5, <1>6, <1>7 DEF Run

\* Every step keeps the types.
LEMMA NextTyped == ShapeInv /\ [Next]_vars => TypeOK'
<1>. SUFFICES ASSUME ShapeInv, [Next]_vars PROVE TypeOK'
  OBVIOUS
<1>0. TypeOK /\ Loaded
  BY DEF ShapeInv
<1>1. CASE Environment
  BY <1>0, <1>1, EnvironmentTyped
<1>2. CASE \E p \in Procs : Lifecycle(p) \/ Saver(p)
  BY <1>0, <1>2, LifecycleTyped, SaverTyped
<1>3. CASE \E w \in Workers : Run(w)
  BY <1>3, RunTyped
<1>4. CASE UNCHANGED vars
  BY <1>0, <1>4 DEF vars, mem, TypeOK
<1>. QED BY <1>1, <1>2, <1>3, <1>4 DEF Next

(***************************************************************************)
(* The shape of a process and of a tool run.                               *)
(***************************************************************************)

\* A tool run leaves a save under way alone: it can only show in what the history
\* says was recorded meanwhile.
LEMMA RunLeavesSaves ==
  ASSUME TypeOK, NEW w \in Workers, Run(w)
  PROVE  \A q \in Procs :
           /\ save'[q].phase = save[q].phase /\ save'[q].boot = save[q].boot
           /\ save'[q].saw = save[q].saw /\ save'[q].payload = save[q].payload
<1>1. CASE save' = save
  BY <1>1
<1>2. CASE RecordFile(w)
  <2>1. PICK new : save' # save => save' = [save EXCEPT ![Owner[w]] = [save[Owner[w]] EXCEPT !.moved = new]]
    BY <1>2 DEF RecordFile, TypeOK
  <2>2. save \in [Procs -> SaveState] /\ Owner[w] \in Procs
    BY ExecAssumption DEF TypeOK
  <2>3. LET m == [save[Owner[w]] EXCEPT !.moved = new]
        IN  /\ m.phase = save[Owner[w]].phase /\ m.boot = save[Owner[w]].boot
            /\ m.saw = save[Owner[w]].saw /\ m.payload = save[Owner[w]].payload
    BY <2>2 DEF SaveState
  <2>. QED BY <1>1, <2>1, <2>2, <2>3
<1>3. CASE ~RecordFile(w)
  <2>1. save' = save
    BY <1>3 DEF Run, Begin, Observe, Handle, Probe, Replay, Spawn, Succeed, Fail,
                RecordVerdict, mem
  <2>. QED BY <2>1
<1>. QED BY <1>2, <1>3

\* Only a process with a key saves, and what it writes is keyed (Loaded).
LEMMA LoadedKept == ShapeInv /\ [Next]_vars => Loaded'
<1>. SUFFICES ASSUME ShapeInv, [Next]_vars PROVE Loaded'
  OBVIOUS
<1>0. TypeOK /\ Loaded
  BY DEF ShapeInv
<1>. USE <1>0 DEF Loaded, TypeOK
<1>1. CASE Environment
  <2>1. CASE ClearProject
    BY <2>1 DEF ClearProject, mem
  <2>2. CASE ~ClearProject
    <3>1. UNCHANGED <<disk, life, key, save>>
      BY <1>1, <2>2 DEF Environment, Edit, EditConfig, Tick, mem
    <3>. QED BY <3>1
  <2>. QED BY <2>1, <2>2
<1>2. ASSUME NEW p \in Procs, Lifecycle(p) PROVE Loaded'
  <2>1. disk' = disk
    BY <1>2 DEF Lifecycle, Start, Reload, Shutdown, Exit, Crash
  <2>2. CASE \E prune \in BOOLEAN : Start(p, prune) \/ Reload(p, prune)
    <3>1. /\ life' = [life EXCEPT ![p] = "up"]
          /\ key' = [key EXCEPT ![p] = config]
          /\ \/ save' = [save EXCEPT ![p] = NoSave]
             \/ save' = [save EXCEPT ![p] = [NoSave EXCEPT !.phase = "merge", !.boot = TRUE]]
      BY <2>2 DEF Start, Reload, Open
    <3>2. NoSave.phase = "idle" /\ [NoSave EXCEPT !.phase = "merge", !.boot = TRUE].phase = "merge"
      BY DEF NoSave
    <3>. QED BY <2>1, <3>1, <3>2
  <2>3. CASE \E why \in {"exiting", "reloading"} : Shutdown(p, why)
    BY <2>3 DEF Shutdown, mem
  <2>4. CASE Exit(p) \/ Crash(p)
    <3>1. /\ life' = [life EXCEPT ![p] = "down"]
          /\ key' = [key EXCEPT ![p] = None]
          /\ save' = [save EXCEPT ![p] = NoSave]
      BY <2>4 DEF Exit, Crash, Forgotten
    <3>2. NoSave.phase = "idle"
      BY DEF NoSave
    <3>. QED BY <2>1, <3>1, <3>2
  <2>. QED BY <1>2, <2>2, <2>3, <2>4 DEF Lifecycle
<1>3. ASSUME NEW p \in Procs, Saver(p) PROVE Loaded'
  <2>0. UNCHANGED <<life, key>> /\ save[p] \in SaveState
    BY <1>3 DEF Saver, Flush, SessionSave, MergeYield, MergeFromDisk, Encode, Rename, WriteFails, mem
  <2>1. CASE Flush(p) \/ SessionSave(p)
    <3>1. life[p] # "down" /\ disk' = disk /\ save' = [save EXCEPT ![p].phase = "merge"]
      BY <2>1 DEF Flush, SessionSave
    <3>. QED BY <2>0, <3>1 DEF SaveState
  <2>2. CASE MergeYield(p) \/ WriteFails(p)
    <3>1. disk' = disk /\ save' = [save EXCEPT ![p] = NoSave]
      BY <2>2 DEF MergeYield, WriteFails
    <3>. QED BY <2>0, <3>1 DEF NoSave
  <2>3. CASE MergeFromDisk(p)
    <3>1. /\ disk' = disk /\ save[p].phase = "merge"
          /\ save' = [save EXCEPT ![p].phase = "encode", ![p].saw = disk]
      BY <2>3 DEF MergeFromDisk
    <3>. QED BY <2>0, <3>1 DEF SaveState
  <2>4. CASE Encode(p)
    <3>. DEFINE payload == [key |-> key[p], entries |-> entries[p], verdicts |-> verdicts[p]]
    <3>1. /\ disk' = disk /\ save[p].phase = "encode"
          /\ save' = [save EXCEPT ![p].phase = "rename", ![p].payload = payload]
      BY <2>4 DEF Encode
    <3>2. payload.key \in Keys
      BY <3>1
    <3>3. save'[p].phase = "rename" /\ save'[p].payload = payload
          /\ \A q \in Procs \ {p} : save'[q] = save[q]
      BY <2>0, <3>1 DEF SaveState
    <3>. HIDE DEF payload
    <3>. QED BY <2>0, <3>1, <3>2, <3>3
  <2>5. CASE Rename(p)
    <3>1. disk' = save[p].payload /\ save[p].phase = "rename"
          /\ save' = [save EXCEPT ![p] = NoSave]
      BY <2>5 DEF Rename
    <3>2. disk'.key # None
      BY <3>1, ExecAssumption
    <3>. QED BY <2>0, <3>1, <3>2 DEF NoSave
  <2>. QED BY <1>3, <2>1, <2>2, <2>3, <2>4, <2>5 DEF Saver
<1>4. ASSUME NEW w \in Workers, Run(w) PROVE Loaded'
  <2>1. UNCHANGED <<disk, life, key>>
    BY <1>4 DEF Run, Begin, Observe, Handle, Probe, Replay, Spawn, Succeed, Fail, RecordFile,
                RecordVerdict, mem
  <2>2. \A p \in Procs : save'[p].phase = save[p].phase /\ save'[p].payload = save[p].payload
    BY <1>4, RunLeavesSaves
  <2>. QED BY <2>1, <2>2
<1>5. CASE UNCHANGED vars
  BY <1>5 DEF vars, mem
<1>. QED BY <1>1, <1>2, <1>3, <1>4, <1>5 DEF Next

\* A tool run that a step leaves alone keeps its shape if its process stays up.
LEMMA JobStays ==
  ASSUME NEW v \in Workers, JobShape(v), job'[v] = job[v],
         job[v].phase # "idle" => life'[Owner[v]] = "up"
  PROVE  JobShape(v)'
BY DEF JobShape, Scope

\* A step of a process leaves every tool run alone, or ends it by a crash.
LEMMA ProcessLeavesJobs ==
  ASSUME ShapeInv, NEW p \in Procs, Lifecycle(p) \/ Saver(p), NEW v \in Workers
  PROVE  \/ job'[v] = NoJob
         \/ job'[v] = job[v] /\ (job[v].phase # "idle" =>
                                   /\ life'[Owner[v]] = "up"
                                   /\ key'[Owner[v]] = key[Owner[v]])
<1>0. TypeOK /\ JobShape(v)
  BY DEF ShapeInv
<1>. USE <1>0 DEF TypeOK, JobShape
<1>1. CASE Saver(p)
  BY <1>1 DEF Saver, Flush, SessionSave, MergeYield, MergeFromDisk, Encode, Rename,
              WriteFails, mem
<1>2. CASE \E prune \in BOOLEAN : Start(p, prune) \/ Reload(p, prune)
  <2>1. /\ life[p] # "up" /\ job' = job
        /\ life' = [life EXCEPT ![p] = "up"] /\ key' = [key EXCEPT ![p] = config]
    BY <1>2 DEF Start, Reload, Open
  <2>. QED BY <2>1
<1>3. CASE \E why \in {"exiting", "reloading"} : Shutdown(p, why)
  <2>1. PICK why \in {"exiting", "reloading"} : Shutdown(p, why)
    BY <1>3
  <2>2. job' = job /\ key' = key /\ life' = [life EXCEPT ![p] = why] /\ Running(p) = {}
    BY <2>1 DEF Shutdown, mem
  <2>3. job[v].phase # "idle" => Owner[v] # p
    BY <2>2 DEF Running
  <2>. QED BY <2>2, <2>3
<1>4. CASE Exit(p)
  <2>1. /\ life[p] # "up" /\ job' = job
        /\ life' = [life EXCEPT ![p] = "down"] /\ key' = [key EXCEPT ![p] = None]
    BY <1>4 DEF Exit, Forgotten
  <2>. QED BY <2>1
<1>5. CASE Crash(p)
  <2>1. /\ job' = [w \in Workers |-> IF Owner[w] = p THEN NoJob ELSE job[w]]
        /\ life' = [life EXCEPT ![p] = "down"] /\ key' = [key EXCEPT ![p] = None]
    BY <1>5 DEF Crash, Forgotten
  <2>. QED BY <2>1
<1>. QED BY <1>1, <1>2, <1>3, <1>4, <1>5 DEF Lifecycle

\* Nothing a worker or the environment does brings a process down.
LEMMA OthersLeaveLife ==
  ASSUME Environment \/ \E w \in Workers : Run(w)
  PROVE  life' = life /\ key' = key
<1>1. CASE Environment
  BY <1>1 DEF Environment, Edit, EditConfig, Tick, ClearProject, mem
<1>2. ASSUME NEW w \in Workers, Run(w) PROVE life' = life /\ key' = key
  <2>1. CASE RecordFile(w)
    BY <2>1 DEF RecordFile
  <2>2. CASE RecordVerdict(w)
    BY <2>2 DEF RecordVerdict
  <2>3. CASE \E x \in Paths : Observe(w, x) \/ Handle(w, x) \/ Probe(w, x)
    BY <2>3 DEF Observe, Handle, Probe, mem
  <2>4. CASE \E task \in Tasks, handed \in SUBSET Files : Begin(w, task, handed)
    BY <2>4 DEF Begin, mem
  <2>5. CASE Replay(w) \/ Spawn(w) \/ Succeed(w) \/ Fail(w)
    BY <2>5 DEF Replay, Spawn, Succeed, Fail, mem
  <2>. QED BY <1>2, <2>1, <2>2, <2>3, <2>4, <2>5 DEF Run
<1>. QED BY <1>1, <1>2

\* A worker's step touches no other worker's run.
LEMMA RunIsLocal ==
  ASSUME ShapeInv, NEW w \in Workers, Run(w), NEW v \in Workers \ {w}
  PROVE  job'[v] = job[v]
<1>1. \E new : job' = [job EXCEPT ![w] = new]
  <2>1. TypeOK
    BY DEF ShapeInv
  <2>. QED BY <2>1 DEF Run, Begin, Observe, Handle, Probe, Replay, Spawn, Succeed, Fail,
                       RecordFile, RecordVerdict, TypeOK
<1>. QED BY <1>1 DEF ShapeInv, TypeOK

\* The run that steps keeps its shape.
LEMMA RunKeepsShape ==
  ASSUME ShapeInv, NEW w \in Workers, Run(w)
  PROVE  JobShape(w)'
<1>. DEFINE j == job[w]
<1>0. TypeOK /\ JobShape(w) /\ j \in JobState
  BY DEF ShapeInv, TypeOK
<1>1. life' = life
  BY OthersLeaveLife
<1>2. NoJob.phase = "idle"
  BY DEF NoJob
<1>3. CASE \E task \in Tasks, handed \in SUBSET Files : Begin(w, task, handed)
  <2>1. PICK task \in Tasks, handed \in SUBSET Files : Begin(w, task, handed)
    BY <1>3
  <2>2. task[1] \in Tools /\ task[3] \in Files \cup Units
    BY ExecAssumption
  <2>. DEFINE new == [NoJob EXCEPT !.phase = "observe", !.tool = task[1], !.op = task[2],
                                   !.target = task[3], !.handed = handed]
  <2>3. job'[w] = new
    BY <1>0, <2>1 DEF Begin, TypeOK
  <2>4. /\ new.phase = "observe" /\ new.tool = task[1] /\ new.target = task[3]
        /\ new.handed = handed /\ new.seen = NoInputs /\ new.read = NoInputs
        /\ new.after = NoInputs
    BY DEF NoJob
  <2>5. DOMAIN NoInputs = {}
    BY DEF NoInputs
  <2>6. life[Owner[w]] = "up"
    BY <2>1 DEF Begin
  <2>7. handed \subseteq Scope(new) \ {Conf} /\ (new.target \in Files => handed = {new.target})
    <3>1. handed # {} /\ handed \subseteq (IF task[3] \in Units THEN Members[task[3]] ELSE {task[3]})
      BY <2>1 DEF Begin
    <3>. QED BY <2>2, <2>4, <3>1, CacheAssumption DEF Scope, InputsOf
  <2>. HIDE DEF new
  <2>. QED BY <1>1, <2>2, <2>3, <2>4, <2>5, <2>6, <2>7 DEF JobShape
<1>4. CASE \E x \in Paths : Observe(w, x)
  <2>1. PICK x \in Paths : Observe(w, x)
    BY <1>4
  <2>2. /\ j.phase = "observe" /\ x \in Scope(j)
        /\ job' = [job EXCEPT ![w].seen = Extend(j.seen, x, content[x])]
    BY <2>1 DEF Observe
  <2>3. /\ job'[w] \in JobState /\ job'[w].seen = Extend(j.seen, x, content[x])
        /\ \A fld \in {"phase", "op", "tool", "target", "handed", "read", "after"} :
             job'[w][fld] = j[fld]
    BY <1>0, <2>2, RunTyped DEF TypeOK, JobState
  <2>4. DOMAIN job'[w].seen = DOMAIN j.seen \cup {x}
    BY <2>3 DEF Extend
  <2>. QED BY <1>0, <1>1, <2>2, <2>3, <2>4 DEF JobShape, Scope
<1>5. CASE \E x \in Paths : Handle(w, x)
  <2>1. PICK x \in Paths : Handle(w, x)
    BY <1>5
  <2>1a. PICK b : /\ j.phase = "run" /\ x \in j.handed \cup {Conf}
                  /\ job' = [job EXCEPT ![w].read = Extend(j.read, x, b)]
    BY <2>1 DEF Handle
  <2>2. /\ job'[w].read = Extend(j.read, x, b)
        /\ \A fld \in {"phase", "op", "tool", "target", "handed", "seen", "after"} :
             job'[w][fld] = j[fld]
    BY <1>0, <2>1a DEF TypeOK, JobState
  <2>3. DOMAIN job'[w].read = DOMAIN j.read \cup {x}
    BY <2>2 DEF Extend
  <2>. QED BY <1>0, <1>1, <2>1a, <2>2, <2>3 DEF JobShape, Scope
<1>6. CASE \E x \in Paths : Probe(w, x)
  <2>1. PICK x \in Paths : /\ j.phase = "probe" /\ x \in Scope(j)
                           /\ job' = [job EXCEPT ![w].after = Extend(j.after, x, content[x])]
    BY <1>6 DEF Probe
  <2>2. /\ job'[w].after = Extend(j.after, x, content[x])
        /\ \A fld \in {"phase", "op", "tool", "target", "handed", "seen", "read"} :
             job'[w][fld] = j[fld]
    BY <1>0, <2>1 DEF TypeOK, JobState
  <2>3. DOMAIN job'[w].after = DOMAIN j.after \cup {x}
    BY <2>2 DEF Extend
  <2>. QED BY <1>0, <1>1, <2>1, <2>2, <2>3 DEF JobShape, Scope
<1>7. CASE Replay(w) \/ Fail(w) \/ RecordFile(w) \/ RecordVerdict(w)
  <2>1. job'[w] = NoJob
    BY <1>0, <1>7 DEF Replay, Fail, RecordFile, RecordVerdict, TypeOK
  <2>. QED BY <1>2, <2>1 DEF JobShape
<1>8. CASE Spawn(w) \/ Succeed(w)
  <2>1. /\ \/ j.phase = "observe" /\ job' = [job EXCEPT ![w].phase = "run"] /\ DOMAIN j.seen = Scope(j)
           \/ j.phase = "run" /\ job' = [job EXCEPT ![w].phase = "probe"]
              /\ DOMAIN j.read = j.handed \cup {Conf}
    BY <1>8 DEF Spawn, Succeed, Observed, Handled
  <2>2. \A fld \in {"op", "tool", "target", "handed", "seen", "read", "after"} :
             job'[w][fld] = j[fld]
    BY <1>0, <2>1 DEF TypeOK, JobState
  <2>3. \/ j.phase = "observe" /\ job'[w].phase = "run" /\ DOMAIN j.seen = Scope(j)
        \/ j.phase = "run" /\ job'[w].phase = "probe" /\ DOMAIN j.read = j.handed \cup {Conf}
    BY <1>0, <2>1 DEF TypeOK, JobState
  <2>. QED BY <1>0, <1>1, <2>2, <2>3 DEF JobShape, Scope
<1>. QED BY <1>3, <1>4, <1>5, <1>6, <1>7, <1>8 DEF Run

\* Every step keeps the shape of every tool run (executeTask, verdictKeys).
LEMMA ShapeKept ==
  ASSUME ShapeInv, [Next]_vars, NEW v \in Workers
  PROVE  JobShape(v)'
<1>0. JobShape(v) /\ (job[v].phase # "idle" => life[Owner[v]] = "up")
  BY DEF ShapeInv, JobShape
<1>1. CASE Environment
  <2>1. job' = job
    BY <1>1 DEF Environment, Edit, EditConfig, Tick, ClearProject
  <2>. QED BY <1>0, <1>1, <2>1, OthersLeaveLife, JobStays
<1>2. ASSUME NEW p \in Procs, Lifecycle(p) \/ Saver(p) PROVE JobShape(v)'
  <2>1. CASE job'[v] = NoJob
    BY <2>1 DEF JobShape, NoJob
  <2>2. CASE job'[v] = job[v] /\ (job[v].phase # "idle" => life'[Owner[v]] = "up")
    BY <1>0, <2>2, JobStays
  <2>. QED BY <1>2, <2>1, <2>2, ProcessLeavesJobs
<1>3. ASSUME NEW w \in Workers, Run(w) PROVE JobShape(v)'
  <2>1. CASE w = v
    BY <1>3, <2>1, RunKeepsShape
  <2>2. CASE w # v
    BY <1>0, <1>3, <2>2, RunIsLocal, OthersLeaveLife, JobStays
  <2>. QED BY <2>1, <2>2
<1>4. CASE UNCHANGED vars
  BY <1>0, <1>4, JobStays DEF vars
<1>. QED BY <1>1, <1>2, <1>3, <1>4 DEF Next

\* The shape holds initially.
LEMMA InitShape == Init => ShapeInv
<1>. SUFFICES ASSUME Init PROVE ShapeInv
  OBVIOUS
<1>1. TypeOK
  BY InitTyped
<1>2. Loaded
  BY DEF Init, Loaded, NoSave
<1>3. \A w \in Workers : JobShape(w)
  BY DEF Init, JobShape, NoJob
<1>. QED BY <1>1, <1>2, <1>3 DEF ShapeInv

\* ... and always.
THEOREM ShapeInvariant == Spec => []ShapeInv
<1>1. ShapeInv /\ [Next]_vars => ShapeInv'
  BY NextTyped, LoadedKept, ShapeKept DEF ShapeInv
<1>. QED BY InitShape, <1>1, PTL DEF Spec

\* Whatever editors, clocks, crashes and other processes do, every variable stays
\* within the values the code can give it; a tool run's snapshots are always of
\* its own scope, and a cache file is always one whole payload.
THEOREM TypeCorrect == Spec => []TypeOK
<1>1. ShapeInv => TypeOK
  BY DEF ShapeInv
<1>. QED BY ShapeInvariant, <1>1, PTL

(***************************************************************************)
(* How records move.                                                       *)
(***************************************************************************)

DiskMoves == \/ disk' \in {disk, NoFile}
             \/ \E p \in Procs : disk' = save[p].payload

MemoryMoves(p) ==
  \/ UNCHANGED <<key, entries, verdicts>>
  \/ key'[p] = key[p] /\ entries'[p] = entries[p] /\ verdicts'[p] = verdicts[p]
  \/ \E es \in {NoEntries, disk.entries}, vs \in {NoVerdicts, disk.verdicts} : \E oldE, oldV :
       /\ entries'[p] = PruneEntries(es, oldE)
       /\ verdicts'[p] = PruneVerdicts(vs, oldV)
       /\ disk.key # key'[p] => es = NoEntries /\ vs = NoVerdicts
  \/ entries'[p] = NoEntries /\ verdicts'[p] = NoVerdicts
  \/ /\ key'[p] = key[p]
     /\ disk.key = key[p] \/ disk = NoFile
     /\ entries'[p] = MergeEntries(entries[p], disk.entries, goneFiles[p])
     /\ verdicts'[p] = MergeVerdicts(verdicts[p], disk.verdicts, goneIds[p], clock)

PayloadMoves(p) ==
  save'[p].payload \in
    {save[p].payload, NoFile,
     [key |-> key[p], entries |-> entries[p], verdicts |-> verdicts[p]]}

Records(w) == RecordFile(w) \/ RecordVerdict(w)

\* Loading, merging, encoding, renaming, clearing, dying: outside the recording of
\* a pass, what a place holds came from elsewhere, pruned or merged (Load, Save,
\* mergeFromDisk).
LEMMA RecordsMove ==
  ASSUME ShapeInv, [Next]_vars, NEW q \in Procs
  PROVE  /\ DiskMoves /\ PayloadMoves(q)
         /\ MemoryMoves(q) \/ \E w \in Workers : Records(w) /\ Owner[w] = q
<1>0. TypeOK /\ Loaded
  BY DEF ShapeInv
<1>. USE DEF DiskMoves, PayloadMoves
<1>1. CASE Environment
  BY <1>1 DEF MemoryMoves, Environment, Edit, EditConfig, Tick, ClearProject, mem
<1>2. ASSUME NEW p \in Procs, Lifecycle(p)
      PROVE  DiskMoves /\ PayloadMoves(q) /\ MemoryMoves(q)
  <2>1. disk' = disk
    BY <1>2 DEF Lifecycle, Start, Reload, Shutdown, Exit, Crash
  <2>2. ASSUME NEW prune \in BOOLEAN, Open(p, prune)
        PROVE  PayloadMoves(q) /\ MemoryMoves(q)
    <3>. DEFINE ours == disk.key = config
                es   == IF ours THEN disk.entries ELSE NoEntries
                vs   == IF ours THEN disk.verdicts ELSE NoVerdicts
                oldE == IF prune THEN StaleEntries(es, content) ELSE {}
                oldV == IF prune THEN StaleVerdicts(vs, clock) ELSE {}
    <3>1. /\ entries' = [entries EXCEPT ![p] = PruneEntries(es, oldE)]
          /\ verdicts' = [verdicts EXCEPT ![p] = PruneVerdicts(vs, oldV)]
          /\ key' = [key EXCEPT ![p] = config]
          /\ save' = [save EXCEPT ![p] =
                        IF prune THEN [NoSave EXCEPT !.phase = "merge", !.boot = TRUE]
                                 ELSE NoSave]
      BY <2>2 DEF Open
    <3>2. [NoSave EXCEPT !.phase = "merge", !.boot = TRUE].payload = NoFile
          /\ NoSave.payload = NoFile
      BY DEF NoSave
    <3>3. PayloadMoves(q)
      BY <1>0, <3>1, <3>2 DEF TypeOK
    <3>4. CASE q # p
      BY <1>0, <3>1, <3>3, <3>4 DEF MemoryMoves, TypeOK
    <3>5. CASE q = p
      <4>1. /\ key'[q] = config /\ entries'[q] = PruneEntries(es, oldE)
            /\ verdicts'[q] = PruneVerdicts(vs, oldV)
        BY <1>0, <3>1, <3>5 DEF TypeOK
      <4>2. /\ es \in {NoEntries, disk.entries} /\ vs \in {NoVerdicts, disk.verdicts}
            /\ disk.key # key'[q] => es = NoEntries /\ vs = NoVerdicts
        BY <4>1
      <4>. HIDE DEF ours, es, vs, oldE, oldV
      <4>. QED BY <3>3, <4>1, <4>2 DEF MemoryMoves
    <3>. QED BY <3>4, <3>5
  <2>3. CASE \E why \in {"exiting", "reloading"} : Shutdown(p, why)
    BY <2>1, <2>3 DEF Shutdown, mem, MemoryMoves
  <2>4. ASSUME Forgotten(p) PROVE PayloadMoves(q) /\ MemoryMoves(q)
    <3>1. NoSave.payload = NoFile
      BY DEF NoSave
    <3>. QED BY <1>0, <2>4, <3>1 DEF Forgotten, TypeOK, MemoryMoves
  <2>. QED BY <1>2, <2>1, <2>2, <2>3, <2>4 DEF Lifecycle, Start, Reload, Exit, Crash
<1>3. ASSUME NEW p \in Procs, Saver(p)
      PROVE  DiskMoves /\ PayloadMoves(q) /\ MemoryMoves(q)
  <2>0. save[p] \in SaveState /\ NoSave.payload = NoFile
    BY <1>0 DEF TypeOK, NoSave
  <2>. USE <1>0, <2>0 DEF TypeOK
  <2>1. CASE Flush(p) \/ SessionSave(p)
    BY <2>1 DEF Flush, SessionSave, mem, MemoryMoves, SaveState
  <2>2. CASE MergeYield(p) \/ WriteFails(p) \/ Rename(p)
    BY <2>2 DEF MergeYield, WriteFails, Rename, mem, MemoryMoves
  <2>3. CASE MergeFromDisk(p)
    <3>1. disk' = disk /\ key' = key /\ PayloadMoves(q)
      BY <2>3 DEF MergeFromDisk, SaveState
    <3>2. MemoryMoves(q)
      <4>1. CASE Foreign(p)
        BY <2>3, <3>1, <4>1 DEF MergeFromDisk, MemoryMoves
      <4>2. CASE ~Foreign(p)
        <5>1. disk.key = key[p] \/ disk = NoFile
          BY <4>2 DEF Foreign, Loaded
        <5>2. /\ entries' = [entries EXCEPT ![p] = MergeEntries(entries[p], disk.entries, goneFiles[p])]
              /\ verdicts' = [verdicts EXCEPT ![p] =
                               MergeVerdicts(verdicts[p], disk.verdicts, goneIds[p], clock)]
          BY <2>3, <4>2 DEF MergeFromDisk
        <5>. QED BY <3>1, <5>1, <5>2 DEF MemoryMoves
      <4>. QED BY <4>1, <4>2
    <3>. QED BY <3>1, <3>2
  <2>4. CASE Encode(p)
    <3>1. UNCHANGED <<disk, key, entries, verdicts>>
      BY <2>4 DEF Encode, mem
    <3>2. save' = [save EXCEPT ![p].phase = "rename",
                     ![p].payload = [key |-> key[p], entries |-> entries[p],
                                     verdicts |-> verdicts[p]]]
      BY <2>4 DEF Encode
    <3>. QED BY <3>1, <3>2 DEF MemoryMoves, SaveState
  <2>. QED BY <1>3, <2>1, <2>2, <2>3, <2>4 DEF Saver
<1>4. ASSUME NEW w \in Workers, Run(w)
      PROVE  /\ DiskMoves /\ PayloadMoves(q)
             /\ MemoryMoves(q) \/ (Records(w) /\ Owner[w] = q)
  <2>1. CASE \E x \in Paths : Observe(w, x) \/ Handle(w, x) \/ Probe(w, x)
    BY <2>1 DEF Observe, Handle, Probe, mem, MemoryMoves
  <2>2. CASE \E task \in Tasks, handed \in SUBSET Files : Begin(w, task, handed)
    BY <2>2 DEF Begin, mem, MemoryMoves
  <2>3. CASE Replay(w) \/ Spawn(w) \/ Succeed(w) \/ Fail(w)
    BY <2>3 DEF Replay, Spawn, Succeed, Fail, mem, MemoryMoves
  <2>4. CASE Records(w) /\ Owner[w] # q
    <3>1. UNCHANGED <<disk, key>> /\ save'[q].payload = save[q].payload
      BY <1>0, <1>4, <2>4, RunLeavesSaves DEF Records, RecordFile, RecordVerdict
    <3>2. entries'[q] = entries[q] /\ verdicts'[q] = verdicts[q]
      BY <1>0, <2>4 DEF Records, RecordFile, RecordVerdict, TypeOK
    <3>. QED BY <3>1, <3>2 DEF MemoryMoves
  <2>5. CASE Records(w) /\ Owner[w] = q
    BY <1>0, <1>4, <2>5, RunLeavesSaves DEF Records, RecordFile, RecordVerdict
  <2>. QED BY <1>4, <2>1, <2>2, <2>3, <2>4, <2>5 DEF Run, Records
<1>5. CASE UNCHANGED vars
  BY <1>5 DEF vars, mem, MemoryMoves
<1>. QED BY <1>1, <1>2, <1>3, <1>4, <1>5 DEF Next

\* Without processes a cache file can at most be cleared away.
LEMMA DiskWithoutProcs ==
  ASSUME Procs = {}, [Next]_vars
  PROVE  disk' \in {disk, NoFile}
<1>1. CASE Environment
  BY <1>1 DEF Environment, Edit, EditConfig, Tick, ClearProject
<1>2. CASE UNCHANGED vars
  BY <1>2 DEF vars
<1>3. Workers = {}
  BY ExecAssumption
<1>. QED BY <1>1, <1>2, <1>3 DEF Next

\* Only an edit or a tool at work changes a file.
LEMMA WhoWrites ==
  ASSUME [Next]_vars
  PROVE  \/ content' = content
         \/ \E y \in Paths, b \in Bytes : Edit(y, b)
         \/ \E w \in Workers, y \in Paths : Handle(w, y)
<1>1. CASE Environment
  BY <1>1 DEF Environment, EditConfig, Tick, ClearProject
<1>2. ASSUME NEW p \in Procs, Lifecycle(p) PROVE content' = content
  BY <1>2 DEF Lifecycle, Start, Reload, Shutdown, Exit, Crash
<1>3. ASSUME NEW p \in Procs, Saver(p) PROVE content' = content
  BY <1>3 DEF Saver, Flush, SessionSave, MergeYield, MergeFromDisk, Encode, Rename, WriteFails
<1>4. ASSUME NEW w \in Workers, Run(w), ~\E y \in Paths : Handle(w, y) PROVE content' = content
  BY <1>4 DEF Run, Begin, Observe, Probe, Replay, Spawn, Succeed, Fail, RecordFile, RecordVerdict
<1>5. CASE UNCHANGED vars
  BY <1>5 DEF vars
<1>. QED BY <1>1, <1>2, <1>3, <1>4, <1>5 DEF Next

(***************************************************************************)
(* Merging and pruning keep records true.                                  *)
(***************************************************************************)

\* Nothing recorded, nothing untrue.
LEMMA NothingTrue ==
  ASSUME NEW k
  PROVE  LintTrue(k, NoEntries, NoVerdicts) /\ FixTrue(k, NoEntries, NoVerdicts)
<1>1. \A f \in Files : LintEntryTrue(k, f, NoEntries[f]) /\ FixEntryTrue(k, f, NoEntries[f])
  BY DEF NoEntries, NoEntry, LintEntryTrue, FixEntryTrue
<1>2. \A i \in Ids : LintVerdictTrue(k, i, NoVerdicts[i]) /\ FixVerdictTrue(k, i, NoVerdicts[i])
  BY DEF NoVerdicts, NoVerdict, LintVerdictTrue, FixVerdictTrue
<1>. QED BY <1>1, <1>2 DEF LintTrue, FixTrue

\* A prune only drops records (Prune, pruneVerdicts).
LEMMA PruneTrue ==
  ASSUME NEW k, NEW es \in [Files -> Entry], NEW vs \in [Ids -> Verdict], NEW oldE, NEW oldV
  PROVE  /\ LintTrue(k, es, vs) => LintTrue(k, PruneEntries(es, oldE), PruneVerdicts(vs, oldV))
         /\ FixTrue(k, es, vs) => FixTrue(k, PruneEntries(es, oldE), PruneVerdicts(vs, oldV))
<1>1. \A f \in Files : PruneEntries(es, oldE)[f] \in {es[f], NoEntries[f]}
  BY DEF PruneEntries, NoEntries
<1>2. \A i \in Ids : PruneVerdicts(vs, oldV)[i] \in {vs[i], NoVerdicts[i]}
  BY DEF PruneVerdicts, NoVerdicts
<1>. QED BY <1>1, <1>2, NothingTrue DEF LintTrue, FixTrue

\* Two true records of the same configuration merge into a true one: passes unite
\* only when they were earned by the same bytes (mergeFromDisk).
LEMMA MergeTrue ==
  ASSUME NEW k,
         NEW es \in [Files -> Entry], NEW ds \in [Files -> Entry], NEW goneE,
         NEW vs \in [Ids -> Verdict], NEW dv \in [Ids -> Verdict], NEW goneV, NEW now
  PROVE  /\ (LintTrue(k, es, vs) /\ LintTrue(k, ds, dv)) =>
              LintTrue(k, MergeEntries(es, ds, goneE), MergeVerdicts(vs, dv, goneV, now))
         /\ (FixTrue(k, es, vs) /\ FixTrue(k, ds, dv)) =>
              FixTrue(k, MergeEntries(es, ds, goneE), MergeVerdicts(vs, dv, goneV, now))
<1>1. ASSUME NEW f \in Files
      PROVE  LET new == MergeEntries(es, ds, goneE)[f]
             IN  \/ new \in {es[f], ds[f], NoEntries[f]}
                 \/ /\ es[f].hash = ds[f].hash /\ new.hash = es[f].hash
                    /\ new.lint = es[f].lint \cup ds[f].lint
                    /\ new.fix = es[f].fix \cup ds[f].fix
  <2>1. MergeEntries(es, ds, goneE)[f] \in {es[f], MergeEntry(es[f], ds[f])}
    BY DEF MergeEntries
  <2>. QED BY <2>1 DEF MergeEntry, NoEntries
<1>2. ASSUME NEW i \in Ids
      PROVE  LET new == MergeVerdicts(vs, dv, goneV, now)[i]
             IN  new.inputs \in {vs[i].inputs, dv[i].inputs}
  <2>1. MergeVerdicts(vs, dv, goneV, now)[i] \in {vs[i], MergeVerdict(vs[i], dv[i], now)}
    BY DEF MergeVerdicts
  <2>2. [dv[i] EXCEPT !.at = IF @ > now THEN now ELSE @].inputs = dv[i].inputs
    BY DEF Verdict
  <2>3. MergeVerdict(vs[i], dv[i], now) \in
          {vs[i], [dv[i] EXCEPT !.at = IF @ > now THEN now ELSE @]}
    BY DEF MergeVerdict
  <2>. QED BY <2>1, <2>2, <2>3
<1>3. ASSUME NEW f \in Files, LintEntryTrue(k, f, es[f]), LintEntryTrue(k, f, ds[f])
      PROVE  LintEntryTrue(k, f, MergeEntries(es, ds, goneE)[f])
  <2>1. LintEntryTrue(k, f, NoEntries[f])
    BY NothingTrue DEF LintTrue
  <2>. QED BY <1>1, <1>3, <2>1 DEF LintEntryTrue
<1>4. ASSUME NEW f \in Files, FixEntryTrue(k, f, es[f]), FixEntryTrue(k, f, ds[f])
      PROVE  FixEntryTrue(k, f, MergeEntries(es, ds, goneE)[f])
  <2>1. FixEntryTrue(k, f, NoEntries[f])
    BY NothingTrue DEF FixTrue
  <2>. QED BY <1>1, <1>4, <2>1 DEF FixEntryTrue
<1>5. ASSUME NEW i \in Ids, LintVerdictTrue(k, i, vs[i]), LintVerdictTrue(k, i, dv[i])
      PROVE  LintVerdictTrue(k, i, MergeVerdicts(vs, dv, goneV, now)[i])
  BY <1>2, <1>5 DEF LintVerdictTrue
<1>6. ASSUME NEW i \in Ids, FixVerdictTrue(k, i, vs[i]), FixVerdictTrue(k, i, dv[i])
      PROVE  FixVerdictTrue(k, i, MergeVerdicts(vs, dv, goneV, now)[i])
  <2>1. \A v : FixVerdictTrue(k, i, v) <=>
               ((i[2] = "fix" /\ v.inputs # NoInputs) =>
                  \A f \in Members[i[3]] : v.inputs[f] # Gone =>
                    Fixed(k, i[1], v.inputs[Conf], v.inputs[f]) = v.inputs[f])
    BY DEF FixVerdictTrue
  <2>. QED BY <1>2, <1>6, <2>1
<1>. QED BY <1>3, <1>4, <1>5, <1>6 DEF LintTrue, FixTrue

(***************************************************************************)
(* Every lint pass is true.                                                *)
(***************************************************************************)

\* A place that only moved holds true lint passes, given that they all did.
LEMMA LintMoves ==
  ASSUME ShapeInv, LintSound, NEW p \in Procs
  PROVE  /\ DiskMoves => LintTrue(disk'.key, disk'.entries, disk'.verdicts)
         /\ PayloadMoves(p) => LintTrue(save'[p].payload.key, save'[p].payload.entries,
                                        save'[p].payload.verdicts)
         /\ MemoryMoves(p) => LintTrue(key'[p], entries'[p], verdicts'[p])
<1>0. TypeOK
  BY DEF ShapeInv
<1>1. LintTrue(NoFile.key, NoFile.entries, NoFile.verdicts)
  BY NothingTrue DEF NoFile
<1>2. DiskMoves => LintTrue(disk'.key, disk'.entries, disk'.verdicts)
  BY <1>1 DEF DiskMoves, LintSound
<1>3. PayloadMoves(p) => LintTrue(save'[p].payload.key, save'[p].payload.entries,
                                  save'[p].payload.verdicts)
  BY <1>1 DEF PayloadMoves, LintSound
<1>4. ASSUME MemoryMoves(p) PROVE LintTrue(key'[p], entries'[p], verdicts'[p])
  <2>1. CASE \/ UNCHANGED <<key, entries, verdicts>>
             \/ key'[p] = key[p] /\ entries'[p] = entries[p] /\ verdicts'[p] = verdicts[p]
             \/ entries'[p] = NoEntries /\ verdicts'[p] = NoVerdicts
    BY <2>1, NothingTrue DEF LintSound
  <2>2. ASSUME NEW es \in {NoEntries, disk.entries}, NEW vs \in {NoVerdicts, disk.verdicts},
               NEW oldE, NEW oldV,
               entries'[p] = PruneEntries(es, oldE), verdicts'[p] = PruneVerdicts(vs, oldV),
               disk.key # key'[p] => es = NoEntries /\ vs = NoVerdicts
        PROVE  LintTrue(key'[p], entries'[p], verdicts'[p])
    <3>1. es \in [Files -> Entry] /\ vs \in [Ids -> Verdict]
      BY <1>0, NothingTyped DEF TypeOK, FileData
    <3>2. LintTrue(key'[p], es, vs)
      BY <2>2, NothingTrue DEF LintSound, LintTrue
    <3>. QED BY <2>2, <3>1, <3>2, PruneTrue
  <2>3. CASE /\ key'[p] = key[p]
             /\ disk.key = key[p] \/ disk = NoFile
             /\ entries'[p] = MergeEntries(entries[p], disk.entries, goneFiles[p])
             /\ verdicts'[p] = MergeVerdicts(verdicts[p], disk.verdicts, goneIds[p], clock)
    <3>1. LintTrue(key[p], disk.entries, disk.verdicts)
      BY <2>3, NothingTrue DEF LintSound, NoFile
    <3>2. LintTrue(key[p], entries[p], verdicts[p])
      BY DEF LintSound
    <3>3. /\ entries[p] \in [Files -> Entry] /\ disk.entries \in [Files -> Entry]
          /\ verdicts[p] \in [Ids -> Verdict] /\ disk.verdicts \in [Ids -> Verdict]
      BY <1>0 DEF TypeOK, FileData
    <3>. QED BY <2>3, <3>1, <3>2, <3>3, MergeTrue
  <2>. QED BY <1>4, <2>1, <2>2, <2>3 DEF MemoryMoves
<1>. QED BY <1>2, <1>3, <1>4

\* When a lint run finds every path of its scope as it was observed, it was clean
\* on exactly that.
LEMMA LintVindicated ==
  ASSUME ShapeInv, NEW w \in Workers, LintHonest(w), Probed(w), job[w].op = "lint",
         job[w].handed \cup {Conf} = Scope(job[w]),
         \A x \in Scope(job[w]) : job[w].after[x] = job[w].seen[x]
  PROVE  job[w].read = job[w].seen /\ Clean(key[Owner[w]], job[w].tool, job[w].seen)
<1>. DEFINE j == job[w]
<1>1. j \in JobState /\ j.phase = "probe"
  BY DEF ShapeInv, TypeOK, Probed
<1>2. DOMAIN j.seen = Scope(j) /\ DOMAIN j.read = Scope(j) /\ DOMAIN j.after = Scope(j)
  BY <1>1 DEF ShapeInv, JobShape, Probed
<1>3. \A x \in Scope(j) : j.read[x] = j.seen[x]
  BY <1>1, <1>2 DEF LintHonest
<1>4. j.read = j.seen
  <2>1. j.read \in [Scope(j) -> Bytes] /\ j.seen \in [Scope(j) -> Bytes]
    BY <1>1, <1>2 DEF JobState, Observations
  <2>. QED BY <1>3, <2>1
<1>5. Clean(key[Owner[w]], j.tool, j.read)
  BY <1>1 DEF LintHonest
<1>. QED BY <1>4, <1>5

\* What a finished run records is true (updateCacheAfterSuccess, recordVerdict).
LEMMA LintRecorded ==
  ASSUME ShapeInv, LintSound, NEW w \in Workers, LintHonest(w), Records(w)
  PROVE  LintTrue(key'[Owner[w]], entries'[Owner[w]], verdicts'[Owner[w]])
<1>. DEFINE j == job[w]
            p == Owner[w]
<1>0. TypeOK /\ JobShape(w) /\ j \in JobState /\ p \in Procs
  BY ExecAssumption DEF ShapeInv, TypeOK
<1>1. LintTrue(key[p], entries[p], verdicts[p])
  BY <1>0 DEF LintSound
<1>2. CASE RecordFile(w)
  <2>. DEFINE f == j.target
              e == entries[p][f]
  <2>1. f \in Files /\ Probed(w) /\ key' = key /\ verdicts' = verdicts /\ e \in Entry
    BY <1>0, <1>2 DEF RecordFile, TypeOK
  <2>2. Scope(j) = {f, Conf} /\ j.handed = {f} /\ f # Conf
    BY <1>0, <2>1, CacheAssumption DEF Scope, JobShape, Probed
  <2>3. LintEntryTrue(key[p], f, e)
    BY <1>1, <2>1 DEF LintTrue
  <2>. DEFINE new == CASE j.op = "lint" /\ j.after[f] = j.seen[f] /\ j.seen[f] # Gone
                           -> EntryAfterLint(e, Pass(j), j.seen[f])
                      [] j.op = "fix" /\ j.after[f] # Gone
                           -> EntryAfterFix(e, Pass(j), j.after[f])
                      [] OTHER -> e
  <2>4. \/ entries' = entries
        \/ j.after[Conf] = j.seen[Conf] /\ entries' = [entries EXCEPT ![p][f] = new]
    BY <1>2 DEF RecordFile
  <2>5. ASSUME j.after[Conf] = j.seen[Conf] PROVE LintEntryTrue(key[p], f, new)
    <3>1. CASE j.op = "lint" /\ j.after[f] = j.seen[f] /\ j.seen[f] # Gone
      <4>1. \A x \in Scope(j) : j.after[x] = j.seen[x]
        BY <2>2, <2>5, <3>1
      <4>2. Clean(key[p], j.tool, j.seen)
        BY <2>1, <2>2, <3>1, <4>1, LintVindicated
      <4>3. j.seen = FileVec(f, j.seen[f], j.seen[Conf])
        <5>1. j.seen \in [{f, Conf} -> Bytes]
          BY <1>0, <2>1, <2>2 DEF JobShape, JobState, Observations, Probed
        <5>. QED BY <5>1 DEF FileVec
      <4>4. Clean(key[p], Pass(j)[1], FileVec(f, j.seen[f], Pass(j)[2]))
        BY <4>2, <4>3 DEF Pass
      <4>5. new = EntryAfterLint(e, Pass(j), j.seen[f])
        BY <3>1
      <4>. HIDE DEF new, e
      <4>6. new.hash = j.seen[f] /\ \A pass \in new.lint : pass = Pass(j) \/ (pass \in e.lint /\ e.hash = new.hash)
        BY <2>1, <4>5 DEF EntryAfterLint, Entry
      <4>. QED BY <2>3, <4>4, <4>6 DEF LintEntryTrue
    <3>2. CASE j.op = "fix" /\ j.after[f] # Gone
      <4>1. new = EntryAfterFix(e, Pass(j), j.after[f])
        BY <3>2
      <4>. HIDE DEF new, e
      <4>2. \/ new.lint = {}
            \/ new.lint = e.lint /\ new.hash = e.hash
        BY <2>1, <4>1 DEF EntryAfterFix, Entry
      <4>. QED BY <2>3, <4>2 DEF LintEntryTrue
    <3>3. CASE new = e
      BY <2>3, <3>3
    <3>. QED BY <3>1, <3>2, <3>3
  <2>. HIDE DEF new, e
  <2>6. \A g \in Files : LintEntryTrue(key[p], g, entries'[p][g])
    <3>1. \A g \in Files : LintEntryTrue(key[p], g, entries[p][g])
      BY <1>1 DEF LintTrue
    <3>2. \A g \in Files : entries'[p][g] = entries[p][g]
                           \/ (g = f /\ j.after[Conf] = j.seen[Conf] /\ entries'[p][g] = new)
      BY <1>0, <2>1, <2>4 DEF TypeOK
    <3>. QED BY <2>5, <3>1, <3>2
  <2>. QED BY <1>1, <2>1, <2>6 DEF LintTrue
<1>3. CASE RecordVerdict(w)
  <2>. DEFINE pass == [inputs |-> j.after, at |-> clock]
              sibling == <<j.tool, "lint", j.target>>
  <2>1. j.target \in Units /\ Probed(w) /\ key' = key /\ entries' = entries
    BY <1>3 DEF RecordVerdict
  <2>2. \/ verdicts' = verdicts
        \/ /\ Covers(j) /\ (j.op = "lint" => j.after = j.seen)
           /\ \/ verdicts' = [verdicts EXCEPT ![p][Id(j)] = pass]
              \/ verdicts' = [verdicts EXCEPT ![p][Id(j)] = pass, ![p][sibling] = NoVerdict]
    BY <1>3 DEF RecordVerdict
  <2>3. ASSUME Covers(j), j.op = "lint" => j.after = j.seen
        PROVE  LintVerdictTrue(key[p], Id(j), pass)
    <3>1. CASE j.op = "lint"
      <4>1. j.handed \cup {Conf} = Scope(j)
        BY <2>1, <2>3 DEF Covers, Scope, InputsOf
      <4>2. Clean(key[p], j.tool, j.seen)
        BY <2>1, <2>3, <3>1, <4>1, LintVindicated
      <4>. QED BY <2>3, <3>1, <4>2 DEF LintVerdictTrue, Id
    <3>2. CASE j.op # "lint"
      BY <3>2 DEF LintVerdictTrue, Id
    <3>. QED BY <3>1, <3>2
  <2>4. \A i \in Ids : \/ verdicts'[p][i] \in {verdicts[p][i], NoVerdicts[i]}
                       \/ /\ i = Id(j) /\ verdicts'[p][i] = pass
                          /\ Covers(j) /\ (j.op = "lint" => j.after = j.seen)
    <3>. HIDE DEF pass, sibling
    <3>. QED BY <1>0, <2>2 DEF TypeOK, NoVerdicts
  <2>5. \A i \in Ids : LintVerdictTrue(key[p], i, verdicts[p][i])
                       /\ LintVerdictTrue(key[p], i, NoVerdicts[i])
    BY <1>1, NothingTrue DEF LintTrue
  <2>. HIDE DEF pass, sibling
  <2>6. \A i \in Ids : LintVerdictTrue(key[p], i, verdicts'[p][i])
    <3>. SUFFICES ASSUME NEW i \in Ids PROVE LintVerdictTrue(key[p], i, verdicts'[p][i])
      OBVIOUS
    <3>1. CASE verdicts'[p][i] \in {verdicts[p][i], NoVerdicts[i]}
      <4>1. CASE verdicts'[p][i] = verdicts[p][i]
        BY <2>5, <4>1
      <4>2. CASE verdicts'[p][i] = NoVerdicts[i]
        BY <2>5, <4>2
      <4>. QED BY <3>1, <4>1, <4>2
    <3>2. CASE /\ i = Id(j) /\ verdicts'[p][i] = pass
               /\ Covers(j) /\ (j.op = "lint" => j.after = j.seen)
      <4>1. LintVerdictTrue(key[p], Id(j), pass)
        BY <2>3, <3>2
      <4>. QED BY <3>2, <4>1
    <3>. QED BY <2>4, <3>1, <3>2
  <2>. QED BY <1>1, <2>1, <2>6 DEF LintTrue
<1>. QED BY <1>2, <1>3 DEF Records

\* Every place stays true.
LEMMA LintSoundKept == LintInv /\ [Next]_vars => LintSound'
<1>. SUFFICES ASSUME LintInv, [Next]_vars PROVE LintSound'
  OBVIOUS
<1>0. ShapeInv /\ LintSound /\ \A w \in Workers : LintHonest(w)
  BY DEF LintInv
<1>1. ASSUME NEW p \in Procs
      PROVE  /\ DiskMoves /\ PayloadMoves(p)
             /\ MemoryMoves(p) \/ \E w \in Workers : Records(w) /\ Owner[w] = p
  BY <1>0, RecordsMove
<1>2. LintTrue(disk'.key, disk'.entries, disk'.verdicts)
  <2>1. CASE Procs = {}
    <3>1. disk' \in {disk, NoFile}
      BY <2>1, DiskWithoutProcs
    <3>. QED BY <1>0, <3>1, NothingTrue DEF LintSound, NoFile
  <2>2. CASE \E p : p \in Procs
    BY <1>0, <1>1, <2>2, LintMoves
  <2>. QED BY <2>1, <2>2
<1>3. ASSUME NEW p \in Procs
      PROVE  LintTrue(save'[p].payload.key, save'[p].payload.entries, save'[p].payload.verdicts)
  BY <1>0, <1>1, LintMoves
<1>4. ASSUME NEW p \in Procs PROVE LintTrue(key'[p], entries'[p], verdicts'[p])
  BY <1>0, <1>1, LintMoves, LintRecorded
<1>. QED BY <1>2, <1>3, <1>4 DEF LintSound

\* Nobody else puts back what a lint has observed.
LEMMA NotPutBack ==
  ASSUME Restoring = FALSE, ShapeInv, [Next]_vars, NEW v \in Workers,
         job[v].phase # "idle", job[v].op = "lint",
         NEW x \in DOMAIN job[v].seen, content'[x] = job[v].seen[x]
  PROVE  content[x] = job[v].seen[x]
<1>0. TypeOK /\ x \in Paths
  BY DEF ShapeInv, TypeOK, JobState, Observations
<1>1. CASE content' = content
  BY <1>1
<1>2. ASSUME NEW y \in Paths, NEW b \in Bytes, Edit(y, b) PROVE content[x] = job[v].seen[x]
  <2>1. content' = [content EXCEPT ![y] = b] /\ ~PutsBack(None, y, b)
    BY <1>2 DEF Edit, MayWrite
  <2>2. v # None
    BY ExecAssumption
  <2>. QED BY <1>0, <2>1, <2>2 DEF PutsBack, TypeOK
<1>3. ASSUME NEW w \in Workers, NEW y \in Paths, Handle(w, y) PROVE content[x] = job[v].seen[x]
  <2>1. PICK b : /\ content' = [content EXCEPT ![y] = b]
                 /\ b # content[y] => MayWrite(w, y, b)
                 /\ job[w].op # "fix" => b = content[y]
    BY <1>3 DEF Handle
  <2>. QED BY <1>0, <2>1 DEF MayWrite, PutsBack, TypeOK
<1>. QED BY <1>1, <1>2, <1>3, WhoWrites

\* A run a step leaves alone stays honest.
LEMMA LintStays ==
  ASSUME Restoring = FALSE, ShapeInv, [Next]_vars, NEW v \in Workers, LintHonest(v),
         job'[v] = job[v],
         job[v].phase # "idle" => key'[Owner[v]] = key[Owner[v]]
  PROVE  LintHonest(v)'
<1>. SUFFICES ASSUME job[v].phase # "idle", job[v].op = "lint"
              PROVE  LintHonest(v)'
  BY DEF LintHonest
<1>1. \A x \in DOMAIN job[v].seen : content'[x] = job[v].seen[x] => content[x] = job[v].seen[x]
  BY NotPutBack
<1>2. key'[Owner[v]] = key[Owner[v]]
  OBVIOUS
<1>. QED BY <1>1, <1>2 DEF LintHonest

\* The run that steps stays honest: it reads what is there when it reads.
LEMMA LintRunHonest ==
  ASSUME ShapeInv, NEW w \in Workers, LintHonest(w), Run(w)
  PROVE  LintHonest(w)'
<1>. DEFINE j == job[w]
<1>0. TypeOK /\ JobShape(w) /\ j \in JobState
  BY DEF ShapeInv, TypeOK
<1>1. key' = key
  BY OthersLeaveLife
<1>2. NoJob.phase = "idle"
  BY DEF NoJob
<1>3. CASE \E task \in Tasks, handed \in SUBSET Files : Begin(w, task, handed)
  <2>1. job'[w].seen = NoInputs /\ job'[w].phase = "observe"
    BY <1>0, <1>3 DEF Begin, TypeOK, NoJob
  <2>. QED BY <2>1 DEF LintHonest, NoInputs
<1>4. CASE \E x \in Paths : Observe(w, x)
  <2>1. job'[w].phase = "observe" /\ job'[w].read = j.read /\ j.phase = "observe"
    BY <1>0, <1>4 DEF Observe, TypeOK, JobState
  <2>. QED BY <1>0, <2>1 DEF LintHonest, JobShape
<1>5. CASE \E x \in Paths : Handle(w, x)
  <2>1. PICK x \in Paths : Handle(w, x)
    BY <1>5
  <2>2. j.phase = "run"
    BY <2>1 DEF Handle
  <2>3. CASE j.op = "lint"
    <3>1. content' = [content EXCEPT ![x] = content[x]]
          /\ job' = [job EXCEPT ![w].read = Extend(j.read, x, content[x])]
      BY <2>1, <2>3 DEF Handle
    <3>2. content' = content
      BY <1>0, <3>1 DEF TypeOK
    <3>3. /\ job'[w].read = Extend(j.read, x, content[x])
          /\ job'[w].phase = "run" /\ job'[w].seen = j.seen /\ job'[w].after = j.after
      BY <1>0, <2>2, <3>1 DEF TypeOK, JobState
    <3>4. DOMAIN j.after = {}
      BY <1>0, <2>2 DEF JobShape
    <3>5. \A y \in DOMAIN job'[w].read : job'[w].read[y] = IF y = x THEN content[x] ELSE j.read[y]
      BY <3>3 DEF Extend
    <3>6. DOMAIN job'[w].read = DOMAIN j.read \cup {x}
      BY <3>3 DEF Extend
    <3>. QED BY <2>2, <2>3, <3>2, <3>3, <3>4, <3>5, <3>6 DEF LintHonest
  <2>4. CASE j.op # "lint"
    <3>1. job'[w].op = j.op
      BY <1>0, <2>1 DEF Handle, TypeOK, JobState
    <3>. QED BY <2>4, <3>1 DEF LintHonest
  <2>. QED BY <2>3, <2>4
<1>6. CASE \E x \in Paths : Probe(w, x)
  <2>1. PICK x \in Paths : Probe(w, x)
    BY <1>6
  <2>2. /\ content' = content /\ job' = [job EXCEPT ![w].after = Extend(j.after, x, content[x])]
    BY <2>1 DEF Probe
  <2>3. /\ job'[w].after = Extend(j.after, x, content[x])
        /\ \A fld \in {"phase", "op", "tool", "target", "handed", "seen", "read"} :
             job'[w][fld] = j[fld]
    BY <1>0, <2>2 DEF TypeOK, JobState
  <2>4. \A y \in DOMAIN job'[w].after :
          \/ y = x /\ job'[w].after[y] = content[y]
          \/ y \in DOMAIN j.after /\ job'[w].after[y] = j.after[y]
    BY <2>3 DEF Extend
  <2>. QED BY <1>1, <2>2, <2>3, <2>4 DEF LintHonest
<1>7. CASE Replay(w) \/ Fail(w) \/ Records(w)
  <2>1. job'[w] = NoJob
    BY <1>0, <1>7 DEF Replay, Fail, Records, RecordFile, RecordVerdict, TypeOK
  <2>. QED BY <1>2, <2>1 DEF LintHonest
<1>8. CASE Spawn(w)
  <2>1. /\ content' = content /\ job'[w].phase = "run"
        /\ \A fld \in {"op", "tool", "target", "handed", "seen", "read", "after"} :
             job'[w][fld] = j[fld]
    BY <1>0, <1>8 DEF Spawn, TypeOK, JobState
  <2>2. j.phase = "observe"
    BY <1>8 DEF Spawn, Observed
  <2>. QED BY <1>1, <2>1, <2>2 DEF LintHonest
<1>9. CASE Succeed(w)
  <2>1. /\ content' = content /\ job'[w].phase = "probe"
        /\ \A fld \in {"op", "tool", "target", "handed", "seen", "read", "after"} :
             job'[w][fld] = j[fld]
    BY <1>0, <1>9 DEF Succeed, TypeOK, JobState
  <2>2. j.phase = "run" /\ (j.op = "lint" => Clean(key[Owner[w]], j.tool, j.read))
    BY <1>9 DEF Succeed, Handled, Reports
  <2>. QED BY <1>1, <2>1, <2>2 DEF LintHonest
<1>. QED BY <1>3, <1>4, <1>5, <1>6, <1>7, <1>8, <1>9 DEF Run, Records

\* Every run stays honest.
LEMMA LintHonestKept ==
  ASSUME Restoring = FALSE, LintInv, [Next]_vars, NEW v \in Workers
  PROVE  LintHonest(v)'
<1>0. ShapeInv /\ LintHonest(v)
  BY DEF LintInv
<1>1. CASE Environment
  <2>1. job' = job
    BY <1>1 DEF Environment, Edit, EditConfig, Tick, ClearProject
  <2>. QED BY <1>0, <1>1, <2>1, OthersLeaveLife, LintStays
<1>2. ASSUME NEW p \in Procs, Lifecycle(p) \/ Saver(p) PROVE LintHonest(v)'
  <2>1. CASE job'[v] = NoJob
    BY <2>1 DEF LintHonest, NoJob
  <2>2. CASE job'[v] = job[v] /\ (job[v].phase # "idle" => key'[Owner[v]] = key[Owner[v]])
    BY <1>0, <2>2, LintStays
  <2>. QED BY <1>0, <1>2, <2>1, <2>2, ProcessLeavesJobs
<1>3. ASSUME NEW w \in Workers, Run(w) PROVE LintHonest(v)'
  <2>1. CASE w = v
    BY <1>0, <1>3, <2>1, LintRunHonest
  <2>2. CASE w # v
    BY <1>0, <1>3, <2>2, RunIsLocal, OthersLeaveLife, LintStays
  <2>. QED BY <2>1, <2>2
<1>4. CASE UNCHANGED vars
  BY <1>0, <1>4, LintStays DEF vars, mem
<1>. QED BY <1>1, <1>2, <1>3, <1>4 DEF Next

\* Every lint pass recorded anywhere is true, for any number of processes, workers,
\* tools, files and units and however they interleave, crash, reload and merge, as
\* long as nobody puts back bytes that a lint in progress has already observed.
THEOREM LintSoundness == ASSUME Restoring = FALSE PROVE Spec => []LintSound
<1>1. Init => LintInv
  <2>. SUFFICES ASSUME Init PROVE LintInv
    OBVIOUS
  <2>1. LintSound
    BY NothingTrue DEF Init, LintSound, NoFile, NoSave
  <2>2. \A w \in Workers : LintHonest(w)
    BY DEF Init, LintHonest, NoJob
  <2>. QED BY <2>1, <2>2, InitShape DEF LintInv
<1>2. LintInv /\ [Next]_vars => LintInv'
  <2>. SUFFICES ASSUME LintInv, [Next]_vars PROVE LintInv'
    OBVIOUS
  <2>1. ShapeInv'
    BY NextTyped, LoadedKept, ShapeKept DEF LintInv, ShapeInv
  <2>. QED BY <2>1, LintSoundKept, LintHonestKept DEF LintInv
<1>3. LintInv => LintSound
  BY DEF LintInv
<1>. QED BY <1>1, <1>2, <1>3, PTL DEF Spec

(***************************************************************************)
(* Every fix pass is true.                                                 *)
(***************************************************************************)

\* A place that only moved holds true fix passes, given that they all did.
LEMMA FixMoves ==
  ASSUME ShapeInv, FixSound, NEW p \in Procs
  PROVE  /\ DiskMoves => FixTrue(disk'.key, disk'.entries, disk'.verdicts)
         /\ PayloadMoves(p) => FixTrue(save'[p].payload.key, save'[p].payload.entries,
                                       save'[p].payload.verdicts)
         /\ MemoryMoves(p) => FixTrue(key'[p], entries'[p], verdicts'[p])
<1>0. TypeOK
  BY DEF ShapeInv
<1>1. FixTrue(NoFile.key, NoFile.entries, NoFile.verdicts)
  BY NothingTrue DEF NoFile
<1>2. DiskMoves => FixTrue(disk'.key, disk'.entries, disk'.verdicts)
  BY <1>1 DEF DiskMoves, FixSound
<1>3. PayloadMoves(p) => FixTrue(save'[p].payload.key, save'[p].payload.entries,
                                 save'[p].payload.verdicts)
  BY <1>1 DEF PayloadMoves, FixSound
<1>4. ASSUME MemoryMoves(p) PROVE FixTrue(key'[p], entries'[p], verdicts'[p])
  <2>1. CASE \/ UNCHANGED <<key, entries, verdicts>>
             \/ key'[p] = key[p] /\ entries'[p] = entries[p] /\ verdicts'[p] = verdicts[p]
             \/ entries'[p] = NoEntries /\ verdicts'[p] = NoVerdicts
    BY <2>1, NothingTrue DEF FixSound
  <2>2. ASSUME NEW es \in {NoEntries, disk.entries}, NEW vs \in {NoVerdicts, disk.verdicts},
               NEW oldE, NEW oldV,
               entries'[p] = PruneEntries(es, oldE), verdicts'[p] = PruneVerdicts(vs, oldV),
               disk.key # key'[p] => es = NoEntries /\ vs = NoVerdicts
        PROVE  FixTrue(key'[p], entries'[p], verdicts'[p])
    <3>1. es \in [Files -> Entry] /\ vs \in [Ids -> Verdict]
      BY <1>0, NothingTyped DEF TypeOK, FileData
    <3>2. FixTrue(key'[p], es, vs)
      BY <2>2, NothingTrue DEF FixSound, FixTrue
    <3>. QED BY <2>2, <3>1, <3>2, PruneTrue
  <2>3. CASE /\ key'[p] = key[p]
             /\ disk.key = key[p] \/ disk = NoFile
             /\ entries'[p] = MergeEntries(entries[p], disk.entries, goneFiles[p])
             /\ verdicts'[p] = MergeVerdicts(verdicts[p], disk.verdicts, goneIds[p], clock)
    <3>1. FixTrue(key[p], disk.entries, disk.verdicts)
      BY <2>3, NothingTrue DEF FixSound, NoFile
    <3>2. FixTrue(key[p], entries[p], verdicts[p])
      BY DEF FixSound
    <3>3. /\ entries[p] \in [Files -> Entry] /\ disk.entries \in [Files -> Entry]
          /\ verdicts[p] \in [Ids -> Verdict] /\ disk.verdicts \in [Ids -> Verdict]
      BY <1>0 DEF TypeOK, FileData
    <3>. QED BY <2>3, <3>1, <3>2, <3>3, MergeTrue
  <2>. QED BY <1>4, <2>1, <2>2, <2>3 DEF MemoryMoves
<1>. QED BY <1>2, <1>3, <1>4

\* A fix that has been probed left every file it was handed as it would leave it
\* again, under the config it found.
LEMMA FixSettled ==
  ASSUME ShapeInv, NEW w \in Workers, FixHonest(w), Probed(w), job[w].op = "fix",
         NEW x \in job[w].handed, job[w].after[x] # Gone
  PROVE  Fixed(key[Owner[w]], job[w].tool, job[w].after[Conf], job[w].after[x])
           = job[w].after[x]
<1>. DEFINE j == job[w]
<1>1. j.phase = "probe" /\ JobShape(w)
  BY DEF ShapeInv, Probed
<1>2. x \in DOMAIN j.read /\ DOMAIN j.after = Scope(j) /\ x # Conf
  BY <1>1 DEF JobShape, Probed
<1>3. x \in Scope(j) /\ Conf \in Scope(j)
  BY <1>1 DEF JobShape, Scope, InputsOf
<1>4. j.after[x] = content[x] /\ j.after[Conf] = content[Conf]
  BY <1>1, <1>2, <1>3 DEF FixHonest
<1>. QED BY <1>1, <1>2, <1>4 DEF FixHonest

\* What a finished fix records is true (AfterFix, recordVerdict).
LEMMA FixRecorded ==
  ASSUME ShapeInv, FixSound, NEW w \in Workers, FixHonest(w), Records(w)
  PROVE  FixTrue(key'[Owner[w]], entries'[Owner[w]], verdicts'[Owner[w]])
<1>. DEFINE j == job[w]
            p == Owner[w]
<1>0. TypeOK /\ JobShape(w) /\ j \in JobState /\ p \in Procs
  BY ExecAssumption DEF ShapeInv, TypeOK
<1>1. FixTrue(key[p], entries[p], verdicts[p])
  BY <1>0 DEF FixSound
<1>2. CASE RecordFile(w)
  <2>. DEFINE f == j.target
              e == entries[p][f]
  <2>1. f \in Files /\ Probed(w) /\ key' = key /\ verdicts' = verdicts /\ e \in Entry
    BY <1>0, <1>2 DEF RecordFile, TypeOK
  <2>2. f \in j.handed
    BY <1>0, <2>1 DEF JobShape, Probed
  <2>3. FixEntryTrue(key[p], f, e)
    BY <1>1, <2>1 DEF FixTrue
  <2>. DEFINE new == CASE j.op = "lint" /\ j.after[f] = j.seen[f] /\ j.seen[f] # Gone
                           -> EntryAfterLint(e, Pass(j), j.seen[f])
                      [] j.op = "fix" /\ j.after[f] # Gone
                           -> EntryAfterFix(e, Pass(j), j.after[f])
                      [] OTHER -> e
  <2>4. \/ entries' = entries
        \/ j.after[Conf] = j.seen[Conf] /\ entries' = [entries EXCEPT ![p][f] = new]
    BY <1>2 DEF RecordFile
  <2>5. ASSUME j.after[Conf] = j.seen[Conf] PROVE FixEntryTrue(key[p], f, new)
    <3>1. CASE j.op = "lint" /\ j.after[f] = j.seen[f] /\ j.seen[f] # Gone
      <4>1. new = EntryAfterLint(e, Pass(j), j.seen[f])
        BY <3>1
      <4>. HIDE DEF new, e
      <4>2. \/ new.fix = {}
            \/ new.fix = e.fix /\ new.hash = e.hash
        BY <2>1, <4>1 DEF EntryAfterLint, Entry
      <4>. QED BY <2>3, <4>2 DEF FixEntryTrue
    <3>2. CASE j.op = "fix" /\ j.after[f] # Gone
      <4>1. Fixed(key[p], j.tool, j.after[Conf], j.after[f]) = j.after[f]
        BY <2>1, <2>2, <3>2, FixSettled
      <4>2. Fixed(key[p], Pass(j)[1], Pass(j)[2], j.after[f]) = j.after[f]
        BY <2>5, <4>1 DEF Pass
      <4>3. new = EntryAfterFix(e, Pass(j), j.after[f])
        BY <3>2
      <4>. HIDE DEF new, e
      <4>4. /\ new.hash = j.after[f]
            /\ \A pass \in new.fix : pass = Pass(j) \/ (pass \in e.fix /\ e.hash = new.hash)
        BY <2>1, <4>3 DEF EntryAfterFix, Entry
      <4>. QED BY <2>3, <4>2, <4>4 DEF FixEntryTrue
    <3>3. CASE new = e
      BY <2>3, <3>3
    <3>. QED BY <3>1, <3>2, <3>3
  <2>. HIDE DEF new, e
  <2>6. \A g \in Files : FixEntryTrue(key[p], g, entries'[p][g])
    <3>1. \A g \in Files : FixEntryTrue(key[p], g, entries[p][g])
      BY <1>1 DEF FixTrue
    <3>2. \A g \in Files : entries'[p][g] = entries[p][g]
                           \/ (g = f /\ j.after[Conf] = j.seen[Conf] /\ entries'[p][g] = new)
      BY <1>0, <2>1, <2>4 DEF TypeOK
    <3>. QED BY <2>5, <3>1, <3>2
  <2>. QED BY <1>1, <2>1, <2>6 DEF FixTrue
<1>3. CASE RecordVerdict(w)
  <2>. DEFINE pass == [inputs |-> j.after, at |-> clock]
              sibling == <<j.tool, "lint", j.target>>
  <2>1. j.target \in Units /\ Probed(w) /\ key' = key /\ entries' = entries
    BY <1>3 DEF RecordVerdict
  <2>2. \/ verdicts' = verdicts
        \/ /\ Covers(j)
           /\ \/ verdicts' = [verdicts EXCEPT ![p][Id(j)] = pass]
              \/ verdicts' = [verdicts EXCEPT ![p][Id(j)] = pass, ![p][sibling] = NoVerdict]
    BY <1>3 DEF RecordVerdict
  <2>3. ASSUME Covers(j) PROVE FixVerdictTrue(key[p], Id(j), pass)
    <3>1. CASE j.op = "fix"
      <4>1. \A x \in Members[j.target] : j.after[x] # Gone =>
              Fixed(key[p], j.tool, j.after[Conf], j.after[x]) = j.after[x]
        BY <2>1, <2>3, <3>1, FixSettled DEF Covers
      <4>. QED BY <4>1 DEF FixVerdictTrue, Id
    <3>2. CASE j.op # "fix"
      BY <3>2 DEF FixVerdictTrue, Id
    <3>. QED BY <3>1, <3>2
  <2>4. \A i \in Ids : \/ verdicts'[p][i] = verdicts[p][i]
                       \/ verdicts'[p][i] = NoVerdicts[i]
                       \/ i = Id(j) /\ verdicts'[p][i] = pass /\ Covers(j)
    <3>. HIDE DEF pass, sibling
    <3>. QED BY <1>0, <2>2 DEF TypeOK, NoVerdicts
  <2>5. \A i \in Ids : FixVerdictTrue(key[p], i, verdicts[p][i])
                       /\ FixVerdictTrue(key[p], i, NoVerdicts[i])
    BY <1>1, NothingTrue DEF FixTrue
  <2>. HIDE DEF pass, sibling
  <2>6. \A i \in Ids : FixVerdictTrue(key[p], i, verdicts'[p][i])
    <3>. SUFFICES ASSUME NEW i \in Ids PROVE FixVerdictTrue(key[p], i, verdicts'[p][i])
      OBVIOUS
    <3>1. CASE verdicts'[p][i] = verdicts[p][i]
      BY <2>5, <3>1
    <3>2. CASE verdicts'[p][i] = NoVerdicts[i]
      BY <2>5, <3>2
    <3>3. CASE i = Id(j) /\ verdicts'[p][i] = pass /\ Covers(j)
      <4>1. FixVerdictTrue(key[p], Id(j), pass)
        BY <2>3, <3>3
      <4>. QED BY <3>3, <4>1
    <3>. QED BY <2>4, <3>1, <3>2, <3>3
  <2>. QED BY <1>1, <2>1, <2>6 DEF FixTrue
<1>. QED BY <1>2, <1>3 DEF Records

\* Every place stays true.
LEMMA FixSoundKept == FixInv /\ [Next]_vars => FixSound'
<1>. SUFFICES ASSUME FixInv, [Next]_vars PROVE FixSound'
  OBVIOUS
<1>0. ShapeInv /\ FixSound /\ \A w \in Workers : FixHonest(w)
  BY DEF FixInv
<1>1. ASSUME NEW p \in Procs
      PROVE  /\ DiskMoves /\ PayloadMoves(p)
             /\ MemoryMoves(p) \/ \E w \in Workers : Records(w) /\ Owner[w] = p
  BY <1>0, RecordsMove
<1>2. FixTrue(disk'.key, disk'.entries, disk'.verdicts)
  <2>1. CASE Procs = {}
    <3>1. disk' \in {disk, NoFile}
      BY <2>1, DiskWithoutProcs
    <3>. QED BY <1>0, <3>1, NothingTrue DEF FixSound, NoFile
  <2>2. CASE \E p : p \in Procs
    BY <1>0, <1>1, <2>2, FixMoves
  <2>. QED BY <2>1, <2>2
<1>3. ASSUME NEW p \in Procs
      PROVE  FixTrue(save'[p].payload.key, save'[p].payload.entries, save'[p].payload.verdicts)
  BY <1>0, <1>1, FixMoves
<1>4. ASSUME NEW p \in Procs PROVE FixTrue(key'[p], entries'[p], verdicts'[p])
  BY <1>0, <1>1, FixMoves, FixRecorded
<1>. QED BY <1>2, <1>3, <1>4 DEF FixSound

\* Nobody else writes what a running fix depends on.
LEMMA Undisturbed ==
  ASSUME Interfering = FALSE, ShapeInv, [Next]_vars, NEW v \in Workers,
         job[v].phase \in {"run", "probe"}, job[v].op = "fix",
         NEW x \in Scope(job[v]),
         \A y \in Paths : ~Handle(v, y)
  PROVE  content'[x] = content[x]
<1>0. TypeOK
  BY DEF ShapeInv
<1>1. CASE content' = content
  BY <1>1
<1>2. ASSUME NEW y \in Paths, NEW b \in Bytes, Edit(y, b) PROVE content'[x] = content[x]
  <2>1. content' = [content EXCEPT ![y] = b] /\ ~Interferes(None, y)
    BY <1>2 DEF Edit, MayWrite
  <2>2. v # None
    BY ExecAssumption
  <2>. QED BY <1>0, <2>1, <2>2 DEF Interferes, TypeOK
<1>3. ASSUME NEW w \in Workers, NEW y \in Paths, Handle(w, y) PROVE content'[x] = content[x]
  <2>1. PICK b : /\ content' = [content EXCEPT ![y] = b]
                 /\ b # content[y] => MayWrite(w, y, b)
    BY <1>3 DEF Handle
  <2>2. w # v
    BY <1>3
  <2>3. Interferes(w, x)
    BY <2>2 DEF Interferes
  <2>. QED BY <1>0, <2>1, <2>3 DEF MayWrite, TypeOK
<1>. QED BY <1>1, <1>2, <1>3, WhoWrites

\* A run a step leaves alone stays honest.
LEMMA FixStays ==
  ASSUME Interfering = FALSE, ShapeInv, [Next]_vars, NEW v \in Workers, FixHonest(v),
         \A y \in Paths : ~Handle(v, y),
         job'[v] = job[v],
         job[v].phase # "idle" => key'[Owner[v]] = key[Owner[v]]
  PROVE  FixHonest(v)'
<1>. DEFINE j == job[v]
<1>. SUFFICES ASSUME j.phase # "idle", j.op = "fix"
              PROVE  FixHonest(v)'
  BY DEF FixHonest
<1>0. JobShape(v) /\ j \in JobState
  BY DEF ShapeInv, TypeOK
<1>1. CASE j.phase = "observe"
  BY <1>0, <1>1 DEF FixHonest, JobShape
<1>2. CASE j.phase \in {"run", "probe"}
  <2>1. \A x \in Scope(j) : content'[x] = content[x]
    BY <1>2, Undisturbed
  <2>2. Conf \in Scope(j) /\ DOMAIN j.read \subseteq Scope(j) /\ DOMAIN j.after \subseteq Scope(j)
    BY <1>0, <1>2 DEF JobShape, Scope, InputsOf
  <2>3. content'[Conf] = content[Conf] /\ key'[Owner[v]] = key[Owner[v]]
    BY <2>1, <2>2
  <2>. QED BY <2>1, <2>2, <2>3 DEF FixHonest
<1>. QED BY <1>0, <1>1, <1>2 DEF JobState

\* A fixer leaves what it has written as it would leave it again, and touches
\* nothing it has handled before (executor: one invocation per batch).
LEMMA HandleHonest ==
  ASSUME ShapeInv, NEW w \in Workers, FixHonest(w), NEW x \in Paths, Handle(w, x)
  PROVE  FixHonest(w)'
<1>. DEFINE j == job[w]
            k == key[Owner[w]]
            b == IF j.op = "fix" /\ x # Conf /\ content[x] # Gone
                 THEN Fixed(k, j.tool, j.read[Conf], content[x]) ELSE content[x]
<1>0. TypeOK /\ Loaded /\ JobShape(w) /\ j \in JobState
  BY DEF ShapeInv, TypeOK
<1>1. /\ j.phase = "run" /\ x \notin DOMAIN j.read
      /\ x # Conf => Conf \in DOMAIN j.read
      /\ content' = [content EXCEPT ![x] = b] /\ job' = [job EXCEPT ![w].read = Extend(j.read, x, b)]
  BY DEF Handle
<1>2. key' = key
  BY DEF Handle, mem
<1>3. /\ job'[w].read = Extend(j.read, x, b)
      /\ \A fld \in {"phase", "op", "tool", "target", "handed", "seen", "after"} :
           job'[w][fld] = j[fld]
  <2>. HIDE DEF b
  <2>. QED BY <1>0, <1>1 DEF TypeOK, JobState
<1>4. /\ DOMAIN job'[w].read = DOMAIN j.read \cup {x}
      /\ \A y \in DOMAIN j.read \cup {x} : job'[w].read[y] = IF y = x THEN b ELSE j.read[y]
  BY <1>3 DEF Extend
<1>5. DOMAIN j.after = {}
  BY <1>0, <1>1 DEF JobShape
<1>6. CASE j.op # "fix"
  BY <1>3, <1>6 DEF FixHonest
<1>7. CASE j.op = "fix"
  <2>1. /\ \A y \in Paths \ {x} : content'[y] = content[y]
        /\ content'[x] = b
    BY <1>0, <1>1 DEF TypeOK
  <2>2. x # Conf => content[Conf] = j.read[Conf] /\ content'[Conf] = content[Conf]
    BY <1>1, <1>7, <2>1 DEF FixHonest, Paths
  <2>3. x = Conf => b = content[x] /\ content'[Conf] = content[Conf]
    BY <2>1
  <2>4. content'[Conf] = content[Conf] /\ content[Conf] \in Bytes /\ k \in Keys /\ j.tool \in Tools
    <3>1. life[Owner[w]] # "down" /\ Owner[w] \in Procs /\ j.tool \in Tools
      BY <1>0, <1>1, ExecAssumption DEF JobShape
    <3>2. content[Conf] \in Bytes
      BY <1>0 DEF TypeOK, Paths
    <3>. QED BY <1>0, <2>2, <2>3, <3>1, <3>2 DEF Loaded
  <2>5. (x # Conf /\ b # Gone) => Fixed(k, j.tool, content[Conf], b) = b
    <3>. SUFFICES ASSUME x # Conf, b # Gone PROVE Fixed(k, j.tool, content[Conf], b) = b
      OBVIOUS
    <3>1. content[x] # Gone
      BY <1>7
    <3>2. content[x] \in Contents
      BY <1>0, <3>1 DEF TypeOK, Bytes
    <3>3. b = Fixed(k, j.tool, content[Conf], content[x])
      BY <1>7, <2>2, <3>1
    <3>. HIDE DEF b
    <3>. QED BY <2>4, <3>2, <3>3, CacheAssumption DEF Bytes
  <2>6. \A y \in DOMAIN j.read :
          /\ y \in Paths \ {x} /\ j.read[y] = content'[y]
          /\ (y # Conf /\ content'[y] # Gone)
               => Fixed(k, j.tool, content[Conf], content'[y]) = content'[y]
    <3>1. DOMAIN j.read \subseteq Paths \ {x}
      BY <1>0, <1>1 DEF JobState, Observations
    <3>. QED BY <1>1, <1>7, <2>1, <3>1 DEF FixHonest
  <2>7. Conf \in DOMAIN j.read \cup {x}
    BY <1>1
  <2>. HIDE DEF b, k
  <2>8. \A y \in DOMAIN job'[w].read :
          /\ job'[w].read[y] = content'[y]
          /\ (y # Conf /\ content'[y] # Gone)
               => Fixed(k, j.tool, content'[Conf], content'[y]) = content'[y]
    BY <1>4, <2>1, <2>4, <2>5, <2>6
  <2>9. DOMAIN job'[w].after = {} /\ job'[w].tool = j.tool /\ k = key'[Owner[w]]
    BY <1>2, <1>3, <1>5 DEF k
  <2>. QED BY <1>4, <2>7, <2>8, <2>9 DEF FixHonest
<1>. QED BY <1>6, <1>7

\* The run that steps stays honest.
LEMMA FixRunHonest ==
  ASSUME ShapeInv, NEW w \in Workers, FixHonest(w), Run(w)
  PROVE  FixHonest(w)'
<1>. DEFINE j == job[w]
<1>0. TypeOK /\ JobShape(w) /\ j \in JobState
  BY DEF ShapeInv, TypeOK
<1>1. key' = key
  BY OthersLeaveLife
<1>2. NoJob.phase = "idle" /\ DOMAIN NoInputs = {}
  BY DEF NoJob, NoInputs
<1>3. CASE \E task \in Tasks, handed \in SUBSET Files : Begin(w, task, handed)
  <2>1. job'[w].read = NoInputs /\ job'[w].after = NoInputs
    BY <1>0, <1>3 DEF Begin, TypeOK, NoJob
  <2>. QED BY <1>2, <2>1 DEF FixHonest
<1>4. CASE \E x \in Paths : Observe(w, x)
  <2>1. job'[w].read = j.read /\ job'[w].after = j.after /\ j.phase = "observe"
    BY <1>0, <1>4 DEF Observe, TypeOK, JobState
  <2>. QED BY <1>0, <2>1 DEF FixHonest, JobShape
<1>5. CASE \E x \in Paths : Handle(w, x)
  BY <1>5, HandleHonest
<1>6. CASE \E x \in Paths : Probe(w, x)
  <2>1. PICK x \in Paths : Probe(w, x)
    BY <1>6
  <2>2. /\ content' = content /\ job' = [job EXCEPT ![w].after = Extend(j.after, x, content[x])]
        /\ j.phase = "probe"
    BY <2>1 DEF Probe
  <2>3. /\ job'[w].after = Extend(j.after, x, content[x])
        /\ \A fld \in {"phase", "op", "tool", "target", "handed", "seen", "read"} :
             job'[w][fld] = j[fld]
    BY <1>0, <2>2 DEF TypeOK, JobState
  <2>4. \A y \in DOMAIN job'[w].after :
          \/ y = x /\ job'[w].after[y] = content[y]
          \/ y \in DOMAIN j.after /\ job'[w].after[y] = j.after[y]
    BY <2>3 DEF Extend
  <2>. QED BY <1>1, <2>2, <2>3, <2>4 DEF FixHonest
<1>7. CASE Replay(w) \/ Fail(w) \/ Records(w)
  <2>1. job'[w] = NoJob
    BY <1>0, <1>7 DEF Replay, Fail, Records, RecordFile, RecordVerdict, TypeOK
  <2>. QED BY <1>2, <2>1 DEF FixHonest
<1>8. CASE Spawn(w) \/ Succeed(w)
  <2>1. /\ content' = content /\ j.phase # "idle"
        /\ \A fld \in {"op", "tool", "target", "handed", "seen", "read", "after"} :
             job'[w][fld] = j[fld]
    BY <1>0, <1>8 DEF Spawn, Succeed, Observed, Handled, TypeOK, JobState
  <2>. QED BY <1>1, <2>1 DEF FixHonest
<1>. QED BY <1>3, <1>4, <1>5, <1>6, <1>7, <1>8 DEF Run, Records

\* Every run stays honest.
LEMMA FixHonestKept ==
  ASSUME Interfering = FALSE, FixInv, [Next]_vars, NEW v \in Workers
  PROVE  FixHonest(v)'
<1>0. ShapeInv /\ FixHonest(v)
  BY DEF FixInv
<1>1. CASE \E y \in Paths : Handle(v, y)
  BY <1>0, <1>1, HandleHonest
<1>2. CASE \A y \in Paths : ~Handle(v, y)
  <2>1. CASE Environment
    <3>1. job' = job
      BY <2>1 DEF Environment, Edit, EditConfig, Tick, ClearProject
    <3>. QED BY <1>0, <1>2, <2>1, <3>1, OthersLeaveLife, FixStays
  <2>2. ASSUME NEW p \in Procs, Lifecycle(p) \/ Saver(p) PROVE FixHonest(v)'
    <3>1. CASE job'[v] = NoJob
      BY <3>1 DEF FixHonest, NoJob
    <3>2. CASE job'[v] = job[v] /\ (job[v].phase # "idle" => key'[Owner[v]] = key[Owner[v]])
      BY <1>0, <1>2, <3>2, FixStays
    <3>. QED BY <1>0, <2>2, <3>1, <3>2, ProcessLeavesJobs
  <2>3. ASSUME NEW w \in Workers, Run(w) PROVE FixHonest(v)'
    <3>1. CASE w = v
      BY <1>0, <2>3, <3>1, FixRunHonest
    <3>2. CASE w # v
      BY <1>0, <1>2, <2>3, <3>2, RunIsLocal, OthersLeaveLife, FixStays
    <3>. QED BY <3>1, <3>2
  <2>4. CASE UNCHANGED vars
    BY <1>0, <1>2, <2>4, FixStays DEF vars, mem
  <2>. QED BY <2>1, <2>2, <2>3, <2>4 DEF Next
<1>. QED BY <1>1, <1>2

\* Every fix pass recorded anywhere is true: the fixer would leave those bytes, under
\* that config, as they are.  It holds for any number of processes, workers, tools,
\* files and units, however they crash, reload and merge, as long as nobody else
\* writes the files a running fix is working on.
THEOREM FixSoundness == ASSUME Interfering = FALSE PROVE Spec => []FixSound
<1>1. Init => FixInv
  <2>. SUFFICES ASSUME Init PROVE FixInv
    OBVIOUS
  <2>1. FixSound
    BY NothingTrue DEF Init, FixSound, NoFile, NoSave
  <2>2. \A w \in Workers : FixHonest(w)
    BY DEF Init, FixHonest, NoJob
  <2>. QED BY <2>1, <2>2, InitShape DEF FixInv
<1>2. FixInv /\ [Next]_vars => FixInv'
  <2>. SUFFICES ASSUME FixInv, [Next]_vars PROVE FixInv'
    OBVIOUS
  <2>1. ShapeInv'
    BY NextTyped, LoadedKept, ShapeKept DEF FixInv, ShapeInv
  <2>. QED BY <2>1, FixSoundKept, FixHonestKept DEF FixInv
<1>3. FixInv => FixSound
  BY DEF FixInv
<1>. QED BY <1>1, <1>2, <1>3, PTL DEF Spec

(***************************************************************************)
(* The cache is a ledger of true statements.                               *)
(***************************************************************************)

\* An entry is a hash and the passes of two operations.
LEMMA EntryFields ==
  ASSUME NEW e \in Entry, NEW op \in Ops
  PROVE  /\ op = "lint" => e[op] = e.lint
         /\ op = "fix" => e[op] = e.fix
         /\ e[op] \subseteq Passes
BY DEF Entry, Ops

\* What is stated of a file, ...
FileStatement(k, es, f, op, pass) == <<k, "file", f, op, es[f].hash, pass>>

\* ... of a unit, ...
UnitStatement(k, vs, i) == <<k, "unit", i, vs[i].inputs>>

\* ... and nothing else.
LEMMA StatementCases ==
  ASSUME NEW k, NEW es, NEW vs, NEW s
  PROVE  s \in Statements(k, es, vs) <=>
           \/ \E f \in Files, op \in Ops, pass \in Passes :
                pass \in es[f][op] /\ s = FileStatement(k, es, f, op, pass)
           \/ \E i \in Ids : vs[i].inputs # NoInputs /\ s = UnitStatement(k, vs, i)
<1>1. \A q \in Files \X Ops \X Passes :
        /\ q = <<q[1], q[2], q[3]>> /\ q[1] \in Files /\ q[2] \in Ops /\ q[3] \in Passes
  OBVIOUS
<1>2. \A f \in Files, op \in Ops, pass \in Passes : <<f, op, pass>> \in Files \X Ops \X Passes
  OBVIOUS
<1>3. s \in {<<k, "file", r[1], r[2], es[r[1]].hash, r[3]>> : r \in
               {q \in Files \X Ops \X Passes : q[3] \in es[q[1]][q[2]]}}
        <=> \E f \in Files, op \in Ops, pass \in Passes :
              pass \in es[f][op] /\ s = FileStatement(k, es, f, op, pass)
  <2>1. ASSUME NEW f \in Files, NEW op \in Ops, NEW pass \in Passes,
               pass \in es[f][op], s = FileStatement(k, es, f, op, pass)
        PROVE  s \in {<<k, "file", r[1], r[2], es[r[1]].hash, r[3]>> : r \in
                        {q \in Files \X Ops \X Passes : q[3] \in es[q[1]][q[2]]}}
    <3>. DEFINE q == <<f, op, pass>>
    <3>1. q \in Files \X Ops \X Passes /\ q[1] = f /\ q[2] = op /\ q[3] = pass
      OBVIOUS
    <3>2. s = <<k, "file", q[1], q[2], es[q[1]].hash, q[3]>>
      BY <2>1, <3>1 DEF FileStatement
    <3>3. q[3] \in es[q[1]][q[2]]
      BY <2>1, <3>1
    <3>. HIDE DEF q
    <3>. QED BY <3>1, <3>2, <3>3
  <2>. QED BY <1>1, <2>1 DEF FileStatement
<1>4. s \in {<<k, "unit", i, vs[i].inputs>> : i \in {j \in Ids : vs[j].inputs # NoInputs}}
        <=> \E i \in Ids : vs[i].inputs # NoInputs /\ s = UnitStatement(k, vs, i)
  BY DEF UnitStatement
<1>. QED BY <1>3, <1>4 DEF Statements

\* A cache of true records makes true statements.
LEMMA RecordsStateTruth ==
  ASSUME NEW k, NEW es \in [Files -> Entry], NEW vs \in [Ids -> Verdict],
         LintTrue(k, es, vs), FixTrue(k, es, vs),
         NEW s \in Statements(k, es, vs)
  PROVE  StatementTrue(s)
<1>1. ASSUME NEW f \in Files, NEW op \in Ops, NEW pass \in Passes, pass \in es[f][op],
             s = FileStatement(k, es, f, op, pass)
      PROVE  StatementTrue(s)
  <2>1. /\ s[1] = k /\ s[2] = "file" /\ s[3] = f /\ s[4] = op
        /\ s[5] = es[f].hash /\ s[6] = pass
    BY <1>1 DEF FileStatement
  <2>. DEFINE e == [hash |-> s[5], lint |-> IF s[4] = "lint" THEN {s[6]} ELSE {},
                                   fix  |-> IF s[4] = "fix" THEN {s[6]} ELSE {}]
  <2>2. LintEntryTrue(k, f, es[f]) /\ FixEntryTrue(k, f, es[f])
    BY DEF LintTrue, FixTrue
  <2>3. /\ e.hash = es[f].hash
        /\ e.lint \subseteq es[f].lint /\ e.fix \subseteq es[f].fix
    BY <1>1, <2>1, EntryFields
  <2>. HIDE DEF e
  <2>4. LintEntryTrue(k, f, e) /\ FixEntryTrue(k, f, e)
    BY <2>2, <2>3 DEF LintEntryTrue, FixEntryTrue
  <2>. QED BY <2>1, <2>4 DEF StatementTrue, e
<1>2. ASSUME NEW i \in Ids, vs[i].inputs # NoInputs, s = UnitStatement(k, vs, i)
      PROVE  StatementTrue(s)
  <2>1. s[1] = k /\ s[2] = "unit" /\ s[3] = i /\ s[4] = vs[i].inputs
    BY <1>2 DEF UnitStatement
  <2>2. LintVerdictTrue(k, i, vs[i]) /\ FixVerdictTrue(k, i, vs[i])
    BY DEF LintTrue, FixTrue
  <2>. DEFINE v == [inputs |-> s[4], at |-> 0]
  <2>3. v.inputs = vs[i].inputs
    BY <2>1
  <2>. HIDE DEF v
  <2>4. LintVerdictTrue(k, i, v)
    BY <2>2, <2>3 DEF LintVerdictTrue
  <2>5. FixVerdictTrue(k, i, v)
    BY <2>2, <2>3 DEF FixVerdictTrue
  <2>6. StatementTrue(s) <=> LintVerdictTrue(s[1], s[3], v) /\ FixVerdictTrue(s[1], s[3], v)
    BY <2>1 DEF StatementTrue, v
  <2>. QED BY <2>1, <2>4, <2>5, <2>6
<1>. QED BY <1>1, <1>2, StatementCases

\* Nothing recorded, nothing stated.
LEMMA NothingStated == ASSUME NEW k, NEW s PROVE s \notin Statements(k, NoEntries, NoVerdicts)
<1>1. \A f \in Files, op \in Ops : NoEntries[f][op] = {}
  BY DEF NoEntries, NoEntry, Ops
<1>2. \A i \in Ids : NoVerdicts[i].inputs = NoInputs
  BY DEF NoVerdicts, NoVerdict
<1>. QED BY <1>1, <1>2, StatementCases

\* A statement depends on its own entry or verdict.
LEMMA StatedBefore ==
  ASSUME NEW k, NEW es, NEW vs, NEW ds, NEW dv,
         \A f \in Files, op \in Ops, pass \in Passes :
           pass \in es[f][op] => pass \in ds[f][op] /\ ds[f].hash = es[f].hash,
         \A i \in Ids : vs[i].inputs # NoInputs => dv[i].inputs = vs[i].inputs,
         NEW s \in Statements(k, es, vs)
  PROVE  s \in Statements(k, ds, dv)
<1>1. CASE \E f \in Files, op \in Ops, pass \in Passes :
             pass \in es[f][op] /\ s = FileStatement(k, es, f, op, pass)
  <2>1. PICK f \in Files, op \in Ops, pass \in Passes :
               pass \in es[f][op] /\ s = FileStatement(k, es, f, op, pass)
    BY <1>1
  <2>2. pass \in ds[f][op] /\ s = FileStatement(k, ds, f, op, pass)
    BY <2>1 DEF FileStatement
  <2>. QED BY <2>2, StatementCases
<1>2. CASE \E i \in Ids : vs[i].inputs # NoInputs /\ s = UnitStatement(k, vs, i)
  <2>1. PICK i \in Ids : vs[i].inputs # NoInputs /\ s = UnitStatement(k, vs, i)
    BY <1>2
  <2>2. dv[i].inputs # NoInputs /\ s = UnitStatement(k, dv, i)
    BY <2>1 DEF UnitStatement
  <2>. QED BY <2>2, StatementCases
<1>. QED BY <1>1, <1>2, StatementCases

\* A prune only forgets statements.
LEMMA PruneStates ==
  ASSUME NEW k, NEW es \in [Files -> Entry], NEW vs \in [Ids -> Verdict], NEW oldE, NEW oldV,
         NEW s \in Statements(k, PruneEntries(es, oldE), PruneVerdicts(vs, oldV))
  PROVE  s \in Statements(k, es, vs)
<1>1. \A f \in Files, op \in Ops, pass \in Passes :
        pass \in PruneEntries(es, oldE)[f][op] =>
          pass \in es[f][op] /\ es[f].hash = PruneEntries(es, oldE)[f].hash
  BY DEF PruneEntries, NoEntry, Ops
<1>2. \A i \in Ids : PruneVerdicts(vs, oldV)[i].inputs # NoInputs =>
                       vs[i].inputs = PruneVerdicts(vs, oldV)[i].inputs
  BY DEF PruneVerdicts, NoVerdict
<1>. QED BY <1>1, <1>2, StatedBefore

\* A merge states what either side stated.
LEMMA MergeStates ==
  ASSUME NEW k,
         NEW es \in [Files -> Entry], NEW ds \in [Files -> Entry], NEW goneE,
         NEW vs \in [Ids -> Verdict], NEW dv \in [Ids -> Verdict], NEW goneV, NEW now,
         NEW s \in Statements(k, MergeEntries(es, ds, goneE), MergeVerdicts(vs, dv, goneV, now))
  PROVE  s \in Statements(k, es, vs) \cup Statements(k, ds, dv)
<1>. DEFINE me == MergeEntries(es, ds, goneE)
            mv == MergeVerdicts(vs, dv, goneV, now)
<1>1. ASSUME NEW f \in Files, NEW op \in Ops, NEW pass \in Passes, pass \in me[f][op]
      PROVE  \/ pass \in es[f][op] /\ es[f].hash = me[f].hash
             \/ pass \in ds[f][op] /\ ds[f].hash = me[f].hash
  <2>1. me[f] \in {es[f], MergeEntry(es[f], ds[f])}
    BY DEF MergeEntries
  <2>2. es[f] \in Entry /\ ds[f] \in Entry /\ NoEntry[op] = {}
    BY DEF NoEntry, Ops
  <2>3. CASE me[f] \in {es[f], ds[f], NoEntry}
    BY <1>1, <2>2, <2>3
  <2>4. CASE /\ es[f].hash = ds[f].hash
             /\ me[f] = [hash |-> es[f].hash, lint |-> es[f].lint \cup ds[f].lint,
                         fix |-> es[f].fix \cup ds[f].fix]
    <3>1. me[f].hash = es[f].hash /\ me[f].hash = ds[f].hash
      BY <2>4
    <3>2. CASE op = "lint"
      <4>1. me[f][op] = es[f].lint \cup ds[f].lint
        BY <2>4, <3>2
      <4>. QED BY <1>1, <2>2, <3>1, <3>2, <4>1, EntryFields
    <3>3. CASE op = "fix"
      <4>1. me[f][op] = es[f].fix \cup ds[f].fix
        BY <2>4, <3>3
      <4>. QED BY <1>1, <2>2, <3>1, <3>3, <4>1, EntryFields
    <3>. QED BY <3>2, <3>3 DEF Ops
  <2>. HIDE DEF me
  <2>. QED BY <2>1, <2>3, <2>4 DEF MergeEntry
<1>2. ASSUME NEW i \in Ids PROVE mv[i].inputs \in {vs[i].inputs, dv[i].inputs}
  <2>1. mv[i] \in {vs[i], MergeVerdict(vs[i], dv[i], now)}
    BY DEF MergeVerdicts
  <2>2. [dv[i] EXCEPT !.at = IF @ > now THEN now ELSE @].inputs = dv[i].inputs
    BY DEF Verdict
  <2>. QED BY <2>1, <2>2 DEF MergeVerdict
<1>. HIDE DEF me, mv
<1>3. s \in Statements(k, me, mv)
  BY DEF me, mv
<1>4. CASE \E f \in Files, op \in Ops, pass \in Passes :
             pass \in me[f][op] /\ s = FileStatement(k, me, f, op, pass)
  <2>1. PICK f \in Files, op \in Ops, pass \in Passes :
               pass \in me[f][op] /\ s = FileStatement(k, me, f, op, pass)
    BY <1>4
  <2>2. \/ pass \in es[f][op] /\ s = FileStatement(k, es, f, op, pass)
        \/ pass \in ds[f][op] /\ s = FileStatement(k, ds, f, op, pass)
    BY <1>1, <2>1 DEF FileStatement
  <2>. QED BY <2>2, StatementCases
<1>5. CASE \E i \in Ids : mv[i].inputs # NoInputs /\ s = UnitStatement(k, mv, i)
  <2>1. PICK i \in Ids : mv[i].inputs # NoInputs /\ s = UnitStatement(k, mv, i)
    BY <1>5
  <2>2. \/ vs[i].inputs # NoInputs /\ s = UnitStatement(k, vs, i)
        \/ dv[i].inputs # NoInputs /\ s = UnitStatement(k, dv, i)
    BY <1>2, <2>1 DEF UnitStatement
  <2>. QED BY <2>2, StatementCases
<1>. QED BY <1>3, <1>4, <1>5, StatementCases

\* Membership in the union of an indexed family.
LEMMA InUnion ==
  ASSUME NEW I, NEW F, NEW s
  PROVE  s \in UNION {F[i] : i \in I} <=> \E i \in I : s \in F[i]
OBVIOUS

\* Every statement of the ledger is in one of its places.
LEMMA LedgerPlaces ==
  ASSUME NEW s
  PROVE  s \in Ledger <=>
           \/ s \in Statements(disk.key, disk.entries, disk.verdicts)
           \/ \E p \in Procs : s \in Statements(key[p], entries[p], verdicts[p])
           \/ \E p \in Procs : s \in Statements(save[p].payload.key, save[p].payload.entries,
                                                save[p].payload.verdicts)
<1>. DEFINE memory == [p \in Procs |-> Statements(key[p], entries[p], verdicts[p])]
            saved  == [p \in Procs |-> Statements(save[p].payload.key, save[p].payload.entries,
                                                  save[p].payload.verdicts)]
<1>1. /\ {Statements(key[p], entries[p], verdicts[p]) : p \in Procs}
           = {memory[p] : p \in Procs}
      /\ {Statements(save[p].payload.key, save[p].payload.entries,
                     save[p].payload.verdicts) : p \in Procs}
           = {saved[p] : p \in Procs}
  OBVIOUS
<1>2. Ledger = Statements(disk.key, disk.entries, disk.verdicts)
                 \cup (UNION {memory[p] : p \in Procs}) \cup (UNION {saved[p] : p \in Procs})
  BY <1>1 DEF Ledger
<1>3. \/ s \in Statements(disk.key, disk.entries, disk.verdicts)
      \/ \E p \in Procs : s \in memory[p]
      \/ \E p \in Procs : s \in saved[p]
      <=> s \in Ledger
  <2>. HIDE DEF memory, saved
  <2>. QED BY <1>2, InUnion
<1>. QED BY <1>3

\* A process that only moves records states nothing new, ...
LEMMA MemoryStates ==
  ASSUME ShapeInv, NEW p \in Procs, MemoryMoves(p),
         NEW s \in Statements(key'[p], entries'[p], verdicts'[p])
  PROVE  s \in Ledger
<1>0. /\ entries[p] \in [Files -> Entry] /\ disk.entries \in [Files -> Entry]
      /\ verdicts[p] \in [Ids -> Verdict] /\ disk.verdicts \in [Ids -> Verdict]
  BY DEF ShapeInv, TypeOK, FileData
<1>1. CASE key'[p] = key[p] /\ entries'[p] = entries[p] /\ verdicts'[p] = verdicts[p]
  BY <1>1 DEF Ledger
<1>2. CASE UNCHANGED <<key, entries, verdicts>>
  BY <1>1, <1>2
<1>3. ASSUME NEW es \in {NoEntries, disk.entries}, NEW vs \in {NoVerdicts, disk.verdicts},
             NEW oldE, NEW oldV,
             entries'[p] = PruneEntries(es, oldE), verdicts'[p] = PruneVerdicts(vs, oldV),
             disk.key # key'[p] => es = NoEntries /\ vs = NoVerdicts
      PROVE  s \in Ledger
  <2>1. es \in [Files -> Entry] /\ vs \in [Ids -> Verdict]
    BY <1>0, NothingTyped
  <2>2. s \in Statements(key'[p], es, vs)
    BY <1>3, <2>1, PruneStates
  <2>3. disk.key = key'[p]
    BY <1>3, <2>2, NothingStated
  <2>4. /\ \A f \in Files, op \in Ops, pass \in Passes :
             pass \in es[f][op] => pass \in disk.entries[f][op] /\ disk.entries[f].hash = es[f].hash
        /\ \A i \in Ids : vs[i].inputs # NoInputs => disk.verdicts[i].inputs = vs[i].inputs
    <3>1. \A f \in Files, op \in Ops : NoEntries[f][op] = {}
      BY DEF NoEntries, NoEntry, Ops
    <3>2. \A i \in Ids : NoVerdicts[i].inputs = NoInputs
      BY DEF NoVerdicts, NoVerdict
    <3>. QED BY <3>1, <3>2
  <2>5. s \in Statements(disk.key, disk.entries, disk.verdicts)
    BY <2>2, <2>3, <2>4, StatedBefore
  <2>. QED BY <2>5 DEF Ledger
<1>4. CASE entries'[p] = NoEntries /\ verdicts'[p] = NoVerdicts
  BY <1>4, NothingStated
<1>5. CASE /\ key'[p] = key[p]
           /\ disk.key = key[p] \/ disk = NoFile
           /\ entries'[p] = MergeEntries(entries[p], disk.entries, goneFiles[p])
           /\ verdicts'[p] = MergeVerdicts(verdicts[p], disk.verdicts, goneIds[p], clock)
  <2>1. s \in Statements(key[p], entries[p], verdicts[p])
               \cup Statements(key[p], disk.entries, disk.verdicts)
    BY <1>0, <1>5, MergeStates
  <2>2. CASE s \in Statements(key[p], entries[p], verdicts[p])
    BY <2>2 DEF Ledger
  <2>3. CASE s \in Statements(key[p], disk.entries, disk.verdicts)
    <3>1. disk.key = key[p]
      BY <1>5, <2>3, NothingStated DEF NoFile
    <3>. QED BY <2>3, <3>1 DEF Ledger
  <2>. QED BY <2>1, <2>2, <2>3
<1>. QED BY <1>1, <1>2, <1>3, <1>4, <1>5 DEF MemoryMoves

\* ... nor does its save, ...
LEMMA PayloadStates ==
  ASSUME NEW p \in Procs, PayloadMoves(p),
         NEW s \in Statements(save'[p].payload.key, save'[p].payload.entries,
                              save'[p].payload.verdicts)
  PROVE  s \in Ledger
<1>1. save'[p].payload # NoFile
  BY NothingStated DEF NoFile
<1>2. CASE save'[p].payload = save[p].payload
  BY <1>2, LedgerPlaces
<1>3. CASE save'[p].payload = [key |-> key[p], entries |-> entries[p], verdicts |-> verdicts[p]]
  BY <1>3, LedgerPlaces
<1>. QED BY <1>1, <1>2, <1>3 DEF PayloadMoves

\* ... nor the file.
LEMMA DiskStates ==
  ASSUME DiskMoves, NEW s \in Statements(disk'.key, disk'.entries, disk'.verdicts)
  PROVE  s \in Ledger
<1>1. disk' # NoFile
  BY NothingStated DEF NoFile
<1>2. CASE disk' = disk
  BY <1>2, LedgerPlaces
<1>3. ASSUME NEW p \in Procs, disk' = save[p].payload PROVE s \in Ledger
  BY <1>3, LedgerPlaces
<1>. QED BY <1>1, <1>2, <1>3 DEF DiskMoves

\* What a finished run may add.
Learnt(w, s) ==
  \/ /\ RecordFile(w)
     /\ s = FileStatement(key'[Owner[w]], entries'[Owner[w]], job[w].target, job[w].op,
                          Pass(job[w]))
  \/ /\ RecordVerdict(w)
     /\ s = UnitStatement(key'[Owner[w]], verdicts'[Owner[w]], Id(job[w]))

\* A run adds its own pass and nothing else (AfterLint, AfterFix, recordVerdict).
LEMMA RunStates ==
  ASSUME ShapeInv, NEW w \in Workers, Records(w),
         NEW s \in Statements(key'[Owner[w]], entries'[Owner[w]], verdicts'[Owner[w]])
  PROVE  s \in Ledger \/ Learnt(w, s)
<1>. DEFINE j == job[w]
            p == Owner[w]
<1>0. TypeOK /\ p \in Procs /\ j \in JobState
  BY ExecAssumption DEF ShapeInv, TypeOK
<1>1. key' = key
  BY DEF Records, RecordFile, RecordVerdict
<1>2. s \in Statements(key[p], entries[p], verdicts[p]) => s \in Ledger
  BY <1>0 DEF Ledger
<1>3. CASE RecordFile(w)
  <2>. DEFINE f == j.target
              e == entries[p][f]
              new == CASE j.op = "lint" /\ j.after[f] = j.seen[f] /\ j.seen[f] # Gone
                           -> EntryAfterLint(e, Pass(j), j.seen[f])
                      [] j.op = "fix" /\ j.after[f] # Gone
                           -> EntryAfterFix(e, Pass(j), j.after[f])
                      [] OTHER -> e
  <2>1. verdicts' = verdicts /\ f \in Files
        /\ (entries' = entries \/ entries' = [entries EXCEPT ![p][f] = new])
    BY <1>3 DEF RecordFile
  <2>2. \A op \in Ops, pass \in Passes : pass \in new[op] =>
          \/ pass \in e[op] /\ e.hash = new.hash
          \/ op = j.op /\ pass = Pass(j)
    <3>1. e \in Entry
      BY <1>0, <2>1 DEF TypeOK
    <3>2. CASE new = e
      BY <3>2
    <3>3. CASE j.op = "lint" /\ new = EntryAfterLint(e, Pass(j), j.seen[f])
      <4>. HIDE DEF new, e
      <4>1. /\ new.lint \subseteq e.lint \cup {Pass(j)} /\ new.fix \subseteq e.fix
            /\ e.hash # new.hash => new.lint \subseteq {Pass(j)} /\ new.fix = {}
        BY <3>1, <3>3 DEF EntryAfterLint, Entry
      <4>2. new["lint"] = new.lint /\ new["fix"] = new.fix
        OBVIOUS
      <4>. QED BY <3>1, <3>3, <4>1, <4>2, EntryFields DEF Ops
    <3>4. CASE j.op = "fix" /\ new = EntryAfterFix(e, Pass(j), j.after[f])
      <4>. HIDE DEF new, e
      <4>1. /\ new.fix \subseteq e.fix \cup {Pass(j)} /\ new.lint \subseteq e.lint
            /\ e.hash # new.hash => new.fix \subseteq {Pass(j)} /\ new.lint = {}
        BY <3>1, <3>4 DEF EntryAfterFix, Entry
      <4>2. new["lint"] = new.lint /\ new["fix"] = new.fix
        OBVIOUS
      <4>. QED BY <3>1, <3>4, <4>1, <4>2, EntryFields DEF Ops
    <3>. QED BY <3>2, <3>3, <3>4
  <2>3. \A g \in Files : \/ entries'[p][g] = entries[p][g]
                         \/ g = f /\ entries'[p][g] = new
    <3>1. entries \in [Procs -> [Files -> Entry]]
      BY <1>0 DEF TypeOK
    <3>. HIDE DEF new, e, f, p
    <3>. QED BY <1>0, <2>1, <3>1
  <2>. HIDE DEF new
  <2>4. CASE \E g \in Files, op \in Ops, pass \in Passes :
               pass \in entries'[p][g][op] /\ s = FileStatement(key[p], entries'[p], g, op, pass)
    <3>1. PICK g \in Files, op \in Ops, pass \in Passes :
               pass \in entries'[p][g][op] /\ s = FileStatement(key[p], entries'[p], g, op, pass)
      BY <2>4
    <3>2. \/ pass \in entries[p][g][op] /\ entries[p][g].hash = entries'[p][g].hash
          \/ g = f /\ op = j.op /\ pass = Pass(j)
      BY <2>2, <2>3, <3>1
    <3>3. CASE pass \in entries[p][g][op] /\ entries[p][g].hash = entries'[p][g].hash
      <4>1. s = FileStatement(key[p], entries[p], g, op, pass)
        BY <3>1, <3>3 DEF FileStatement
      <4>. QED BY <1>2, <3>3, <4>1, StatementCases
    <3>4. CASE g = f /\ op = j.op /\ pass = Pass(j)
      BY <1>1, <1>3, <3>1, <3>4 DEF Learnt
    <3>. QED BY <3>2, <3>3, <3>4
  <2>5. CASE \E i \in Ids : verdicts'[p][i].inputs # NoInputs
                            /\ s = UnitStatement(key[p], verdicts'[p], i)
    BY <1>2, <2>1, <2>5, StatementCases
  <2>. QED BY <1>1, <2>4, <2>5, StatementCases
<1>4. CASE RecordVerdict(w)
  <2>. DEFINE pass == [inputs |-> j.after, at |-> clock]
              sibling == <<j.tool, "lint", j.target>>
  <2>1. /\ entries' = entries
        /\ \/ verdicts' = verdicts
           \/ verdicts' = [verdicts EXCEPT ![p][Id(j)] = pass]
           \/ verdicts' = [verdicts EXCEPT ![p][Id(j)] = pass, ![p][sibling] = NoVerdict]
    BY <1>4 DEF RecordVerdict
  <2>2. \A i \in Ids : \/ verdicts'[p][i] = verdicts[p][i]
                       \/ i = Id(j)
                       \/ verdicts'[p][i] = NoVerdict
    <3>1. verdicts \in [Procs -> [Ids -> Verdict]]
      BY <1>0 DEF TypeOK
    <3>. HIDE DEF pass, sibling, p, j
    <3>. QED BY <1>0, <2>1, <3>1
  <2>3. NoVerdict.inputs = NoInputs
    BY DEF NoVerdict
  <2>4. CASE \E i \in Ids : verdicts'[p][i].inputs # NoInputs
                            /\ s = UnitStatement(key[p], verdicts'[p], i)
    <3>1. PICK i \in Ids : verdicts'[p][i].inputs # NoInputs
                           /\ s = UnitStatement(key[p], verdicts'[p], i)
      BY <2>4
    <3>2. CASE verdicts'[p][i] = verdicts[p][i]
      <4>1. verdicts[p][i].inputs # NoInputs /\ s = UnitStatement(key[p], verdicts[p], i)
        BY <3>1, <3>2 DEF UnitStatement
      <4>. QED BY <1>2, <4>1, StatementCases
    <3>3. CASE i = Id(j)
      BY <1>1, <1>4, <3>1, <3>3 DEF Learnt
    <3>. QED BY <2>2, <2>3, <3>1, <3>2, <3>3
  <2>5. CASE \E f \in Files, op \in Ops, q \in Passes :
               q \in entries'[p][f][op] /\ s = FileStatement(key[p], entries'[p], f, op, q)
    BY <1>2, <2>1, <2>5, StatementCases
  <2>. QED BY <1>1, <2>4, <2>5, StatementCases
<1>. QED BY <1>3, <1>4 DEF Records

\* One run records at a time.
LEMMA OneRecords ==
  ASSUME TypeOK, NEW v \in Workers, NEW w \in Workers, Records(v), Records(w)
  PROVE  v = w
<1>1. /\ job[v].phase = "probe" /\ job' = [job EXCEPT ![v] = NoJob]
      /\ job[w].phase = "probe" /\ job' = [job EXCEPT ![w] = NoJob]
  BY DEF Records, RecordFile, RecordVerdict, Probed
<1>2. NoJob.phase = "idle"
  BY DEF NoJob
<1>. QED BY <1>1, <1>2 DEF TypeOK

\* A step learns at most the statement of the one run that records in it.
LEMMA LearntOnly ==
  ASSUME ShapeInv, [Next]_vars, NEW s \in Ledger' \ Ledger
  PROVE  \E w \in Workers : Records(w) /\ Learnt(w, s)
<1>1. ASSUME NEW p \in Procs
      PROVE  /\ DiskMoves /\ PayloadMoves(p)
             /\ MemoryMoves(p) \/ \E w \in Workers : Records(w) /\ Owner[w] = p
  BY RecordsMove
<1>2. \/ s \in Statements(disk'.key, disk'.entries, disk'.verdicts)
      \/ \E p \in Procs : s \in Statements(key'[p], entries'[p], verdicts'[p])
      \/ \E p \in Procs : s \in Statements(save'[p].payload.key, save'[p].payload.entries,
                                           save'[p].payload.verdicts)
  <2>. DEFINE memory == [p \in Procs |-> Statements(key'[p], entries'[p], verdicts'[p])]
              saved  == [p \in Procs |-> Statements(save'[p].payload.key,
                                                    save'[p].payload.entries,
                                                    save'[p].payload.verdicts)]
  <2>1. /\ {Statements(key'[p], entries'[p], verdicts'[p]) : p \in Procs}
             = {memory[p] : p \in Procs}
        /\ {Statements(save'[p].payload.key, save'[p].payload.entries,
                       save'[p].payload.verdicts) : p \in Procs}
             = {saved[p] : p \in Procs}
    OBVIOUS
  <2>2. Ledger' = Statements(disk'.key, disk'.entries, disk'.verdicts)
                    \cup (UNION {memory[p] : p \in Procs}) \cup (UNION {saved[p] : p \in Procs})
    BY <2>1 DEF Ledger
  <2>3. \/ s \in Statements(disk'.key, disk'.entries, disk'.verdicts)
        \/ \E p \in Procs : s \in memory[p]
        \/ \E p \in Procs : s \in saved[p]
    <3>. HIDE DEF memory, saved
    <3>. QED BY <2>2, InUnion
  <2>. QED BY <2>3
<1>3. s \notin Statements(disk'.key, disk'.entries, disk'.verdicts)
  <2>1. CASE Procs = {}
    <3>1. DiskMoves
      BY <2>1, DiskWithoutProcs DEF DiskMoves
    <3>. QED BY <3>1, DiskStates
  <2>2. CASE Procs # {}
    BY <1>1, <2>2, DiskStates
  <2>. QED BY <2>1, <2>2
<1>4. \A p \in Procs : s \notin Statements(save'[p].payload.key, save'[p].payload.entries,
                                           save'[p].payload.verdicts)
  BY <1>1, PayloadStates
<1>5. PICK p \in Procs : s \in Statements(key'[p], entries'[p], verdicts'[p])
  BY <1>2, <1>3, <1>4
<1>6. PICK w \in Workers : Records(w) /\ Owner[w] = p
  BY <1>1, <1>5, MemoryStates
<1>. QED BY <1>5, <1>6, RunStates

\* All of it is true.
LEMMA LedgerTrue ==
  ASSUME TypeOK, LintSound, FixSound, NEW s \in Ledger
  PROVE  StatementTrue(s)
<1>1. CASE s \in Statements(disk.key, disk.entries, disk.verdicts)
  BY <1>1, RecordsStateTruth DEF TypeOK, FileData, LintSound, FixSound
<1>2. ASSUME NEW p \in Procs, s \in Statements(key[p], entries[p], verdicts[p])
      PROVE  StatementTrue(s)
  BY <1>2, RecordsStateTruth DEF TypeOK, LintSound, FixSound
<1>3. ASSUME NEW p \in Procs,
             s \in Statements(save[p].payload.key, save[p].payload.entries,
                              save[p].payload.verdicts)
      PROVE  StatementTrue(s)
  <2>1. /\ save[p].payload.entries \in [Files -> Entry]
        /\ save[p].payload.verdicts \in [Ids -> Verdict]
    BY DEF TypeOK, SaveState, FileData
  <2>. QED BY <1>3, <2>1, RecordsStateTruth DEF LintSound, FixSound
<1>. QED BY <1>1, <1>2, <1>3, LedgerPlaces

AllTrue == \A s \in Ledger : StatementTrue(s)

\* The execution cache implements the ledger: every step of every process learns at
\* most the one pass its tool run established, and it is true; saves, merges, reloads,
\* prunes and crashes only copy or lose statements.  As for the soundness of each
\* operation, nobody puts back what a lint has observed nor writes what a fix is at.
THEOREM LedgerImplemented ==
  ASSUME Restoring = FALSE, Interfering = FALSE
  PROVE  Spec => Implements
<1>1. Init => Abstract!Init
  <2>. SUFFICES ASSUME Init, NEW s PROVE s \notin Ledger
    BY DEF Abstract!Init
  <2>. QED BY NothingStated, LedgerPlaces DEF Init, NoFile, NoSave
<1>2. TypeOK /\ LintSound /\ FixSound => AllTrue
  BY LedgerTrue DEF AllTrue
<1>3. ShapeInv /\ [Next]_vars /\ AllTrue' => [Abstract!Next]_Ledger
  <2>. SUFFICES ASSUME ShapeInv, [Next]_vars, AllTrue',
                       NEW x \in Ledger' \ Ledger, NEW y \in Ledger' \ Ledger
                PROVE  StatementTrue(x) /\ x = y
    BY DEF Abstract!Next
  <2>1. StatementTrue(x)
    BY DEF AllTrue
  <2>2. PICK v \in Workers, w \in Workers : /\ Records(v) /\ Learnt(v, x)
                                            /\ Records(w) /\ Learnt(w, y)
    BY LearntOnly
  <2>3. v = w
    BY <2>2, OneRecords DEF ShapeInv
  <2>4. ~(RecordFile(w) /\ RecordVerdict(w))
    BY CacheAssumption DEF RecordFile, RecordVerdict
  <2>. QED BY <2>1, <2>2, <2>3, <2>4 DEF Learnt
<1>. QED BY <1>1, <1>2, <1>3, ShapeInvariant, TypeCorrect, LintSoundness, FixSoundness, PTL
         DEF Spec, Implements, Abstract!Spec
=============================================================================
