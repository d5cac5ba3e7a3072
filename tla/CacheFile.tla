----------------------------- MODULE CacheFile -----------------------------
(***************************************************************************)
(* The content of an execution cache (internal/cache): per-file entries    *)
(* and unit verdicts, and the pure operations on them.  What a tool really *)
(* answers is given by the constants Clean and Fixed; a hash is the        *)
(* content it was taken from, and Gone stands for a path that cannot be    *)
(* read.                                                                   *)
(***************************************************************************)
EXTENDS Naturals

CONSTANTS
  Keys,        \* invalidation keys, one per configuration
  Files,       \* project files
  Conf,        \* the managed config every tool reads (a guard of every unit)
  Contents,    \* what a path can hold
  Gone,        \* ... and what a missing path reads as
  Tools,
  Units,       \* directories whose tools answer for all their members at once
  Members,     \* Members[u]: the files of unit u
  TTL,         \* how long a verdict is trusted, in clock ticks
  PruneAge,    \* how old an unused verdict is when the daily prune drops it
  Clean(_, _, _),      \* Clean(k, t, vec): under k, t reports nothing on vec
  Fixed(_, _, _, _)    \* Fixed(k, t, c, b): what t with config c makes of b

ASSUME CacheAssumption ==
  /\ Conf \notin Files
  /\ Gone \notin Contents
  /\ Units \cap Files = {}
  /\ Members \in [Units -> (SUBSET Files) \ {{}}]
  /\ TTL \in Nat /\ PruneAge \in Nat
  /\ \A k \in Keys, t \in Tools, c \in Contents \cup {Gone}, b \in Contents :
        /\ Fixed(k, t, c, b) \in Contents
        /\ Fixed(k, t, c, Fixed(k, t, c, b)) = Fixed(k, t, c, b)

Ops    == {"lint", "fix"}
Bytes  == Contents \cup {Gone}
Paths  == Files \cup {Conf}
Ids    == Tools \X Ops \X Units
Passes == Tools \X Bytes      \* perFileCacheTool: a tool and its config digest

InputsOf(u) == Members[u] \cup {Conf}
Vectors     == UNION {[InputsOf(u) -> Bytes] : u \in Units}
FileVec(f, b, c) == [x \in {f, Conf} |-> IF x = f THEN b ELSE c]

Entry      == [hash : Bytes, lint : SUBSET Passes, fix : SUBSET Passes]
NoEntry    == [hash |-> Gone, lint |-> {}, fix |-> {}]
NoInputs   == [x \in {} |-> Gone]
Verdict    == [inputs : Vectors \cup {NoInputs}, at : Nat]
NoVerdict  == [inputs |-> NoInputs, at |-> 0]
NoEntries  == [f \in Files |-> NoEntry]
NoVerdicts == [i \in Ids |-> NoVerdict]

(***************************************************************************)
(* Per-file entries.                                                       *)
(***************************************************************************)

\* Check: is the pass of `pass` for op on the bytes h on record?
EntryHit(e, pass, op, h) ==
  /\ h # Gone
  /\ e.hash = h
  /\ pass \in e[op]

\* Mutants of EntryAfterLint: the pass joins whatever entry there is; the config
\* digest is left out of the pass.
AfterLintAppends(e, pass, h) ==
  IF e.hash # Gone THEN [e EXCEPT !.lint = @ \cup {pass}]
                   ELSE [hash |-> h, lint |-> {pass}, fix |-> {}]
AfterLintNoDigest(e, pass, h) == [hash |-> h, lint |-> {pass[1]}, fix |-> {}]

\* AfterLint: passes earned by other bytes are replaced, not extended.
EntryAfterLint(e, pass, h) ==
  IF e.hash = h THEN [e EXCEPT !.lint = @ \cup {pass}]
                ELSE [hash |-> h, lint |-> {pass}, fix |-> {}]

\* AfterFix: h is the hash of whatever the file holds after the run.
EntryAfterFix(e, pass, h) ==
  IF e.hash = h THEN [e EXCEPT !.fix = @ \cup {pass}]
                ELSE [hash |-> h, lint |-> {}, fix |-> {pass}]

\* Mutants of MergeEntry: passes are united whatever the hashes; ours always wins.
MergeUnites(ours, disk) ==
  IF ours.hash = Gone THEN disk
  ELSE [ours EXCEPT !.lint = @ \cup disk.lint, !.fix = @ \cup disk.fix]
MergeOursWins(ours, disk) == IF ours.hash = Gone THEN disk ELSE ours

\* The per-path rule of mergeFromDisk: adopt, drop a conflict, or unite.
MergeEntry(ours, disk) ==
  IF disk.hash = Gone THEN ours
  ELSE IF ours.hash = Gone THEN disk
  ELSE IF ours.hash # disk.hash THEN NoEntry
  ELSE [hash |-> ours.hash,
        lint |-> ours.lint \cup disk.lint, fix |-> ours.fix \cup disk.fix]

\* Mutant of MergeEntries: the merge ignores tombstones.
MergeAllEntries(ours, disk, gone) == [f \in Files |-> MergeEntry(ours[f], disk[f])]

MergeEntries(ours, disk, gone) ==
  [f \in Files |-> IF f \in gone THEN ours[f] ELSE MergeEntry(ours[f], disk[f])]

(***************************************************************************)
(* Unit verdicts.                                                          *)
(***************************************************************************)

\* ShouldRunVerdict, negated: same inputs, inside the TTL, not from the future.
VerdictHit(v, inputs, now) ==
  /\ v.inputs = inputs
  /\ v.at <= now
  /\ now - v.at <= TTL

\* Mutant of MergeVerdict: the verdict in memory always wins.
MergeVerdictOursWins(ours, disk, now) == IF ours.inputs = NoInputs THEN disk ELSE ours

\* mergeFromDisk: the newer validation wins, a future one is clamped to now.
MergeVerdict(ours, disk, now) ==
  LET clamped == [disk EXCEPT !.at = IF @ > now THEN now ELSE @]
  IN  IF disk.inputs # NoInputs /\ (ours.inputs = NoInputs \/ clamped.at > ours.at)
      THEN clamped ELSE ours

MergeVerdicts(ours, disk, gone, now) ==
  [i \in Ids |-> IF i \in gone THEN ours[i]
                               ELSE MergeVerdict(ours[i], disk[i], now)]

(***************************************************************************)
(* Prune: entries of vanished files, verdicts nobody validated for long.   *)
(***************************************************************************)
StaleEntries(entries, content) ==
  {f \in Files : entries[f].hash # Gone /\ content[f] = Gone}

StaleVerdicts(verdicts, now) ==
  {i \in Ids : /\ verdicts[i].inputs # NoInputs
              /\ verdicts[i].at + PruneAge < now}

PruneEntries(entries, stale) ==
  [f \in Files |-> IF f \in stale THEN NoEntry ELSE entries[f]]

PruneVerdicts(verdicts, stale) ==
  [i \in Ids |-> IF i \in stale THEN NoVerdict ELSE verdicts[i]]

(***************************************************************************)
(* What a record claims, and whether the claim is true.                    *)
(***************************************************************************)

LintEntryTrue(k, f, e) ==
  \A pass \in e.lint : Clean(k, pass[1], FileVec(f, e.hash, pass[2]))

FixEntryTrue(k, f, e) ==
  \A pass \in e.fix : e.hash # Gone => Fixed(k, pass[1], pass[2], e.hash) = e.hash

LintVerdictTrue(k, i, v) ==
  (i[2] = "lint" /\ v.inputs # NoInputs) => Clean(k, i[1], v.inputs)

FixVerdictTrue(k, i, v) ==
  (i[2] = "fix" /\ v.inputs # NoInputs) =>
     \A f \in Members[i[3]] : v.inputs[f] # Gone =>
        Fixed(k, i[1], v.inputs[Conf], v.inputs[f]) = v.inputs[f]

LintTrue(k, entries, verdicts) ==
  /\ \A f \in Files : LintEntryTrue(k, f, entries[f])
  /\ \A i \in Ids : LintVerdictTrue(k, i, verdicts[i])

FixTrue(k, entries, verdicts) ==
  /\ \A f \in Files : FixEntryTrue(k, f, entries[f])
  /\ \A i \in Ids : FixVerdictTrue(k, i, verdicts[i])
============================================================================
