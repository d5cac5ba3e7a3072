---------------------------- MODULE MCExecCache ----------------------------
(***************************************************************************)
(* Small instances of ExecCache.  Tool "t" accepts "ok" and tool "s"       *)
(* accepts "odd"; configuration k2, or a managed config reading "odd",     *)
(* makes "t" accept "odd" too.  A fixer turns what it rejects into what it *)
(* likes best.                                                             *)
(***************************************************************************)
EXTENDS ExecCache

Accepts(k, t, c) ==
  IF t = "s" THEN {"odd"} ELSE {"ok"} \cup (IF k = "k2" \/ c = "odd" THEN {"odd"} ELSE {})

MCClean(k, t, vec) ==
  \A x \in DOMAIN vec \ {Conf} : vec[x] \in Accepts(k, t, vec[Conf])

MCFixed(k, t, c, b) ==
  IF b \in Accepts(k, t, c) THEN b ELSE IF t = "s" THEN "odd" ELSE "ok"

MCMembers == [u \in Units |-> Files]
NoMembers == [u \in {} |-> {}]
ThreeOwners == [w \in Workers |-> IF w = "wl" THEN "lsp" ELSE "cli"]
TwoOwners == [w \in Workers |-> IF w = "wc" THEN "cli" ELSE "lsp"]

\* A linter and another tool's fixer of one file; a unit as a whole, with a fixer of
\* one of its files.
LintAgainstFix == {<<"t", "lint", "f">>, <<"s", "fix", "f">>}
UnitAndFile    == {<<"t", "lint", "u">>, <<"t", "fix", "u">>, <<"t", "fix", "f">>}

\* At most so many of each; no one else writes, fails, or moves the clock.
Limit(opens, lints, fixes) ==
  [c \in Counters |-> CASE c = "opens" -> opens [] c = "lint" -> lints
                        [] c = "fix" -> fixes [] OTHER -> 0]

\* An edit among two runs, or two, of an editor that also writes what a fixer has; a
\* configuration switched under two processes, or between a session and its reload; a
\* crash, a failed write, a cleared or pruned cache between restarts.
FileBounds == {[Limit(2, 2, 0) EXCEPT !["edits"] = 1],
               [Limit(1, 1, 1) EXCEPT !["edits"] = 2],
               [Limit(2, 1, 1) EXCEPT !["configs"] = 1],
               [Limit(3, 1, 0) EXCEPT !["configs"] = 1],
               [Limit(3, 1, 0) EXCEPT !["edits"] = 1, !["failures"] = 1, !["clears"] = 1]}

\* Two lints of one unit in one process with an edit; a lint against a fix in one
\* process; a fix with an edit or a crash between two processes; verdicts of two
\* processes, aging and pruned.
UnitBounds == {[Limit(1, 2, 0) EXCEPT !["edits"] = 1], Limit(1, 1, 1),
               [Limit(2, 0, 1) EXCEPT !["edits"] = 1],
               [Limit(2, 0, 1) EXCEPT !["failures"] = 1],
               [Limit(2, 2, 0) EXCEPT !["ticks"] = 1]}
============================================================================
