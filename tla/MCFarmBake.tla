---------------------------- MODULE MCFarmBake ----------------------------
(***************************************************************************)
(* Small instances of FarmBake: a repository whose config declares one     *)
(* more app in every other version, and a chain of flags that adds a file  *)
(* and an app.                                                             *)
(***************************************************************************)
EXTENDS FarmBake

MCFiles == [c \in Chains |-> IF c = Plain THEN {} ELSE {"extra"}]

MCApps(c, read) ==
  {"tofu"} \cup (IF read["config"] % 2 = 1 THEN {"kubectl"} ELSE {})
           \cup (IF c = Plain THEN {} ELSE {"dive"})

Limit(edits, runs, failures) ==
  [c \in Counters |-> CASE c = "edits" -> edits [] c = "runs" -> runs
                        [] c = "failures" -> failures [] OTHER -> 0]

\* Edits among bakes, flagged ones among them; a failing step, a torn swap, a
\* crash among bakes.
BakeBounds == {Limit(2, 1, 0), Limit(1, 2, 0), Limit(1, 1, 1),
               [Limit(1, 1, 0) EXCEPT !["torn"] = 1], [Limit(1, 1, 0) EXCEPT !["crashes"] = 1]}
============================================================================
