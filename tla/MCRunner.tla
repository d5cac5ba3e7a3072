------------------------------ MODULE MCRunner ------------------------------
(***************************************************************************)
(* Small instances of Runner: a check that fixes and then lints, with a    *)
(* tool of two tasks whose processes may report the same findings of one   *)
(* line, and a tool without a parser.                                      *)
(***************************************************************************)
EXTENDS Runner

Check == <<"fix", "lint">>

\* The lint tasks of "eslint" share a step; "buf" follows.
CheckPlan == [op \in ToSet(Check) |->
                IF op = "fix" THEN <<{"fix1"}>> ELSE <<{"lint1", "lint2"}, {"buf1"}>>]

\* Nothing to fix, and lint tasks that overlap.
LintPlan == [op \in ToSet(Check) |-> IF op = "fix" THEN <<>> ELSE <<{"lint1"}, {"lint2"}>>]

CheckTools == [t \in {"fix1", "lint1", "lint2", "buf1"} |-> IF t = "buf1" THEN "buf" ELSE "eslint"]
OneEach    == [t \in DOMAIN CheckTools |-> IF t = "lint1" THEN 2 ELSE 1]

\* Three findings of one rule on one line.
F(i) == <<"eslint", "line", i>>

Parses(fs)  == {[has |-> fs, found |-> fs, read |-> "parsed", zero |-> z] : z \in BOOLEAN}
Unread(fs)  == [has |-> fs, found |-> {}, read |-> "parse-failed", zero |-> TRUE]
Crashed(fs) == [has |-> fs, found |-> {}, read |-> "parsed", zero |-> FALSE]
Mute        == {[has |-> {}, found |-> {}, read |-> "none", zero |-> z] : z \in BOOLEAN}

Clean == [has |-> {}, found |-> {}, read |-> "parsed", zero |-> TRUE]
Finds(fs) == [has |-> fs, found |-> fs, read |-> "parsed", zero |-> TRUE]

CheckAnswers ==
  [t \in DOMAIN CheckTools |->
     CASE t = "fix1"  -> {Finds({F(1)})}
       [] t = "lint1" -> {Clean, Finds({F(2), F(3)}), Crashed({F(3)})}
       [] t = "lint2" -> {Finds({F(1), F(2)}), Unread({F(3)})}
       [] OTHER       -> Mute]

AllFindings == {F(i) : i \in 1 .. 3}
Lines == {<<"eslint", "line">>}
CheckBaselines == [Lines -> 0 .. 2]

NoSkips == [op \in ToSet(Check) |-> {}]

Plain == [plan |-> CheckPlan, failFast |-> FALSE, required |-> "none", failOnSkip |-> FALSE, whole |-> TRUE,
          partial |-> {}, skipped |-> NoSkips, typed |-> TRUE, misplaced |-> FALSE]

CheckAsked == {Plain, [Plain EXCEPT !.failFast = TRUE],
  [Plain EXCEPT !.required = "unit", !.partial = {"lint1"}],
  [Plain EXCEPT !.required = "repo", !.whole = FALSE],
  [Plain EXCEPT !.failOnSkip = TRUE, !.skipped["lint"] = {<<"ruff", "platform">>}],
  [Plain EXCEPT !.required = "repo", !.skipped["fix"] = {<<"ruff", "narrow">>, <<"taplo", "config">>}],
  [Plain EXCEPT !.misplaced = TRUE],
  [Plain EXCEPT !.plan = LintPlan, !.skipped["fix"] = {<<"ruff", "config">>}]}

\* A repository without a project the configuration knows.
Untyped == {[Plain EXCEPT !.required = "repo", !.typed = FALSE]}
=============================================================================
