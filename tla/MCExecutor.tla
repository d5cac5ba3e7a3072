---------------------------- MODULE MCExecutor ----------------------------
(***************************************************************************)
(* Small plans for Executor.                                               *)
(***************************************************************************)
EXTENDS Executor

\* Two groups.  In the first c overlaps b only, so a step of a, b and d is
\* followed by one of c; a and b are chunked, c checks two files; then e.
TwoGroups == <<<<"a", "b", "c", "d">>, <<"e">>>>
BC == {<<"b", "c">>, <<"c", "b">>}
SomeTwo == [t \in Tasks |-> IF t \in {"a", "b", "c"} THEN 2 ELSE 1]
=============================================================================
