----------------------------- MODULE PassLedger -----------------------------
(***************************************************************************)
(* What the execution cache promises, whatever happens to its processes    *)
(* and its file: it is a ledger of true statements.  A statement enters    *)
(* because one tool run established it; after that it may be copied or     *)
(* forgotten, never altered.                                               *)
(***************************************************************************)
CONSTANT True(_)      \* does the tool really say so?

VARIABLE ledger       \* the statements recorded anywhere

Init == ledger = {}

\* At most one statement is learnt at a time, and it is true; any may be lost.
Next == \A x, y \in ledger' \ ledger : True(x) /\ x = y

Spec == Init /\ [][Next]_ledger
=============================================================================
