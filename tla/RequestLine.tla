---------------------------- MODULE RequestLine ----------------------------
(***************************************************************************)
(* What a client may rely on: requests stand in one line, numbered as they *)
(* arrive; each is answered once, in that order, and the only ones never   *)
(* answered are the last in line when the session ends.                    *)
(***************************************************************************)
EXTENDS Naturals

VARIABLES
  line,       \* the requests read and not yet answered
  answered    \* those answered

Init == line = {} /\ answered = {}

Arrive == /\ \E n \in line' : /\ \A m \in line \cup answered : m < n
                             /\ line' = line \cup {n}
          /\ UNCHANGED answered

Answer == \E n \in line : /\ \A m \in line : n <= m
                          /\ line' = line \ {n}
                          /\ answered' = answered \cup {n}

HangUp == /\ \E n \in line : line' = {m \in line : m < n}
          /\ UNCHANGED answered

Next == Arrive \/ Answer \/ HangUp

Spec == Init /\ [][Next]_<<line, answered>>
=============================================================================
