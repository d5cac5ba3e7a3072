--------------------------- MODULE MCLspTransport ---------------------------
(***************************************************************************)
(* Small instances of LspTransport: sessions bounded by the messages the   *)
(* client sends.                                                           *)
(***************************************************************************)
EXTENDS LspTransport

Nothing == [c \in Counters |-> 0]
Session == [Nothing EXCEPT !["initialize"] = 1]

\* Two formats among two changes of the document; a cancel of any request; every way
\* to end, a signal among them.
SessionBounds ==
  {[Session EXCEPT !["formatting"] = 2, !["changes"] = 2],
   [Session EXCEPT !["formatting"] = 1, !["other"] = 1, !["cancels"] = 1],
   [Session EXCEPT !["formatting"] = 1, !["shutdown"] = 1, !["stops"] = 1]}
=============================================================================
