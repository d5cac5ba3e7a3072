---------------------------- MODULE MCStoreReady ----------------------------
(***************************************************************************)
(* A small store for StoreReady: a tool and its dependency, each with a    *)
(* step, a parser module in the bundle, and two processes.                 *)
(***************************************************************************)
EXTENDS StoreReady

SmallOrder   == <<"dep", "tool">>
BinOfSmall   == [a \in {"dep", "tool"} |-> IF a = "dep" THEN "depBin" ELSE "toolBin"]
StateOfSmall == [a \in {"dep", "tool"} |-> IF a = "dep" THEN "depState" ELSE "toolState"]
LeftBefore   == {{}, {"toolState"}, {"parser"}}
Pids         == [p \in {"p", "q"} |-> IF p = "p" THEN 7 ELSE 8]
OneHost      == [p \in {"p", "q"} |-> "host"]
TwoContainers == [p \in {"p", "q"} |-> p]
=============================================================================
