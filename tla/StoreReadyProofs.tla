-------------------------- MODULE StoreReadyProofs --------------------------
(***************************************************************************)
(* Theorems about StoreReady: nobody but the user takes a ready subtree    *)
(* away, a step runs once and after what it depends on, and, where the     *)
(* sweeper can see every owner, no layout of a living step is swept and    *)
(* what is marked is whole.                                                *)
(***************************************************************************)
EXTENDS StoreReady, TLAPS

(***************************************************************************)
(* The inductive invariant.                                                *)
(***************************************************************************)

\* Who is past the lock of a subtree holds it.
LockHeld == \A p \in Procs, s \in Subtrees : at[p][s] \in Inside => lock[s] = <<p, "caller">>

\* How far a process can be in each of its phases.
Installs == {"none", "queued", "fetch", "move", "moving", "done", "failed"}
Places   == {"place", "aside", "rename"}
Laid     == {"publish", "step", "stepping", "validate"} \cup Places
Steps    == {"none", "queued", "wait", "won", "stage", "done", "failed"} \cup Laid
Layers   == {"none", "queued", "wait", "won", "blob", "done", "failed"} \cup Places

Phases ==
  \A p \in Procs :
    /\ \A s \in Subtrees : /\ pc[p] \in {"idle", "down"} => at[p][s] = "none"
                           /\ pc[p] = "seed" => at[p][s] \in Layers
    /\ \A s \in Bins : /\ pc[p] = "install" => at[p][s] \in Installs
                       /\ pc[p] = "prepare" => at[p][s] \in {"none", "done"}
    /\ \A s \in States : /\ pc[p] = "install" => at[p][s] \in {"none", "queued"}
                         /\ pc[p] = "prepare" => at[p][s] \in Steps

\* What is worked on is of the closure, and a step has begun only when those
\* before it are done.
Begun(p, i) == StateOf[Order[i]] \in States /\ at[p][StateOf[Order[i]]] \notin {"none", "queued"}

InOrder ==
  \A p \in Procs :
    /\ pc[p] \in {"install", "prepare"} =>
         \A s \in States : at[p][s] # "none" => \E i \in DOMAIN Order : StateOf[Order[i]] = s
    /\ pc[p] = "install" => \A s \in Bins : at[p][s] # "none" => \E a \in Closure : BinOf[a] = s
    /\ pc[p] = "prepare" =>
         \A i, j \in DOMAIN Order :
           Begun(p, i) /\ j < i /\ StateOf[Order[j]] \in States => at[p][StateOf[Order[j]]] = "done"

\* The state that a lock's holder works on does not become ready meanwhile,
\* and only a state is ever moved aside.
Unready ==
  \A p \in Procs :
    /\ \A s \in States : /\ at[p][s] \in Inside \ {"won"} => ~Ready(s)
                         /\ at[p][s] = "rename" => ~There(s)
    /\ \A s \in Subtrees : at[p][s] = "aside" => s \in States

\* A layout belongs to a step under way; it is marked before it is placed.
LayoutHome ==
  \A p \in Procs :
    /\ layout[p].there \/ layout[p].published =>
         pc[p] = "prepare" /\ \E s \in States : at[p][s] \in Laid
    /\ layout[p].there /\ pc[p] = "prepare" =>
         \A s \in States : at[p][s] \in Places => layout[p].marked

\* What is done is there, unless its marker was deleted since.
Good(s) == Ready(s) \/ s \in deleted

Kept ==
  /\ \A p \in Procs, s \in Subtrees : at[p][s] = "done" => Good(s)
  /\ \A p \in Procs : pc[p] = "prepare" => \A a \in Closure : There(BinOf[a])
  /\ \A p \in Procs, s \in Bundle \ Undeclared : pc[p] = "seed" /\ at[p][s] = "none" => Good(s)
  /\ SeedMarkerTrue

IInv == /\ TypeOK /\ LockHeld /\ Phases /\ InOrder /\ Unready /\ LayoutHome /\ Kept
        /\ AsideNotReady

\* The sweeper can see every process that shares the store with it.
OneNamespace == \A p, q \in Procs : NamespaceOf[p] = NamespaceOf[q]

\* Then a step that has begun has its directory, published and leased, and what
\* is placed was found usable.
Laying ==
  \A p \in Procs :
    /\ layout[p].there => layout[p].leased
    /\ layout[p].published => layout[p].there
    /\ pc[p] = "prepare" =>
         \A s \in States :
           /\ at[p][s] \in Laid => (layout[p].published <=> at[p][s] # "publish")
           /\ at[p][s] = "validate" => layout[p].content \in {"whole", "unusable"}
           /\ at[p][s] \in Places => layout[p].content = "whole"

ThereIsWhole == \A s \in Subtrees : There(s) => store[s].content = "whole"

IInvOne == IInv /\ Laying /\ ThereIsWhole

(***************************************************************************)
(* What most actions have in common: one process gets on with one subtree. *)
(***************************************************************************)

\* Its status is one of its phase, and what it begins comes next.
Advances(p, s, to) ==
  /\ Set(p, s, to) /\ UNCHANGED <<seeded, cmd, pc, bounds>>
  /\ at[p][s] \notin {"none", "done"} /\ to \in Statuses \ {"none", "queued"}
  /\ \/ pc[p] = "install" /\ s \in Bins /\ to \in Installs
     \/ pc[p] = "prepare" /\ s \in States /\ to \in Steps
     \/ pc[p] = "seed" /\ to \in Layers
  /\ pc[p] = "prepare" /\ at[p][s] = "queued" =>
       \A i, j \in DOMAIN Order :
         StateOf[Order[i]] = s /\ j < i /\ StateOf[Order[j]] \in States => at[p][StateOf[Order[j]]] = "done"

\* It takes the lock when nobody has it, and gives back its own.
Locks(p, s, to) ==
  /\ orphans' \subseteq Procs \X States
  /\ \/ lock' = lock /\ (to \in Inside => at[p][s] \in Inside)
     \/ \E h \in Holders : /\ lock[s] \in {Free, <<p, "caller">>}
                           /\ lock' = [lock EXCEPT ![s] = h]
                           /\ to \in Inside => h = <<p, "caller">>

\* It changes only what is not ready, a state only under its lock.
Stores(p, s, to) ==
  /\ \/ store' = store
     \/ /\ ~Ready(s) /\ (s \in States => at[p][s] \in Inside)
        /\ \E v \in Stored : store' = [store EXCEPT ![s] = v] /\ (s \in Bins => v.there)
  /\ to = "done" => Ready(s)'
  /\ to \in Inside \ {"won"} /\ s \in States => ~Ready(s)'
  /\ to = "rename" /\ s \in States => ~There(s)'
  /\ to = "aside" => s \in States
  /\ \/ tmp' = tmp
     \/ tmp' = tmp \cup {AsideOf(s)} /\ s \in States /\ There(s) /\ ~Ready(s)

\* It builds its layout after the staging has begun, and marks it before it
\* places it.
Lays(p, s, to) ==
  \E l \in Layouts :
    /\ layout' = [layout EXCEPT ![p] = l]
    /\ l # layout[p] => at[p][s] # "queued"
    /\ l.there \/ l.published => \/ pc[p] = "prepare" /\ to \in Laid
                                 \/ l = layout[p] /\ at[p][s] \notin Laid
    /\ pc[p] = "prepare" /\ to \in Places /\ l.there => l.marked

Move(p, s, to) == Advances(p, s, to) /\ Locks(p, s, to) /\ Stores(p, s, to) /\ Lays(p, s, to)

\* What a new status is, member by member.
LEMMA AtPointwise ==
  ASSUME TypeOK, NEW p \in Procs, NEW s \in Subtrees, NEW to, Set(p, s, to)
  PROVE  \A q \in Procs, t \in Subtrees : at'[q][t] = IF q = p /\ t = s THEN to ELSE at[q][t]
BY DEF TypeOK, Set

\* A process works on one state at a time.
LEMMA OneStep ==
  ASSUME InOrder, NEW p \in Procs, pc[p] = "prepare", NEW s \in States, NEW t \in States,
         at[p][s] \notin {"none", "queued", "done"}, at[p][t] \notin {"none", "queued", "done"}
  PROVE  s = t
<1>1. PICK i \in DOMAIN Order : StateOf[Order[i]] = s
  BY DEF InOrder
<1>2. PICK j \in DOMAIN Order : StateOf[Order[j]] = t
  BY DEF InOrder
<1>3. ~(i < j) /\ ~(j < i)
  BY <1>1, <1>2 DEF InOrder, Begun
<1>4. i \in Nat /\ j \in Nat
  BY StoreAssumption
<1>. QED BY <1>1, <1>2, <1>3, <1>4

\* A move keeps the invariant.
LEMMA MoveKeeps ==
  ASSUME IInv, NEW p \in Procs, NEW s \in Subtrees, NEW to, Move(p, s, to)
  PROVE  IInv'
<1>1. \A q \in Procs, t \in Subtrees : at'[q][t] = IF q = p /\ t = s THEN to ELSE at[q][t]
  BY AtPointwise DEF IInv, Move, Advances
<1>2. pc' = pc /\ seeded' = seeded /\ cmd' = cmd /\ deleted' = deleted
      /\ calls' = calls /\ deaths' = deaths /\ deletions' = deletions
  BY DEF Move, Advances, bounds
<1>3. PICK l \in Layouts : /\ layout' = [layout EXCEPT ![p] = l]
                           /\ l # layout[p] => at[p][s] # "queued"
                           /\ l.there \/ l.published => \/ pc[p] = "prepare" /\ to \in Laid
                                                        \/ l = layout[p] /\ at[p][s] \notin Laid
                           /\ pc[p] = "prepare" /\ to \in Places /\ l.there => l.marked
  BY DEF Move, Lays
<1>4. layout'[p] = l /\ \A q \in Procs : q # p => layout'[q] = layout[q]
  BY <1>3 DEF IInv, TypeOK
<1>5. \A t \in Subtrees : t # s => store'[t] = store[t] /\ lock'[t] = lock[t]
  BY DEF IInv, TypeOK, Move, Stores, Locks
<1>6. \/ store' = store
      \/ ~Ready(s) /\ (s \in States => at[p][s] \in Inside) /\ (s \in Bins => There(s)')
  BY DEF IInv, TypeOK, Move, Stores, There
<1>7. TypeOK'
  <2>1. store' \in [Subtrees -> Stored]
    BY DEF IInv, TypeOK, Move, Stores
  <2>2. lock' \in [Subtrees -> Holders] /\ orphans' \subseteq Procs \X States
    BY DEF IInv, TypeOK, Move, Locks
  <2>3. tmp' \subseteq Debris
    <3>1. AsideOf(s) \in Debris
      BY DEF IInv, TypeOK, AsideOf, Debris, Stored
    <3>. QED BY <3>1 DEF IInv, TypeOK, Move, Stores
  <2>4. layout' \in [Procs -> Layouts]
    BY <1>3 DEF IInv, TypeOK
  <2>5. at' \in [Procs -> [Subtrees -> Statuses]]
    BY DEF IInv, TypeOK, Move, Advances, Set
  <2>6. \A q \in Procs : layout'[q].there => pc'[q] = "prepare"
    BY <1>2, <1>3, <1>4 DEF IInv, TypeOK
  <2>. QED BY <1>2, <2>1, <2>2, <2>3, <2>4, <2>5, <2>6 DEF IInv, TypeOK
<1>8. LockHeld'
  <2>1. SUFFICES ASSUME NEW q \in Procs, NEW t \in Subtrees, at'[q][t] \in Inside
                 PROVE  lock'[t] = <<q, "caller">>
    BY DEF LockHeld
  <2>2. CASE t # s
    BY <1>1, <1>5, <2>1, <2>2 DEF IInv, LockHeld
  <2>3. CASE t = s /\ q = p
    BY <1>1, <2>1, <2>3 DEF IInv, LockHeld, Move, Locks, TypeOK
  <2>4. CASE t = s /\ q # p
    <3>1. lock[s] = <<q, "caller">>
      BY <1>1, <2>1, <2>4 DEF IInv, LockHeld
    <3>2. lock[s] \notin {Free, <<p, "caller">>}
      BY <3>1, <2>4 DEF Free
    <3>. QED BY <3>1, <3>2, <2>4 DEF Move, Locks
  <2>. QED BY <2>2, <2>3, <2>4
<1>9. Phases'
  BY <1>1, <1>2, StoreAssumption DEF IInv, Phases, Move, Advances, Subtrees
<1>10. InOrder'
  <2>1. ASSUME NEW q \in Procs, pc[q] \in {"install", "prepare"}, NEW t \in States,
               at'[q][t] # "none"
        PROVE  \E i \in DOMAIN Order : StateOf[Order[i]] = t
    BY <1>1, <2>1 DEF IInv, InOrder, Move, Advances, Subtrees
  <2>2. ASSUME NEW q \in Procs, pc[q] = "prepare", NEW i \in DOMAIN Order, NEW j \in DOMAIN Order,
               StateOf[Order[i]] \in States, at'[q][StateOf[Order[i]]] \notin {"none", "queued"},
               j < i, StateOf[Order[j]] \in States
        PROVE  at'[q][StateOf[Order[j]]] = "done"
    BY <1>1, <2>2 DEF IInv, InOrder, Begun, Move, Advances, Subtrees
  <2>3. ASSUME NEW q \in Procs, pc[q] = "install", NEW b \in Bins, at'[q][b] # "none"
        PROVE  \E a \in Closure : BinOf[a] = b
    BY <1>1, <2>3 DEF IInv, InOrder, Move, Advances, Subtrees
  <2>. QED BY <1>2, <2>1, <2>2, <2>3 DEF InOrder, Begun
<1>11. Unready'
  <2>1. ASSUME NEW q \in Procs, NEW t \in States, at'[q][t] \in Inside \ {"won"}
        PROVE  ~Ready(t)' /\ (at'[q][t] = "rename" => ~There(t)')
    <3>1. CASE t # s
      BY <1>1, <1>5, <2>1, <3>1 DEF IInv, Unready, Ready, There, Subtrees
    <3>2. CASE t = s /\ q = p
      BY <1>1, <2>1, <3>2 DEF Move, Stores, Subtrees, Inside, Active
    <3>3. CASE t = s /\ q # p
      <4>1. at[q][s] \in Inside \ {"won"} /\ lock[s] = <<q, "caller">>
        BY <1>1, <2>1, <3>3 DEF IInv, LockHeld, Subtrees
      <4>2. at[p][s] \notin Inside
        BY <4>1, <3>3 DEF IInv, LockHeld
      <4>3. store' = store
        BY <1>6, <4>2, <3>3
      <4>4. Ready(s)' = Ready(s) /\ There(s)' = There(s)
        BY <4>3 DEF Ready, There
      <4>. QED BY <1>1, <2>1, <3>3, <4>1, <4>4 DEF IInv, Unready
    <3>. QED BY <3>1, <3>2, <3>3
  <2>2. ASSUME NEW q \in Procs, NEW t \in Subtrees, at'[q][t] = "aside" PROVE t \in States
    BY <1>1, <2>2 DEF IInv, Unready, Move, Stores
  <2>. QED BY <2>1, <2>2 DEF Unready, Inside, Active
<1>12. LayoutHome'
  <2>1. ASSUME NEW q \in Procs, layout'[q].there \/ layout'[q].published
        PROVE  pc[q] = "prepare" /\ \E t \in States : at'[q][t] \in Laid
    <3>1. CASE q # p
      BY <1>1, <1>4, <2>1, <3>1 DEF IInv, LayoutHome, Subtrees
    <3>2. CASE q = p /\ pc[p] = "prepare" /\ to \in Laid
      BY <1>1, <3>2, StoreAssumption DEF Move, Advances, Subtrees
    <3>3. CASE q = p /\ l = layout[p] /\ at[p][s] \notin Laid
      BY <1>1, <1>4, <2>1, <3>3 DEF IInv, LayoutHome, Subtrees
    <3>. QED BY <1>3, <1>4, <2>1, <3>1, <3>2, <3>3
  <2>2. ASSUME NEW q \in Procs, layout'[q].there, pc[q] = "prepare",
               NEW t \in States, at'[q][t] \in Places
        PROVE  layout'[q].marked
    <3>1. CASE q # p
      BY <1>1, <1>4, <2>2, <3>1 DEF IInv, LayoutHome, Subtrees
    <3>2. CASE q = p /\ t = s
      BY <1>1, <1>3, <1>4, <2>2, <3>2
    <3>3. CASE q = p /\ t # s /\ l = layout[p]
      BY <1>1, <1>4, <2>2, <3>3 DEF IInv, LayoutHome, Subtrees
    <3>4. CASE q = p /\ t # s /\ l # layout[p]
      <4>1. s \in States /\ at[p][s] \notin {"none", "queued", "done"}
        BY <1>3, <2>2, <3>4, StoreAssumption DEF Move, Advances
      <4>2. at[p][t] \notin {"none", "queued", "done"}
        BY <1>1, <2>2, <3>4 DEF Subtrees, Places
      <4>. QED BY <4>1, <4>2, <2>2, <3>4, OneStep DEF IInv
    <3>. QED BY <3>1, <3>2, <3>3, <3>4
  <2>. QED BY <1>2, <2>1, <2>2 DEF LayoutHome
<1>13. Kept'
  <2>1. \A t \in Subtrees : Ready(t) => Ready(t)'
    BY <1>5, <1>6 DEF Ready, There
  <2>2. \A q \in Procs, t \in Subtrees : at'[q][t] = "done" => Good(t)'
    BY <1>1, <1>2, <2>1 DEF IInv, Kept, Good, Move, Stores
  <2>3. \A q \in Procs : pc[q] = "prepare" => \A a \in Closure : There(BinOf[a])'
    BY <2>1, StoreAssumption DEF IInv, Kept, Ready, Subtrees
  <2>4. \A q \in Procs, t \in Bundle \ Undeclared : pc[q] = "seed" /\ at'[q][t] = "none" => Good(t)'
    BY <1>1, <1>2, <2>1, StoreAssumption DEF IInv, Kept, Good, Move, Advances
  <2>5. SeedMarkerTrue'
    BY <1>2, <2>1, StoreAssumption DEF IInv, Kept, SeedMarkerTrue
  <2>. QED BY <1>2, <2>2, <2>3, <2>4, <2>5 DEF Kept
<1>14. AsideNotReady'
  BY DEF IInv, TypeOK, AsideNotReady, Move, Stores, AsideOf, Ready, Stored
<1>. QED BY <1>7, <1>8, <1>9, <1>10, <1>11, <1>12, <1>13, <1>14 DEF IInv

(***************************************************************************)
(* The actions that are moves.                                             *)
(***************************************************************************)

\* Nothing on the disk changes.
LEMMA SameStore ==
  ASSUME NEW p \in Procs, NEW s \in Subtrees, NEW to, UNCHANGED disk,
         to = "done" => Ready(s), to \in Inside \ {"won"} /\ s \in States => ~Ready(s),
         to = "rename" /\ s \in States => ~There(s), to = "aside" => s \in States
  PROVE  Stores(p, s, to)
<1>1. store' = store /\ tmp' = tmp
  BY DEF disk
<1>2. Ready(s)' = Ready(s) /\ There(s)' = There(s)
  BY <1>1 DEF Ready, There
<1>. QED BY <1>1, <1>2 DEF Stores

\* Nothing of the lock and the layout changes.
LEMMA SameHold ==
  ASSUME IInv, NEW p \in Procs, NEW s \in Subtrees, NEW to, UNCHANGED <<lock, orphans, layout>>,
         to \in Inside => at[p][s] \in Inside,
         pc[p] = "prepare" /\ at[p][s] \in Laid => to \in Laid,
         pc[p] = "prepare" /\ to \in Places /\ layout[p].there => layout[p].marked
  PROVE  Locks(p, s, to) /\ Lays(p, s, to)
<1>1. Locks(p, s, to)
  BY DEF IInv, TypeOK, Locks
<1>2. layout' = [layout EXCEPT ![p] = layout[p]] /\ layout[p] \in Layouts
  BY DEF IInv, TypeOK
<1>3. ASSUME layout[p].there \/ layout[p].published
      PROVE  (pc[p] = "prepare" /\ to \in Laid) \/ at[p][s] \notin Laid
  BY <1>3 DEF IInv, LayoutHome
<1>4. Lays(p, s, to)
  BY <1>2, <1>3 DEF Lays
<1>. QED BY <1>1, <1>4

\* The deferred calls at the end of a step or of a layer.
LEMMA LeaveHold ==
  ASSUME IInv, NEW p \in Procs, NEW s \in Subtrees, NEW how \in {"done", "failed"},
         at[p][s] \in Inside, Leave(p, s, how), UNCHANGED orphans
  PROVE  Locks(p, s, how) /\ Lays(p, s, how)
<1>1. Locks(p, s, how)
  BY DEF IInv, TypeOK, LockHeld, Locks, Leave, Unlock, Holders, Inside, Active
<1>2. NoLayout \in Layouts
  BY DEF NoLayout, Layouts, Contents
<1>3. Lays(p, s, how)
  BY <1>2 DEF Lays, Leave, NoLayout, Inside, Active, Places
<1>. QED BY <1>1, <1>3

\* Installing a tool.
LEMMA InstallMoves ==
  ASSUME IInv, NEW p \in Procs, NEW s \in Bins, Install(p, s)
  PROVE  \E to : Move(p, s, to)
<1>1. s \in Subtrees /\ s \notin States
  BY StoreAssumption DEF Subtrees
<1>2. ASSUME NEW to \in {"done", "fetch", "move", "moving", "failed"}, Set(p, s, to), pc[p] = "install",
             at[p][s] \in {"queued", "fetch", "move", "moving"},
             UNCHANGED <<seeded, locks, layout, cmd, pc, bounds>>
      PROVE  Advances(p, s, to) /\ Locks(p, s, to) /\ Lays(p, s, to)
  <2>1. Advances(p, s, to)
    BY <1>2 DEF Advances, Statuses, Active, Installs
  <2>2. UNCHANGED <<lock, orphans, layout>>
    BY <1>2 DEF locks
  <2>. QED BY <1>1, <1>2, <2>1, <2>2, SameHold DEF Inside, Active, Laid, Places
<1>3. ASSUME NEW to \in {"done", "fetch", "move", "moving", "failed"}, UNCHANGED disk,
             to = "done" => There(s)
      PROVE  Stores(p, s, to)
  BY <1>1, <1>3, SameStore DEF Ready
<1>4. CASE LookUp(p, s)
  <2>1. CASE There(s)
    <3>1. Advances(p, s, "done") /\ Locks(p, s, "done") /\ Lays(p, s, "done") /\ Stores(p, s, "done")
      BY <1>2, <1>3, <1>4, <2>1 DEF LookUp, Installing, disk
    <3>. QED BY <3>1 DEF Move
  <2>2. CASE ~There(s)
    <3>1. Advances(p, s, "fetch") /\ Locks(p, s, "fetch") /\ Lays(p, s, "fetch") /\ Stores(p, s, "fetch")
      BY <1>2, <1>3, <1>4, <2>2 DEF LookUp, Installing, disk
    <3>. QED BY <3>1 DEF Move
  <2>. QED BY <2>1, <2>2
<1>5. CASE Fetch(p, s)
  <2>1. PICK got \in {"move", "failed"} : Set(p, s, got)
    BY <1>5 DEF Fetch
  <2>2. Advances(p, s, got) /\ Locks(p, s, got) /\ Lays(p, s, got) /\ Stores(p, s, got)
    BY <1>2, <1>3, <1>5, <2>1 DEF Fetch, Installing, disk
  <2>. QED BY <2>2 DEF Move
<1>6. CASE MoveLook(p, s)
  <2>1. CASE There(s)
    <3>1. Advances(p, s, "done") /\ Locks(p, s, "done") /\ Lays(p, s, "done") /\ Stores(p, s, "done")
      BY <1>2, <1>3, <1>6, <2>1 DEF MoveLook, Installing, disk
    <3>. QED BY <3>1 DEF Move
  <2>2. CASE ~There(s)
    <3>1. /\ Advances(p, s, "moving") /\ Locks(p, s, "moving") /\ Lays(p, s, "moving")
          /\ Stores(p, s, "moving")
      BY <1>2, <1>3, <1>6, <2>2 DEF MoveLook, Installing, disk
    <3>. QED BY <3>1 DEF Move
  <2>. QED BY <2>1, <2>2
<1>7. CASE MoveRename(p, s)
  <2>1. Advances(p, s, "done") /\ Locks(p, s, "done") /\ Lays(p, s, "done")
    BY <1>2, <1>7 DEF MoveRename, Installing
  <2>2. Whole(s) \in Stored /\ Whole(s).there
    BY DEF Whole, Stored, Contents
  <2>3. Stores(p, s, "done")
    <3>1. tmp' = tmp /\ There(s)'
      BY <1>1, <1>7, <2>2 DEF MoveRename, IInv, TypeOK, There
    <3>2. store' = store \/ (~Ready(s) /\ store' = [store EXCEPT ![s] = Whole(s)])
      BY <1>7 DEF MoveRename, Ready
    <3>. QED BY <1>1, <2>2, <3>1, <3>2 DEF Stores, Ready, Inside, Active
  <2>. QED BY <2>1, <2>3 DEF Move
<1>8. CASE MoveBreaks(p, s)
  <2>1. Advances(p, s, "failed") /\ Locks(p, s, "failed") /\ Lays(p, s, "failed") /\ Stores(p, s, "failed")
    BY <1>2, <1>3, <1>8 DEF MoveBreaks, Installing, disk
  <2>. QED BY <2>1 DEF Move
<1>. QED BY <1>4, <1>5, <1>6, <1>7, <1>8 DEF Install

\* Locks are for steps and layers.
LEMMA LockPhase ==
  ASSUME IInv, NEW p \in Procs, NEW s \in Subtrees, at[p][s] \in {"wait", "won", "aside"}
  PROVE  pc[p] \in {"prepare", "seed"} /\ (pc[p] = "prepare" => s \in States)
<1>1. pc[p] \in {"down", "idle", "install", "prepare", "seed"}
  BY DEF IInv, TypeOK
<1>2. pc[p] \notin {"down", "idle"}
  BY DEF IInv, Phases
<1>3. CASE s \in Bins
  BY <1>1, <1>2, <1>3 DEF IInv, Phases, Installs
<1>4. CASE s \in States
  BY <1>1, <1>2, <1>4 DEF IInv, Phases
<1>. QED BY <1>3, <1>4 DEF Subtrees

\* Waiting for a lock, and looking again once it is held.
LEMMA LockMoves ==
  ASSUME IInv, NEW p \in Procs, NEW s \in Subtrees, Flock(p, s) \/ Enter(p, s) \/ (s \in States /\ Abandon(p, s))
  PROVE  \E to : Move(p, s, to)
<1>1. CASE Flock(p, s)
  <2>1. Advances(p, s, "won")
    <3>1. pc[p] \in {"prepare", "seed"} /\ (pc[p] = "prepare" => s \in States)
      BY <1>1, LockPhase DEF Flock
    <3>2. UNCHANGED seeded
      BY <1>1 DEF Flock, disk
    <3>. QED BY <1>1, <3>1, <3>2 DEF Flock, Advances, Statuses, Active, Steps, Layers
  <2>2. UNCHANGED disk /\ lock' = [lock EXCEPT ![s] = <<p, "caller">>] /\ lock[s] = Free
        /\ layout' = layout /\ orphans' = orphans /\ at[p][s] = "wait"
    BY <1>1 DEF Flock
  <2>3. Stores(p, s, "won")
    BY <2>2, SameStore DEF Inside
  <2>4. Lays(p, s, "won")
    BY <2>2, <2>1 DEF Lays, IInv, TypeOK, Laid, Places
  <2>5. Locks(p, s, "won")
    BY <2>2 DEF Locks, IInv, TypeOK, Holders
  <2>. QED BY <2>1, <2>3, <2>4, <2>5 DEF Move
<1>2. CASE Enter(p, s)
  <2>1. at[p][s] = "won" /\ pc[p] \in {"prepare", "seed"} /\ (pc[p] = "prepare" => s \in States)
    BY <1>2, LockPhase DEF Enter
  <2>2. UNCHANGED disk /\ layout' = layout /\ orphans' = orphans
        /\ UNCHANGED <<seeded, cmd, pc, bounds>> /\ lock[s] = <<p, "caller">>
    BY <1>2, <2>1 DEF Enter, disk, IInv, LockHeld, Inside, Active
  <2>3. CASE Ready(s)
    <3>1. Set(p, s, "done") /\ lock' = [lock EXCEPT ![s] = Free]
      BY <1>2, <2>3 DEF Enter, Unlock
    <3>2. Advances(p, s, "done")
      BY <2>1, <2>2, <3>1 DEF Advances, Statuses, Active, Steps, Layers
    <3>3. Stores(p, s, "done")
      BY <2>2, <2>3, SameStore DEF Inside, Active
    <3>4. Lays(p, s, "done")
      BY <2>1, <2>2 DEF Lays, IInv, TypeOK, Laid, Places
    <3>5. Locks(p, s, "done")
      BY <2>2, <3>1 DEF Locks, IInv, TypeOK, Holders, Inside, Active
    <3>. QED BY <3>2, <3>3, <3>4, <3>5 DEF Move
  <2>4. CASE ~Ready(s)
    <3>1. PICK to \in {"blob", "stage"} : Set(p, s, to) /\ (to = "blob" <=> pc[p] = "seed")
      BY <1>2, <2>4 DEF Enter
    <3>2. Advances(p, s, to)
      BY <2>1, <2>2, <3>1 DEF Advances, Statuses, Active, Steps, Layers
    <3>3. Stores(p, s, to)
      BY <2>2, <2>4, SameStore DEF Inside, Active
    <3>4. Locks(p, s, to) /\ Lays(p, s, to)
      BY <1>2, <2>1, <2>2, <2>4, SameHold DEF Enter, Inside, Active, Laid, Places
    <3>. QED BY <3>2, <3>3, <3>4 DEF Move
  <2>. QED BY <2>3, <2>4
<1>3. CASE s \in States /\ Abandon(p, s)
  <2>1. at[p][s] \in {"wait", "won"} /\ pc[p] \in {"prepare", "seed"}
    BY <1>3, LockPhase DEF Abandon
  <2>2. UNCHANGED disk /\ layout' = layout /\ UNCHANGED <<seeded, cmd, pc, bounds>> /\ Set(p, s, "failed")
    BY <1>3 DEF Abandon, disk
  <2>3. Advances(p, s, "failed")
    BY <1>3, <2>1, <2>2 DEF Advances, Statuses, Steps, Layers
  <2>4. Stores(p, s, "failed")
    BY <2>2, SameStore DEF Inside, Active
  <2>5. Lays(p, s, "failed")
    BY <2>1, <2>2 DEF Lays, IInv, TypeOK, Laid, Places
  <2>6. Locks(p, s, "failed")
    <3>1. orphans' \subseteq Procs \X States
      BY <1>3 DEF Abandon, IInv, TypeOK
    <3>2. at[p][s] = "won" => lock[s] = <<p, "caller">>
      BY DEF IInv, LockHeld, Inside, Active
    <3>3. <<p, "orphan">> \in Holders /\ "failed" \notin Inside
      BY DEF Holders, Inside, Active
    <3>. QED BY <1>3, <3>1, <3>2, <3>3 DEF Abandon, Locks
  <2>. QED BY <2>3, <2>4, <2>5, <2>6 DEF Move
<1>. QED BY <1>1, <1>2, <1>3

\* A step or a layer ends: its subtree is ready, or it failed.
LEMMA LeaveMoves ==
  ASSUME IInv, NEW p \in Procs, NEW s \in Subtrees, NEW how \in {"done", "failed"},
         at[p][s] \in Inside, (pc[p] = "prepare" /\ s \in States) \/ pc[p] = "seed",
         Leave(p, s, how), UNCHANGED <<disk, orphans, cmd, pc, bounds>>, how = "done" => Ready(s)
  PROVE  Move(p, s, how)
<1>1. Advances(p, s, how)
  BY DEF Advances, Leave, Statuses, Steps, Layers, Inside, Active, disk
<1>2. Stores(p, s, how)
  BY SameStore DEF Inside, Active
<1>3. Locks(p, s, how) /\ Lays(p, s, how)
  BY LeaveHold
<1>. QED BY <1>1, <1>2, <1>3 DEF Move

\* It is renamed into a place that is free.
LEMMA PlaceMoves ==
  ASSUME IInv, NEW p \in Procs, NEW s \in Subtrees, at[p][s] \in Inside,
         (pc[p] = "prepare" /\ s \in States) \/ pc[p] = "seed", ~There(s),
         NEW v \in Stored, v.there, s \in States => v.marked, store' = [store EXCEPT ![s] = v],
         Leave(p, s, "done"), UNCHANGED <<seeded, tmp, orphans, cmd, pc, bounds>>
  PROVE  Move(p, s, "done")
<1>1. Advances(p, s, "done")
  BY DEF Advances, Leave, Statuses, Steps, Layers, Inside, Active
<1>2. store'[s] = v
  BY DEF IInv, TypeOK
<1>3. Stores(p, s, "done")
  BY <1>2 DEF Stores, Ready, There, Inside, Active
<1>4. Locks(p, s, "done") /\ Lays(p, s, "done")
  BY LeaveHold
<1>. QED BY <1>1, <1>3, <1>4 DEF Move

\* It goes on, and nothing but its status and its layout changes.
LEMMA GoOn ==
  ASSUME IInv, NEW p \in Procs, NEW s \in Subtrees,
         NEW to \in {"publish", "step", "stepping", "validate", "place", "aside", "rename"},
         at[p][s] \in Inside \ {"won"}, Set(p, s, to),
         (pc[p] = "prepare" /\ s \in States) \/ (pc[p] = "seed" /\ to \in Places),
         s \in States => ~Ready(s),
         to = "rename" /\ s \in States => ~There(s), to = "aside" => s \in States,
         UNCHANGED <<disk, lock, orphans, cmd, pc, bounds>>
  PROVE  Advances(p, s, to) /\ Stores(p, s, to) /\ Locks(p, s, to)
<1>1. Advances(p, s, to)
  BY DEF Advances, Statuses, Steps, Laid, Layers, Inside, Active, Places, disk
<1>2. Stores(p, s, to)
  BY SameStore DEF Inside, Active
<1>3. Locks(p, s, to)
  BY DEF Locks, IInv, TypeOK
<1>. QED BY <1>1, <1>2, <1>3

\* A layer of the bundle.
LEMMA LayerMoves ==
  ASSUME IInv, NEW p \in Procs, NEW s \in Subtrees, Layer(p, s)
  PROVE  \E to : Move(p, s, to)
<1>. USE DEF Seeding
<1>1. CASE Blob(p, s)
  <2>1. CASE Set(p, s, "place") /\ UNCHANGED <<lock, layout>>
    <3>1. Advances(p, s, "place") /\ Stores(p, s, "place")
      BY <1>1, <2>1, GoOn DEF Blob, Inside, Active, Places, IInv, Unready
    <3>2. Locks(p, s, "place") /\ Lays(p, s, "place")
      BY <1>1, <2>1, SameHold DEF Blob, Inside, Active, Laid, Places
    <3>. QED BY <3>1, <3>2 DEF Move
  <2>2. CASE Leave(p, s, "failed")
    BY <1>1, <2>2, LeaveMoves DEF Blob, Inside, Active
  <2>. QED BY <1>1, <2>1, <2>2 DEF Blob
<1>2. CASE LayerPlace(p, s)
  <2>1. CASE Ready(s)
    BY <1>2, <2>1, LeaveMoves DEF LayerPlace, Inside, Active
  <2>2. CASE ~Ready(s)
    <3>1. PICK to \in {"aside", "rename"} : Set(p, s, to) /\ (to = "aside" <=> There(s))
      BY <1>2, <2>2 DEF LayerPlace
    <3>2. Advances(p, s, to) /\ Stores(p, s, to)
      BY <1>2, <2>2, <3>1, GoOn DEF LayerPlace, Inside, Active, Places, Ready, Subtrees
    <3>3. Locks(p, s, to) /\ Lays(p, s, to)
      BY <1>2, <2>2, <3>1, SameHold DEF LayerPlace, Inside, Active, Laid, Places
    <3>. QED BY <3>2, <3>3 DEF Move
  <2>. QED BY <2>1, <2>2
<1>3. CASE LayerRename(p, s)
  <2>1. CASE ~There(s) /\ Leave(p, s, "done") /\ store' = [store EXCEPT ![s] = Whole(s)]
    <3>1. Whole(s) \in Stored /\ Whole(s).there /\ Whole(s).marked = (s \in States)
      BY DEF Whole, Stored, Contents
    <3>. QED BY <1>3, <2>1, <3>1, PlaceMoves DEF LayerRename, Inside, Active
  <2>2. CASE There(s) /\ Leave(p, s, "done") /\ UNCHANGED store
    <3>1. Ready(s)
      BY <1>3, <2>2 DEF LayerRename, IInv, Unready, Ready
    <3>. QED BY <1>3, <2>2, <3>1, LeaveMoves DEF LayerRename, Inside, Active, disk
  <2>3. CASE ~There(s) /\ Leave(p, s, "failed") /\ UNCHANGED store
    BY <1>3, <2>3, LeaveMoves DEF LayerRename, Inside, Active, disk
  <2>. QED BY <1>3, <2>1, <2>2, <2>3 DEF LayerRename
<1>. QED BY <1>1, <1>2, <1>3 DEF Layer

\* A remnant is moved aside, for a step or for a layer.
LEMMA AsideMoves ==
  ASSUME IInv, NEW p \in Procs, NEW s \in Subtrees, MoveAside(p, s)
  PROVE  \E to : Move(p, s, to)
<1>1. s \in States /\ ~Ready(s) /\ pc[p] \in {"prepare", "seed"} /\ at[p][s] = "aside"
  BY LockPhase DEF MoveAside, IInv, Unready, Inside, Active
<1>2. UNCHANGED <<seeded, orphans, cmd, pc, bounds>>
  BY DEF MoveAside
<1>3. CASE There(s) /\ Set(p, s, "rename") /\ UNCHANGED <<lock, layout>>
           /\ store' = [store EXCEPT ![s] = Absent] /\ tmp' = tmp \cup {AsideOf(s)}
  <2>1. Advances(p, s, "rename")
    BY <1>1, <1>2, <1>3 DEF Advances, Statuses, Active, Steps, Laid, Layers, Places
  <2>2. Absent \in Stored /\ ~Absent.there
    BY DEF Absent, Stored, Contents
  <2>3. store'[s] = Absent
    BY <1>3 DEF IInv, TypeOK
  <2>4. Stores(p, s, "rename")
    BY <1>1, <1>3, <2>2, <2>3, StoreAssumption DEF Stores, Ready, There, Inside, Active
  <2>5. layout[p].there /\ pc[p] = "prepare" => layout[p].marked
    BY <1>1 DEF IInv, LayoutHome, Places
  <2>6. Locks(p, s, "rename") /\ Lays(p, s, "rename")
    BY <1>1, <1>2, <1>3, <2>5, SameHold DEF Inside, Active, Laid, Places
  <2>. QED BY <2>1, <2>4, <2>6 DEF Move
<1>4. CASE Leave(p, s, IF Ready(s) /\ pc[p] = "prepare" THEN "done" ELSE "failed")
           /\ UNCHANGED <<store, tmp>>
  <2>1. Leave(p, s, "failed") /\ UNCHANGED <<disk, orphans, cmd, pc, bounds>>
    BY <1>1, <1>2, <1>4 DEF disk
  <2>. QED BY <1>1, <2>1, LeaveMoves DEF Inside, Active
<1>. QED BY <1>3, <1>4 DEF MoveAside

\* The step of a state.
LEMMA RunMoves ==
  ASSUME IInv, NEW p \in Procs, NEW s \in States, Run(p, s)
  PROVE  \E to : Move(p, s, to)
<1>. USE DEF Stepping
<1>0. s \in Subtrees
  BY DEF Subtrees
<1>20. layout[p] \in Layouts
  BY DEF IInv, TypeOK
<1>1. CASE Check(p, s)
  <2>1. PICK to \in {"done", "wait", "failed"} : Set(p, s, to) /\ (to = "done" => Ready(s))
    BY <1>1 DEF Check
  <2>2. ASSUME NEW i \in DOMAIN Order, NEW j \in DOMAIN Order, StateOf[Order[i]] = s, j < i,
               StateOf[Order[j]] \in States
        PROVE  at[p][StateOf[Order[j]]] = "done"
    <3>1. i \in Nat /\ j \in Nat /\ j >= 1
      BY StoreAssumption
    <3>2. j \in 1 .. i - 1
      BY <3>1, <2>2
    <3>. QED BY <1>1, <2>2, <3>2 DEF Check
  <2>3. Advances(p, s, to)
    BY <1>1, <2>1, <2>2 DEF Check, Advances, Statuses, Active, Steps, disk
  <2>4. Stores(p, s, to)
    BY <1>0, <1>1, <2>1, SameStore DEF Check, Inside, Active
  <2>5. Locks(p, s, to) /\ Lays(p, s, to)
    BY <1>0, <1>1, <2>1, SameHold DEF Check, Inside, Active, Laid, Places, locks
  <2>. QED BY <2>3, <2>4, <2>5 DEF Move
<1>2. ASSUME NEW status \in {"stage", "publish", "step", "stepping", "validate", "place", "rename"},
             at[p][s] = status, pc[p] = "prepare", Leave(p, s, "failed"),
             UNCHANGED <<disk, orphans, cmd, pc, bounds>>
      PROVE  Move(p, s, "failed")
  BY <1>0, <1>2, LeaveMoves DEF Inside, Active
\* The layout of a step that goes on from where it has one.
<1>3. ASSUME NEW to \in {"publish", "step", "stepping", "validate", "place"}, NEW l \in Layouts,
             at[p][s] \in {"stage", "publish", "step", "stepping", "validate"}, pc[p] = "prepare",
             Set(p, s, to), layout' = [layout EXCEPT ![p] = l], to = "place" => l.marked,
             UNCHANGED <<disk, lock, orphans, cmd, pc, bounds>>
      PROVE  Move(p, s, to)
  <2>1. Advances(p, s, to) /\ Stores(p, s, to) /\ Locks(p, s, to)
    BY <1>0, <1>3, GoOn DEF IInv, Unready, Inside, Active
  <2>2. Lays(p, s, to)
    BY <1>3 DEF Lays, Laid, Places
  <2>. QED BY <2>1, <2>2 DEF Move
<1>4. CASE Stage(p, s)
  <2>1. CASE Leave(p, s, "failed")
    BY <1>2, <1>4, <2>1 DEF Stage
  <2>2. CASE ~Leave(p, s, "failed")
    <3>1. [NoLayout EXCEPT !.there = TRUE, !.leased = TRUE] \in Layouts
      BY DEF NoLayout, Layouts, Contents
    <3>. QED BY <1>3, <1>4, <2>2, <3>1 DEF Stage
  <2>. QED BY <2>1, <2>2
<1>5. CASE Publish(p, s)
  <2>1. CASE Leave(p, s, "failed")
    BY <1>2, <1>5, <2>1 DEF Publish
  <2>2. CASE ~Leave(p, s, "failed")
    <3>1. layout' = [layout EXCEPT ![p] = [layout[p] EXCEPT !.published = TRUE]]
      BY <1>5, <2>2 DEF Publish
    <3>2. [layout[p] EXCEPT !.published = TRUE] \in Layouts
      BY <1>20 DEF Layouts
    <3>. QED BY <1>3, <1>5, <2>2, <3>1, <3>2 DEF Publish
  <2>. QED BY <2>1, <2>2
<1>6. CASE StepStarts(p, s)
  <2>1. CASE ~layout[p].there
    BY <1>2, <1>6, <2>1 DEF StepStarts
  <2>2. CASE layout[p].there
    <3>1. layout' = [layout EXCEPT ![p] = [layout[p] EXCEPT !.content = "part"]]
      BY <1>6, <2>2 DEF StepStarts
    <3>2. [layout[p] EXCEPT !.content = "part"] \in Layouts
      BY <1>20 DEF Layouts, Contents
    <3>. QED BY <1>3, <1>6, <2>2, <3>1, <3>2 DEF StepStarts
  <2>. QED BY <2>1, <2>2
<1>7. CASE StepEnds(p, s)
  <2>1. PICK made \in Contents :
          layout' = [layout EXCEPT ![p].content = made, ![p].there = made # "none", ![p].published = TRUE]
    BY <1>7 DEF StepEnds, Contents
  <2>2. [layout[p] EXCEPT !.content = made, !.there = made # "none", !.published = TRUE] \in Layouts
    BY <1>20 DEF Layouts
  <2>3. layout' = [layout EXCEPT ![p] = [layout[p] EXCEPT !.content = made, !.there = made # "none",
                                                          !.published = TRUE]]
    BY <2>1 DEF IInv, TypeOK
  <2>. QED BY <1>3, <1>7, <2>2, <2>3 DEF StepEnds, locks
<1>8. CASE StepFails(p, s)
  BY <1>2, <1>8 DEF StepFails
<1>9. CASE Validate(p, s)
  <2>1. CASE layout[p].content \notin {"whole", "part"}
    BY <1>2, <1>9, <2>1 DEF Validate
  <2>2. CASE layout[p].content \in {"whole", "part"}
    <3>1. layout' = [layout EXCEPT ![p] = [layout[p] EXCEPT !.marked = TRUE]]
      BY <1>9, <2>2 DEF Validate
    <3>2. [layout[p] EXCEPT !.marked = TRUE] \in Layouts /\ [layout[p] EXCEPT !.marked = TRUE].marked
      BY <1>20 DEF Layouts
    <3>. QED BY <1>3, <1>9, <2>2, <3>1, <3>2 DEF Validate
  <2>. QED BY <2>1, <2>2
<1>10. CASE PlaceLook(p, s)
  <2>1. at[p][s] = "place" /\ ~Ready(s)
    BY <1>10 DEF PlaceLook, IInv, Unready, Inside, Active
  <2>2. PICK to \in {"aside", "rename"} : Set(p, s, to) /\ (to = "aside" <=> There(s))
    BY <1>10, <2>1 DEF PlaceLook
  <2>3. Advances(p, s, to) /\ Stores(p, s, to)
    BY <1>0, <1>10, <2>1, <2>2, GoOn DEF PlaceLook, Inside, Active
  <2>4. layout[p].there => layout[p].marked
    BY <1>10, <2>1 DEF PlaceLook, IInv, LayoutHome, Places
  <2>5. Locks(p, s, to) /\ Lays(p, s, to)
    BY <1>0, <1>10, <2>1, <2>2, <2>4, SameHold DEF PlaceLook, Inside, Active, Laid, Places
  <2>. QED BY <2>3, <2>5 DEF Move
<1>11. CASE PlaceRename(p, s)
  <2>1. CASE layout[p].there /\ ~There(s) /\ Leave(p, s, "done")
             /\ store' = [store EXCEPT ![s] = [there |-> TRUE, content |-> layout[p].content,
                                               marked |-> layout[p].marked]]
    <3>1. layout[p].marked
      BY <1>11, <2>1 DEF PlaceRename, IInv, LayoutHome, Places
    <3>2. [there |-> TRUE, content |-> layout[p].content, marked |-> layout[p].marked] \in Stored
      BY DEF IInv, TypeOK, Layouts, Stored
    <3>. QED BY <1>0, <1>11, <2>1, <3>1, <3>2, PlaceMoves DEF PlaceRename, Inside, Active
  <2>2. CASE Leave(p, s, IF Ready(s) THEN "done" ELSE "failed") /\ UNCHANGED store
    <3>1. ~Ready(s)
      BY <1>11 DEF PlaceRename, IInv, Unready, Inside, Active
    <3>. QED BY <1>2, <1>11, <2>2, <3>1 DEF PlaceRename, disk
  <2>. QED BY <1>11, <2>1, <2>2 DEF PlaceRename
<1>. QED BY <1>1, <1>4, <1>5, <1>6, <1>7, <1>8, <1>9, <1>10, <1>11 DEF Run

\* So every step of a process at a subtree is a move.
LEMMA WorkMoves ==
  ASSUME IInv, NEW p \in Procs, NEW s \in Subtrees,
         \/ Both(p, s) \/ Layer(p, s)
         \/ s \in States /\ (Run(p, s) \/ Abandon(p, s))
         \/ s \in Bins /\ Install(p, s)
  PROVE  \E to : Move(p, s, to)
<1>1. CASE Both(p, s)
  BY <1>1, LockMoves, AsideMoves DEF Both
<1>2. CASE Layer(p, s)
  BY <1>2, LayerMoves
<1>3. CASE s \in States /\ Run(p, s)
  BY <1>3, RunMoves
<1>4. CASE s \in States /\ Abandon(p, s)
  BY <1>4, LockMoves
<1>5. CASE s \in Bins /\ Install(p, s)
  BY <1>5, InstallMoves
<1>. QED BY <1>1, <1>2, <1>3, <1>4, <1>5

(***************************************************************************)
(* The other actions.                                                      *)
(***************************************************************************)

\* The initial state.
LEMMA InitKeeps == Init => IInv
<1>. SUFFICES ASSUME Init PROVE IInv
  OBVIOUS
<1>2. TypeOK
  <2>1. Remnant \in Stored /\ Absent \in Stored /\ (\A s : Whole(s) \in Stored) /\ NoLayout \in Layouts /\ ~NoLayout.there
    BY DEF Remnant, Absent, Whole, Stored, NoLayout, Layouts, Contents
  <2>2. store \in [Subtrees -> Stored]
    BY <2>1 DEF Init, Left
  <2>3. lock \in [Subtrees -> Holders] /\ layout \in [Procs -> Layouts]
        /\ \A p \in Procs : layout[p].there => pc[p] = "prepare"
    BY <2>1 DEF Init, Holders
  <2>4. at \in [Procs -> [Subtrees -> Statuses]]
    BY DEF Init, Statuses
  <2>5. calls \in 0 .. MaxCalls /\ deaths \in 0 .. MaxDeaths /\ deletions \in 0 .. MaxDeletions
    BY StoreAssumption DEF Init
  <2>6. /\ pc \in [Procs -> {"down", "idle", "install", "prepare", "seed"}]
        /\ cmd \in [Procs -> {"none", "tools", "command", "seed"}]
        /\ deleted \subseteq Deletable /\ seeded \in BOOLEAN /\ tmp \subseteq Debris
        /\ orphans \subseteq Procs \X States
    BY DEF Init
  <2>. QED BY <2>2, <2>3, <2>4, <2>5, <2>6 DEF TypeOK
<1>3. \A p \in Procs : pc[p] = "idle" /\ layout[p] = NoLayout /\ \A s \in Subtrees : at[p][s] = "none"
  BY DEF Init
<1>4. LockHeld /\ Phases /\ InOrder /\ Unready
  BY <1>3 DEF LockHeld, Phases, InOrder, Unready, Inside, Active, Subtrees
<1>5. LayoutHome
  BY <1>3 DEF LayoutHome, NoLayout
<1>6. Kept
  BY <1>3, StoreAssumption DEF Init, Kept, SeedMarkerTrue
<1>7. AsideNotReady
  BY DEF Init, AsideNotReady
<1>. QED BY <1>2, <1>4, <1>5, <1>6, <1>7 DEF IInv

\* A command begins.
LEMMA BeginKeeps ==
  ASSUME IInv, NEW p \in Procs, NEW c \in {"tools", "command", "seed"}, Begin(p, c)
  PROVE  IInv'
<1>1. UNCHANGED <<store, seeded, tmp, lock, orphans, layout, deleted, deaths, deletions>>
      /\ calls' \in 0 .. MaxCalls /\ pc[p] = "idle"
  BY StoreAssumption DEF Begin, disk, locks, IInv, TypeOK
<1>2. \A s \in Subtrees : Ready(s)' = Ready(s) /\ There(s)' = There(s)
  BY <1>1 DEF Ready, There
<1>3. CASE UNCHANGED <<cmd, pc, at>>
  BY <1>1, <1>3 DEF IInv, TypeOK, LockHeld, Phases, InOrder, Begun, Unready, LayoutHome, Kept, Good,
     SeedMarkerTrue, AsideNotReady, Ready, There
<1>4. ASSUME NEW phase \in {"seed", "install"}, NEW begun \in [Subtrees -> {"queued", "wait", "none"}],
             pc' = [pc EXCEPT ![p] = phase], at' = [at EXCEPT ![p] = begun],
             cmd' = [cmd EXCEPT ![p] = c],
             phase = "seed" => \A s \in Bundle \ Undeclared : begun[s] = "none" => Ready(s),
             phase = "install" => \A s \in Subtrees : begun[s] # "wait",
             phase = "install" => \A s \in Bins : begun[s] = "queued" => \E a \in Closure : BinOf[a] = s,
             phase = "install" =>
               \A s \in States : begun[s] = "queued" => \E i \in DOMAIN Order : StateOf[Order[i]] = s
      PROVE  IInv'
  <2>1. pc'[p] = phase /\ at'[p] = begun
        /\ \A q \in Procs : q # p => pc'[q] = pc[q] /\ at'[q] = at[q]
    BY <1>4 DEF IInv, TypeOK
  <2>2. \A s \in Subtrees : /\ at'[p][s] \in {"queued", "wait", "none"}
                            /\ phase = "install" => at'[p][s] # "wait"
    BY <1>4, <2>1
  <2>3. ~layout[p].there /\ ~layout[p].published
    BY <1>1 DEF IInv, LayoutHome
  <2>4. TypeOK'
    <3>1. at' \in [Procs -> [Subtrees -> Statuses]]
      BY <1>4 DEF IInv, TypeOK, Statuses, Active
    <3>2. \A q \in Procs : layout'[q].there => pc'[q] = "prepare"
      BY <1>1, <2>1, <2>3 DEF IInv, TypeOK
    <3>. QED BY <1>1, <1>4, <3>1, <3>2 DEF IInv, TypeOK
  <2>5. LockHeld'
    BY <1>1, <2>1, <2>2 DEF IInv, LockHeld, Inside, Active
  <2>6. Phases'
    BY <1>4, <2>1, <2>2 DEF IInv, Phases, Installs, Layers, Subtrees
  <2>7. InOrder'
    BY <1>4, <2>1, <2>2 DEF IInv, InOrder, Begun, Subtrees
  <2>8. Unready'
    BY <1>2, <2>1, <2>2 DEF IInv, Unready, Inside, Active, Subtrees
  <2>9. LayoutHome'
    BY <1>1, <2>1, <2>3 DEF IInv, LayoutHome
  <2>10. Kept'
    <3>1. \A t \in Subtrees : Good(t)' = Good(t)
      BY <1>1, <1>2 DEF Good
    <3>2. \A q \in Procs, t \in Subtrees : at'[q][t] = "done" => Good(t)'
      BY <2>1, <2>2, <3>1 DEF IInv, Kept
    <3>3. \A q \in Procs : pc'[q] = "prepare" => \A a \in Closure : There(BinOf[a])'
      BY <1>2, <1>4, <2>1, StoreAssumption DEF IInv, Kept, Subtrees
    <3>4. \A q \in Procs, t \in Bundle \ Undeclared : pc'[q] = "seed" /\ at'[q][t] = "none" => Good(t)'
      BY <1>4, <2>1, <3>1, StoreAssumption DEF IInv, Kept, Good
    <3>5. SeedMarkerTrue'
      BY <1>1, <1>2, StoreAssumption DEF IInv, Kept, SeedMarkerTrue
    <3>. QED BY <3>2, <3>3, <3>4, <3>5 DEF Kept
  <2>11. AsideNotReady'
    BY <1>1 DEF IInv, AsideNotReady
  <2>. QED BY <2>4, <2>5, <2>6, <2>7, <2>8, <2>9, <2>10, <2>11 DEF IInv
<1>5. CASE c = "seed" /\ ~UNCHANGED <<cmd, pc, at>>
  <2>. DEFINE begun == [s \in Subtrees |-> IF s \in Bundle \ Undeclared /\ ~Ready(s) THEN "wait" ELSE "none"]
  <2>1. pc' = [pc EXCEPT ![p] = "seed"] /\ at' = [at EXCEPT ![p] = begun] /\ cmd' = [cmd EXCEPT ![p] = c]
    BY <1>5 DEF Begin
  <2>2. /\ begun \in [Subtrees -> {"queued", "wait", "none"}]
        /\ \A s \in Bundle \ Undeclared : begun[s] = "none" => Ready(s)
    BY StoreAssumption
  <2>. QED BY <1>4, <2>1, <2>2
<1>6. CASE c # "seed"
  <2>. DEFINE begun == [s \in Subtrees |-> IF \E a \in Closure : s \in {BinOf[a], StateOf[a]}
                                           THEN "queued" ELSE "none"]
  <2>1. pc' = [pc EXCEPT ![p] = "install"] /\ at' = [at EXCEPT ![p] = begun] /\ cmd' = [cmd EXCEPT ![p] = c]
    BY <1>6 DEF Begin
  <2>2. begun \in [Subtrees -> {"queued", "wait", "none"}] /\ \A s \in Subtrees : begun[s] # "wait"
    OBVIOUS
  <2>3. ASSUME NEW s \in States, begun[s] = "queued"
        PROVE  \E i \in DOMAIN Order : StateOf[Order[i]] = s
    <3>1. PICK a \in Closure : s \in {BinOf[a], StateOf[a]}
      BY <2>3 DEF Subtrees
    <3>2. StateOf[a] = s
      BY <3>1, StoreAssumption
    <3>3. PICK i \in DOMAIN Order : Order[i] = a
      BY DEF Closure, ToSet
    <3>. QED BY <3>2, <3>3
  <2>4. ASSUME NEW s \in Bins, begun[s] = "queued"
        PROVE  \E a \in Closure : BinOf[a] = s
    <3>1. PICK a \in Closure : s \in {BinOf[a], StateOf[a]}
      BY <2>4 DEF Subtrees
    <3>. QED BY <3>1, StoreAssumption DEF Subtrees
  <2>. QED BY <1>4, <2>1, <2>2, <2>3, <2>4
<1>. QED BY <1>3, <1>5, <1>6

\* A command ends.
LEMMA FinishKeeps ==
  ASSUME IInv, NEW p \in Procs, Finish(p), UNCHANGED <<store, lock, orphans, bounds>>,
         ~layout[p].there, ~layout[p].published,
         seeded' \in BOOLEAN, SeedMarkerTrue', tmp' \subseteq tmp, layout' \in [Procs -> Layouts],
         \A q \in Procs : /\ layout'[q].there => layout[q].there
                          /\ layout'[q].published => layout[q].published
                          /\ layout'[q].there => layout'[q].marked = layout[q].marked
  PROVE  IInv'
<1>1. pc'[p] = "idle" /\ (\A s \in Subtrees : at'[p][s] = "none")
      /\ \A q \in Procs : q # p => pc'[q] = pc[q] /\ at'[q] = at[q]
  BY DEF Finish, IInv, TypeOK
<1>2. \A s \in Subtrees : Ready(s)' = Ready(s) /\ There(s)' = There(s)
  BY DEF Ready, There
<1>3. UNCHANGED <<deleted, calls, deaths, deletions>>
  BY DEF bounds
<1>4. TypeOK'
  <2>1. at' \in [Procs -> [Subtrees -> Statuses]] /\ pc' \in [Procs -> {"down", "idle", "install", "prepare", "seed"}]
        /\ cmd' \in [Procs -> {"none", "tools", "command", "seed"}]
    BY DEF Finish, IInv, TypeOK, Statuses
  <2>2. \A q \in Procs : layout'[q].there => pc'[q] = "prepare"
    BY <1>1 DEF IInv, TypeOK
  <2>. QED BY <1>3, <2>1, <2>2 DEF IInv, TypeOK
<1>5. LockHeld'
  BY <1>1 DEF IInv, LockHeld, Inside, Active
<1>6. Phases'
  BY <1>1 DEF IInv, Phases, Subtrees
<1>7. InOrder'
  BY <1>1 DEF IInv, InOrder, Begun
<1>8. Unready'
  BY <1>1, <1>2 DEF IInv, Unready, Inside, Active, Subtrees
<1>9. LayoutHome'
  BY <1>1 DEF IInv, LayoutHome
<1>10. Kept'
  BY <1>1, <1>2, <1>3, StoreAssumption DEF IInv, Kept, Good, Subtrees
<1>11. AsideNotReady'
  BY DEF IInv, AsideNotReady
<1>. QED BY <1>4, <1>5, <1>6, <1>7, <1>8, <1>9, <1>10, <1>11 DEF IInv

\* The end of the installs, with or without a failure.
LEMMA BarrierKeeps ==
  ASSUME IInv, NEW p \in Procs, Barrier(p)
  PROVE  IInv'
<1>1. pc[p] = "install" /\ UNCHANGED <<store, seeded, tmp, lock, orphans, layout, bounds>>
  BY DEF Barrier, disk, locks
<1>2. ~layout[p].there /\ ~layout[p].published
  BY <1>1 DEF IInv, LayoutHome
<1>3. \A s \in Subtrees : Ready(s)' = Ready(s) /\ There(s)' = There(s)
  BY <1>1 DEF Ready, There
<1>4. CASE Finish(p)
  <2>1. SeedMarkerTrue'
    BY <1>1, <1>3, StoreAssumption DEF IInv, Kept, SeedMarkerTrue, bounds
  <2>. QED BY <1>1, <1>2, <1>4, <2>1, FinishKeeps DEF IInv, TypeOK
<1>5. CASE pc' = [pc EXCEPT ![p] = "prepare"] /\ UNCHANGED <<cmd, at>>
           /\ \A a \in Closure : at[p][BinOf[a]] = "done"
  <2>1. pc'[p] = "prepare" /\ \A q \in Procs : q # p => pc'[q] = pc[q]
    BY <1>5 DEF IInv, TypeOK
  <2>2. UNCHANGED <<deleted, calls, deaths, deletions, at>>
    BY <1>1, <1>5 DEF bounds
  <2>3. TypeOK'
    BY <1>1, <1>2, <1>5, <2>1, <2>2 DEF IInv, TypeOK
  <2>4. LockHeld' /\ Unready'
    BY <1>1, <1>3, <2>2 DEF IInv, LockHeld, Unready, Subtrees
  <2>5. Phases'
    <3>1. \A s \in Bins : at[p][s] \in {"none", "done"}
      BY <1>1, <1>5 DEF IInv, InOrder
    <3>. QED BY <1>1, <2>1, <2>2, <3>1 DEF IInv, Phases, Steps
  <2>6. InOrder'
    BY <1>1, <2>1, <2>2 DEF IInv, InOrder, Begun, Phases
  <2>7. LayoutHome'
    BY <1>1, <1>2, <2>1, <2>2 DEF IInv, LayoutHome
  <2>8. Kept'
    <3>1. ASSUME NEW a \in Closure PROVE There(BinOf[a])
      BY <1>5, StoreAssumption DEF IInv, TypeOK, Kept, Good, Ready, Subtrees
    <3>. QED BY <1>1, <1>3, <2>1, <2>2, <3>1, StoreAssumption DEF IInv, Kept, Good, SeedMarkerTrue, Subtrees
  <2>9. AsideNotReady'
    BY <1>1 DEF IInv, AsideNotReady
  <2>. QED BY <2>3, <2>4, <2>5, <2>6, <2>7, <2>8, <2>9 DEF IInv
<1>. QED BY <1>4, <1>5 DEF Barrier

\* The goroutine of a cancelled wait takes the lock, and drops it again.
LEMMA OrphanStepKeeps ==
  ASSUME IInv, NEW p \in Procs, NEW s \in States, OrphanFlock(p, s) \/ OrphanDrop(p, s)
  PROVE  IInv'
<1>1. PICK h \in {Free, <<p, "orphan">>} : lock' = [lock EXCEPT ![s] = h]
  BY DEF OrphanFlock, OrphanDrop, Unlock
<1>2. lock[s] \in {Free, <<p, "orphan">>} /\ orphans' \subseteq orphans
      /\ UNCHANGED <<store, seeded, tmp, layout, cmd, pc, at, deleted, calls, deaths, deletions>>
  BY DEF OrphanFlock, OrphanDrop, disk, bounds
<1>3. TypeOK'
  <2>1. h \in Holders
    BY <1>1 DEF Holders
  <2>2. lock' \in [Subtrees -> Holders]
    BY <1>1, <2>1 DEF IInv, TypeOK
  <2>. QED BY <1>2, <2>2 DEF IInv, TypeOK
<1>4. LockHeld'
  <2>1. \A q \in Procs : at[q][s] \notin Inside
    BY <1>2 DEF IInv, LockHeld, Free, Subtrees
  <2>2. \A t \in Subtrees : t # s => lock'[t] = lock[t]
    BY <1>1 DEF IInv, TypeOK
  <2>. QED BY <1>2, <2>1, <2>2 DEF IInv, LockHeld
<1>. QED BY <1>2, <1>3, <1>4 DEF IInv, Phases, InOrder, Begun, Unready, LayoutHome, Kept, Good,
         SeedMarkerTrue, AsideNotReady, Ready, There

\* What a sweep leaves of the layouts.
LEMMA SweepLeaves ==
  ASSUME TypeOK, NEW p \in Procs, SweepStale(p)
  PROVE  /\ tmp' \subseteq tmp /\ layout' \in [Procs -> Layouts]
         /\ \A q \in Procs : layout'[q] \in {layout[q], NoLayout}
<1>1. NoLayout \in Layouts
  BY DEF NoLayout, Layouts, Contents
<1>. QED BY <1>1 DEF SweepStale, TypeOK

\* The end of the steps: none is under way, so there is no layout of its own.
LEMMA EndPrepareKeeps ==
  ASSUME IInv, NEW p \in Procs, EndPrepare(p)
  PROVE  IInv'
<1>1. pc[p] = "prepare" /\ Finish(p) /\ UNCHANGED <<store, seeded, lock, orphans, bounds>>
  BY DEF EndPrepare, locks
<1>2. (UNCHANGED <<tmp, layout>>) \/ SweepStale(p)
  BY DEF EndPrepare
<1>3. \A s \in States : at[p][s] \notin Laid
  <2>1. SUFFICES ASSUME NEW s \in States, at[p][s] \in Laid PROVE FALSE
    OBVIOUS
  <2>2. PICK i \in DOMAIN Order : StateOf[Order[i]] = s
    BY <1>1, <2>1 DEF IInv, InOrder, Laid, Places
  <2>3. Order[i] \in Closure
    BY DEF Closure, ToSet
  <2>4. PICK a \in Closure : StateOf[a] \in States /\ at[p][StateOf[a]] = "failed"
    BY <2>1, <2>2, <2>3 DEF EndPrepare, Laid, Places
  <2>5. at[p][s] \notin {"none", "queued", "done"}
    BY <2>1 DEF Laid, Places
  <2>6. StateOf[a] = s
    BY <1>1, <2>4, <2>5, OneStep DEF IInv
  <2>. QED BY <2>1, <2>4, <2>6 DEF Laid, Places
<1>4. ~layout[p].there /\ ~layout[p].published
  BY <1>1, <1>3 DEF IInv, LayoutHome
<1>5. SeedMarkerTrue'
  BY <1>1 DEF IInv, Kept, SeedMarkerTrue, Ready, There, bounds
<1>6. tmp' \subseteq tmp /\ layout' \in [Procs -> Layouts]
      /\ \A q \in Procs : layout'[q] \in {layout[q], NoLayout}
  BY <1>2, SweepLeaves DEF IInv, TypeOK
<1>7. \A q \in Procs : /\ layout'[q].there => layout[q].there
                       /\ layout'[q].published => layout[q].published
                       /\ layout'[q].there => layout'[q].marked = layout[q].marked
  BY <1>6 DEF NoLayout
<1>8. seeded' \in BOOLEAN
  BY <1>1 DEF IInv, TypeOK
<1>. QED BY <1>1, <1>4, <1>5, <1>6, <1>7, <1>8, FinishKeeps

\* The end of a pull: its marker is written when every layer is there.
LEMMA EndSeedKeeps ==
  ASSUME IInv, NEW p \in Procs, EndSeed(p)
  PROVE  IInv'
<1>1. pc[p] = "seed" /\ Finish(p) /\ UNCHANGED <<store, tmp, lock, orphans, layout, bounds>>
      /\ seeded' \in BOOLEAN
  BY DEF EndSeed, locks, IInv, TypeOK
<1>2. ~layout[p].there /\ ~layout[p].published
  BY <1>1 DEF IInv, LayoutHome
<1>3. \A s \in Subtrees : Good(s)' = Good(s)
  BY <1>1 DEF Good, Ready, There, bounds
<1>4. SeedMarkerTrue'
  <2>1. CASE seeded' = seeded
    BY <1>3, <2>1, StoreAssumption DEF IInv, Kept, SeedMarkerTrue, Good
  <2>2. CASE seeded' # seeded
    <3>1. \A s \in Subtrees : at[p][s] \in {"none", "done"}
      BY <2>2 DEF EndSeed
    <3>2. \A s \in Bundle \ Undeclared : Good(s)
      BY <1>1, <3>1, StoreAssumption DEF IInv, Kept
    <3>. QED BY <1>3, <3>2, StoreAssumption DEF SeedMarkerTrue, Good
  <2>. QED BY <2>1, <2>2
<1>. QED BY <1>1, <1>2, <1>4, FinishKeeps DEF IInv, TypeOK

\* A process dies: its locks are free, its layout is debris.
LEMMA DieKeeps ==
  ASSUME IInv, NEW p \in Procs, Die(p)
  PROVE  IInv'
<1>1. UNCHANGED <<store, seeded, deleted, calls, deletions>> /\ deaths' \in 0 .. MaxDeaths
  BY StoreAssumption DEF Die, IInv, TypeOK
<1>2. pc'[p] = "down" /\ (\A s \in Subtrees : at'[p][s] = "none") /\ layout'[p] = NoLayout
      /\ \A q \in Procs : q # p => pc'[q] = pc[q] /\ at'[q] = at[q] /\ layout'[q] = layout[q]
  BY DEF Die, IInv, TypeOK
<1>3. \A s \in Subtrees : Ready(s)' = Ready(s) /\ There(s)' = There(s)
  BY <1>1 DEF Ready, There
<1>4. ~NoLayout.there /\ ~NoLayout.published /\ NoLayout \in Layouts
  BY DEF NoLayout, Layouts, Contents
<1>5. TypeOK'
  <2>1. at' \in [Procs -> [Subtrees -> Statuses]] /\ pc' \in [Procs -> {"down", "idle", "install", "prepare", "seed"}]
        /\ cmd' \in [Procs -> {"none", "tools", "command", "seed"}]
    BY DEF Die, IInv, TypeOK, Statuses
  <2>2. layout' \in [Procs -> Layouts] /\ \A q \in Procs : layout'[q].there => pc'[q] = "prepare"
    BY <1>2, <1>4 DEF Die, IInv, TypeOK
  <2>3. lock' \in [Subtrees -> Holders] /\ orphans' \subseteq Procs \X States
    BY DEF Die, IInv, TypeOK, Holders
  <2>4. LayoutOf(p) \in Debris
    BY StoreAssumption DEF LayoutOf, Debris, IInv, TypeOK, Layouts
  <2>5. tmp' \subseteq Debris
    BY <2>4 DEF Die, IInv, TypeOK
  <2>. QED BY <1>1, <2>1, <2>2, <2>3, <2>5 DEF IInv, TypeOK
<1>6. LockHeld'
  <2>1. SUFFICES ASSUME NEW q \in Procs, NEW s \in Subtrees, at'[q][s] \in Inside
                 PROVE  lock'[s] = <<q, "caller">>
    BY DEF LockHeld
  <2>2. q # p
    BY <1>2, <2>1 DEF Inside, Active
  <2>3. lock[s] = <<q, "caller">>
    BY <1>2, <2>1, <2>2 DEF IInv, LockHeld
  <2>. QED BY <2>2, <2>3 DEF Die
<1>7. Phases'
  BY <1>2 DEF IInv, Phases, Subtrees
<1>8. InOrder'
  BY <1>2 DEF IInv, InOrder, Begun
<1>9. Unready'
  BY <1>2, <1>3 DEF IInv, Unready, Inside, Active, Subtrees
<1>10. LayoutHome'
  BY <1>2, <1>4 DEF IInv, LayoutHome
<1>11. Kept'
  <2>1. \A s \in Subtrees : Good(s)' = Good(s)
    BY <1>1, <1>3 DEF Good
  <2>2. SeedMarkerTrue'
    BY <1>1, <1>3, StoreAssumption DEF IInv, Kept, SeedMarkerTrue
  <2>. QED BY <1>2, <1>3, <2>1, <2>2, StoreAssumption DEF IInv, Kept, Subtrees
<1>12. AsideNotReady'
  <2>1. LayoutOf(p).kind # "aside"
    BY DEF LayoutOf
  <2>. QED BY <2>1 DEF Die, IInv, AsideNotReady
<1>. QED BY <1>5, <1>6, <1>7, <1>8, <1>9, <1>10, <1>11, <1>12 DEF IInv

\* Another process with its name.
LEMMA StartKeeps ==
  ASSUME IInv, NEW p \in Procs, Start(p)
  PROVE  IInv'
<1>1. pc[p] = "down" /\ pc'[p] = "idle" /\ \A q \in Procs : q # p => pc'[q] = pc[q]
  BY DEF Start, IInv, TypeOK
<1>2. UNCHANGED <<store, seeded, tmp, lock, orphans, layout, cmd, at, deleted, calls, deaths, deletions>>
  BY DEF Start, disk, locks, bounds
<1>3. TypeOK'
  BY <1>1, <1>2 DEF Start, IInv, TypeOK
<1>4. Phases' /\ LayoutHome'
  BY <1>1, <1>2 DEF IInv, Phases, LayoutHome
<1>5. InOrder' /\ Kept'
  BY <1>1, <1>2 DEF IInv, InOrder, Begun, Kept, Good, SeedMarkerTrue, Ready, There
<1>. QED BY <1>2, <1>3, <1>4, <1>5 DEF IInv, LockHeld, Unready, AsideNotReady, Ready, There

\* The user deletes a marker.
LEMMA DeleteKeeps ==
  ASSUME IInv, NEW s \in Deletable, DeleteMarker(s)
  PROVE  IInv'
<1>1. s \in States /\ s \in Subtrees /\ s \in deleted' /\ deleted \subseteq deleted'
  BY StoreAssumption DEF DeleteMarker, Subtrees
<1>2. UNCHANGED <<seeded, tmp, lock, orphans, layout, cmd, pc, at, calls, deaths>>
  BY DEF DeleteMarker, locks
<1>3. store' = [store EXCEPT ![s] = [store[s] EXCEPT !.marked = FALSE]]
  BY DEF DeleteMarker, IInv, TypeOK
<1>4. [store[s] EXCEPT !.marked = FALSE] \in Stored /\ [store[s] EXCEPT !.marked = FALSE].there = store[s].there
  BY <1>1 DEF IInv, TypeOK, Stored
<1>5. \A t \in Subtrees : /\ There(t)' = There(t) /\ (Ready(t)' => Ready(t))
                          /\ (Ready(t) => Ready(t)' \/ t \in deleted')
  BY <1>1, <1>3, <1>4 DEF Ready, There, IInv, TypeOK
<1>6. TypeOK'
  <2>1. store' \in [Subtrees -> Stored]
    BY <1>3, <1>4 DEF IInv, TypeOK
  <2>2. deleted' \subseteq Deletable /\ deletions' \in 0 .. MaxDeletions
    BY StoreAssumption DEF DeleteMarker, IInv, TypeOK
  <2>. QED BY <1>2, <2>1, <2>2 DEF IInv, TypeOK
<1>7. LockHeld' /\ Phases' /\ InOrder' /\ LayoutHome' /\ AsideNotReady'
  BY <1>2 DEF IInv, LockHeld, Phases, InOrder, Begun, LayoutHome, AsideNotReady
<1>8. Unready'
  BY <1>2, <1>5 DEF IInv, Unready, Subtrees
<1>9. Kept'
  <2>1. \A t \in Subtrees : Good(t) => Good(t)'
    BY <1>1, <1>5 DEF Good
  <2>2. SeedMarkerTrue'
    BY <1>2, <2>1, StoreAssumption DEF IInv, Kept, SeedMarkerTrue, Good
  <2>. QED BY <1>2, <1>5, <2>1, <2>2, StoreAssumption DEF IInv, Kept, Subtrees
<1>. QED BY <1>6, <1>7, <1>8, <1>9 DEF IInv

\* Debris and layouts grow old.
LEMMA DayKeeps ==
  ASSUME IInv, DayPasses
  PROVE  IInv'
<1>1. UNCHANGED <<store, seeded, lock, orphans, cmd, pc, at, deleted, calls, deaths, deletions>>
  BY DEF DayPasses, locks, bounds
<1>2. layout' \in [Procs -> Layouts]
      /\ \A q \in Procs : /\ layout'[q].there = layout[q].there
                          /\ layout'[q].published = layout[q].published
                          /\ layout'[q].marked = layout[q].marked
  <2>1. ASSUME NEW q \in Procs
        PROVE  /\ [layout[q] EXCEPT !.old = layout[q].there] \in Layouts
               /\ [layout[q] EXCEPT !.old = layout[q].there].there = layout[q].there
               /\ [layout[q] EXCEPT !.old = layout[q].there].published = layout[q].published
               /\ [layout[q] EXCEPT !.old = layout[q].there].marked = layout[q].marked
    <3>1. layout[q] \in Layouts
      BY DEF IInv, TypeOK
    <3>. QED BY <3>1 DEF Layouts
  <2>. QED BY <2>1 DEF DayPasses
<1>3. tmp' \subseteq Debris
  <2>1. ASSUME NEW e \in Debris PROVE [e EXCEPT !.old = TRUE] \in Debris
    BY DEF Debris
  <2>. QED BY <2>1 DEF DayPasses, IInv, TypeOK
<1>4. AsideNotReady'
  BY DEF DayPasses, IInv, TypeOK, AsideNotReady, Debris
<1>5. TypeOK'
  BY <1>1, <1>2, <1>3 DEF IInv, TypeOK
<1>6. LayoutHome'
  BY <1>1, <1>2 DEF IInv, LayoutHome
<1>. QED BY <1>1, <1>4, <1>5, <1>6 DEF IInv, LockHeld, Phases, InOrder, Begun, Unready, Kept, Good,
         SeedMarkerTrue, Ready, There

(***************************************************************************)
(* The theorems.                                                           *)
(***************************************************************************)

\* Every step is a move of one process at one subtree, or one of the others.
LEMMA StepKinds ==
  ASSUME Next
  PROVE  \/ \E p \in Procs, s \in Subtrees :
              \/ Both(p, s) \/ Layer(p, s)
              \/ s \in States /\ (Run(p, s) \/ Abandon(p, s))
              \/ s \in Bins /\ Install(p, s)
         \/ \E p \in Procs : \/ \E c \in {"tools", "command", "seed"} : Begin(p, c)
                             \/ Barrier(p) \/ EndPrepare(p) \/ EndSeed(p) \/ Die(p) \/ Start(p)
                             \/ \E s \in States : OrphanFlock(p, s) \/ OrphanDrop(p, s)
         \/ \E s \in Deletable : DeleteMarker(s)
         \/ DayPasses
<1>1. ASSUME NEW p \in Procs, Work(p)
      PROVE  \/ \E s \in Subtrees : \/ Both(p, s) \/ Layer(p, s)
                                    \/ s \in States /\ Run(p, s)
                                    \/ s \in Bins /\ Install(p, s)
             \/ Barrier(p) \/ EndPrepare(p) \/ EndSeed(p)
  BY <1>1 DEF Work, Subtrees
<1>. QED BY <1>1 DEF Next, Subtrees

\* Every step keeps the invariant.
LEMMA StepKeeps == IInv /\ [Next]_vars => IInv'
<1>. SUFFICES ASSUME IInv, [Next]_vars PROVE IInv'
  OBVIOUS
<1>1. CASE UNCHANGED vars
  BY <1>1 DEF vars, disk, locks, bounds, IInv, TypeOK, LockHeld, Phases, InOrder, Begun, Unready,
     LayoutHome, Kept, Good, SeedMarkerTrue, AsideNotReady, Ready, There
<1>2. ASSUME NEW p \in Procs, NEW s \in Subtrees,
             \/ Both(p, s) \/ Layer(p, s)
             \/ s \in States /\ (Run(p, s) \/ Abandon(p, s))
             \/ s \in Bins /\ Install(p, s)
      PROVE  IInv'
  BY <1>2, WorkMoves, MoveKeeps
<1>3. ASSUME NEW p \in Procs, \/ \E c \in {"tools", "command", "seed"} : Begin(p, c)
                              \/ Barrier(p) \/ EndPrepare(p) \/ EndSeed(p) \/ Die(p) \/ Start(p)
                              \/ \E s \in States : OrphanFlock(p, s) \/ OrphanDrop(p, s)
      PROVE  IInv'
  BY <1>3, BeginKeeps, BarrierKeeps, EndPrepareKeeps, EndSeedKeeps, DieKeeps, StartKeeps, OrphanStepKeeps
<1>4. ASSUME NEW s \in Deletable, DeleteMarker(s) PROVE IInv'
  BY <1>4, DeleteKeeps
<1>5. CASE DayPasses
  BY <1>5, DayKeeps
<1>. QED BY <1>1, <1>2, <1>3, <1>4, <1>5, StepKinds

\* The invariant holds in every reachable state, whatever the namespaces.
THEOREM Invariant == Spec => []IInv
<1>1. Init => IInv
  BY InitKeeps
<1>. QED BY <1>1, StepKeeps, PTL DEF Spec

\* Store, locks, layouts and progress keep their types, and only a step that is
\* under way has a layout (prepare.Run's deferred calls).
THEOREM TypeCorrect == Spec => []TypeOK
<1>1. IInv => TypeOK
  BY DEF IInv
<1>. QED BY <1>1, Invariant, PTL

\* One process at a time is between the lock of a subtree and its placement.
THEOREM OneAtATimeHolds == Spec => []OneAtATime
<1>1. IInv => OneAtATime
  BY DEF IInv, LockHeld, OneAtATime
<1>. QED BY <1>1, Invariant, PTL

\* A step runs with every tool of the closure installed and the states before
\* its own ready.
THEOREM ClosureFirstHolds == Spec => []ClosureFirst
<1>1. IInv => ClosureFirst
  <2>1. SUFFICES ASSUME IInv, NEW p \in Procs, NEW i \in DOMAIN Order, StateOf[Order[i]] \in States,
                        at[p][StateOf[Order[i]]] \in {"step", "stepping"}, pc[p] = "prepare"
                 PROVE  /\ \A a \in Closure : There(BinOf[a])
                        /\ \A j \in 1 .. i - 1 :
                             StateOf[Order[j]] \in States =>
                               Ready(StateOf[Order[j]]) \/ StateOf[Order[j]] \in deleted
    BY DEF ClosureFirst
  <2>2. \A a \in Closure : There(BinOf[a])
    BY <2>1 DEF IInv, Kept
  <2>3. ASSUME NEW j \in 1 .. i - 1, StateOf[Order[j]] \in States
        PROVE  Ready(StateOf[Order[j]]) \/ StateOf[Order[j]] \in deleted
    <3>1. j \in DOMAIN Order /\ j < i
      BY StoreAssumption
    <3>2. at[p][StateOf[Order[j]]] = "done"
      BY <2>1, <2>3, <3>1 DEF IInv, InOrder, Begun
    <3>. QED BY <2>1, <2>3, <3>2 DEF IInv, Kept, Good, Subtrees
  <2>. QED BY <2>2, <2>3
<1>. QED BY <1>1, Invariant, PTL

\* A step changes what is not ready, or is the user's deletion of a marker.
LEMMA OnlyUnreadyChanges ==
  ASSUME IInv, [Next]_vars, NEW s \in Subtrees, Ready(s)
  PROVE  store'[s] = store[s] \/ (s \in States /\ deletions' # deletions /\ at' = at)
<1>1. ASSUME NEW p \in Procs, NEW t \in Subtrees, NEW to, Move(p, t, to) PROVE store'[s] = store[s]
  <2>1. CASE store' = store
    BY <2>1
  <2>2. CASE store' # store
    <3>1. PICK v \in Stored : ~Ready(t) /\ store' = [store EXCEPT ![t] = v]
      BY <1>1, <2>2 DEF Move, Stores
    <3>. QED BY <3>1 DEF IInv, TypeOK
  <2>. QED BY <2>1, <2>2
<1>2. ASSUME NEW t \in Deletable, DeleteMarker(t)
      PROVE  store'[s] = store[s] \/ (s \in States /\ deletions' # deletions /\ at' = at)
  <2>1. deletions' # deletions /\ at' = at
    BY <1>2, StoreAssumption DEF DeleteMarker, IInv, TypeOK
  <2>2. s # t => store'[s] = store[s]
    BY <1>2 DEF DeleteMarker, IInv, TypeOK
  <2>. QED BY <2>1, <2>2, StoreAssumption
<1>3. ASSUME NEW p \in Procs, \/ \E c \in {"tools", "command", "seed"} : Begin(p, c)
                              \/ Barrier(p) \/ EndPrepare(p) \/ EndSeed(p) \/ Die(p) \/ Start(p)
                              \/ \E t \in States : OrphanFlock(p, t) \/ OrphanDrop(p, t)
      PROVE  store' = store
  BY <1>3 DEF Begin, Barrier, EndPrepare, EndSeed, Die, Start, OrphanFlock, OrphanDrop, disk
<1>4. DayPasses \/ UNCHANGED vars => store' = store
  BY DEF DayPasses, vars, disk
<1>. QED BY <1>1, <1>2, <1>3, <1>4, StepKinds, WorkMoves

\* Nobody but the user takes a ready subtree away: no remnant moved aside and no
\* install that lost its race was another's finished work.
THEOREM ReadyStaysHolds == Spec => ReadyStays
<1>1. IInv /\ [Next]_vars =>
        [\A s \in Subtrees : Ready(s) => Ready(s)' \/ (s \in States /\ deletions' # deletions)]_vars
  BY OnlyUnreadyChanges DEF Ready, There
<1>. QED BY <1>1, Invariant, PTL DEF Spec, ReadyStays

\* Two processes that want the same state run its step once: it starts only
\* when the state is not ready.
THEOREM StepOnlyWhenNeededHolds == Spec => StepOnlyWhenNeeded
<1>1. IInv /\ [Next]_vars =>
        [\A p \in Procs, s \in States : at[p][s] # "stepping" /\ at'[p][s] = "stepping" => ~Ready(s)]_vars
  <2>1. SUFFICES ASSUME IInv, [Next]_vars, NEW p \in Procs, NEW s \in States,
                        at[p][s] # "stepping", at'[p][s] = "stepping", Ready(s)
                 PROVE  FALSE
    OBVIOUS
  <2>2. IInv' /\ s \in Subtrees
    BY <2>1, StepKeeps DEF Subtrees
  <2>3. ~Ready(s)'
    BY <2>1, <2>2 DEF IInv, Unready, Inside, Active
  <2>4. store'[s] = store[s]
    BY <2>1, <2>2, OnlyUnreadyChanges
  <2>. QED BY <2>1, <2>3, <2>4 DEF Ready, There
<1>. QED BY <1>1, Invariant, PTL DEF Spec, StepOnlyWhenNeeded

\* A completed full pull left every subtree of the bundle in the store, but for the
\* parser modules that the config does not declare, which it skips; and nothing that
\* is moved aside to be deleted a day later was ready.
THEOREM MarkersHold == Spec => [](SeedMarkerTrue /\ AsideNotReady)
<1>1. IInv => SeedMarkerTrue /\ AsideNotReady
  BY DEF IInv, Kept
<1>. QED BY <1>1, Invariant, PTL

(***************************************************************************)
(* What holds when the sweeper can see every owner.                        *)
(***************************************************************************)

\* A move keeps Laying when its own layout is as it should be.
LEMMA LayingByMove ==
  ASSUME IInv, Laying, NEW p \in Procs, NEW s \in Subtrees, NEW to, Move(p, s, to),
         layout'[p].there => layout'[p].leased, layout'[p].published => layout'[p].there,
         pc[p] = "prepare" =>
           /\ to \in Laid => (layout'[p].published <=> to # "publish")
           /\ to = "validate" => layout'[p].content \in {"whole", "unusable"}
           /\ to \in Places => layout'[p].content = "whole"
  PROVE  Laying'
<1>1. \A q \in Procs, t \in Subtrees : at'[q][t] = IF q = p /\ t = s THEN to ELSE at[q][t]
  BY AtPointwise DEF IInv, Move, Advances
<1>2. pc' = pc /\ \A q \in Procs : q # p => layout'[q] = layout[q]
  BY DEF Move, Advances, Lays, IInv, TypeOK
<1>3. SUFFICES ASSUME NEW q \in Procs, pc[q] = "prepare", NEW t \in States
               PROVE  /\ at'[q][t] \in Laid => (layout'[q].published <=> at'[q][t] # "publish")
                      /\ at'[q][t] = "validate" => layout'[q].content \in {"whole", "unusable"}
                      /\ at'[q][t] \in Places => layout'[q].content = "whole"
  BY <1>2 DEF Laying
<1>4. t \in Subtrees
  BY DEF Subtrees
<1>5. CASE q # p
  BY <1>1, <1>2, <1>3, <1>4, <1>5 DEF Laying
<1>6. CASE q = p /\ t = s
  BY <1>1, <1>3, <1>4, <1>6
<1>7. CASE q = p /\ t # s
  <2>1. at'[q][t] = at[q][t]
    BY <1>1, <1>4, <1>7
  <2>2. CASE layout'[p] = layout[p]
    BY <1>3, <1>7, <2>1, <2>2 DEF Laying
  <2>3. CASE layout'[p] # layout[p] /\ at[p][t] \in Laid
    <3>1. at[p][s] \notin {"none", "queued", "done"} /\ s \in States
      BY <1>3, <1>7, <2>3, StoreAssumption DEF Move, Advances, Lays
    <3>2. at[p][t] \notin {"none", "queued", "done"}
      BY <2>3 DEF Laid, Places
    <3>. QED BY <1>3, <1>7, <3>1, <3>2, OneStep DEF IInv
  <2>. QED BY <2>1, <2>2, <2>3, <1>7 DEF Laid, Places
<1>. QED BY <1>5, <1>6, <1>7

\* An ended step, an ended layer or an install leaves nothing of a layout behind.
LEMMA LayingWithout ==
  ASSUME IInv, Laying, NEW p \in Procs, NEW s \in Subtrees, NEW to, Move(p, s, to), to \notin Laid,
         layout'[p] \in {layout[p], NoLayout}
  PROVE  Laying'
<1>1. layout'[p].there => layout'[p].leased
  BY DEF Laying, NoLayout
<1>2. layout'[p].published => layout'[p].there
  BY DEF Laying, NoLayout
<1>. QED BY <1>1, <1>2, LayingByMove DEF Laid, Places

\* A move of a step, from the staging of its layout to its placement.
LEMMA LayingByRun ==
  ASSUME IInv, Laying, NEW p \in Procs, NEW s \in States, pc[p] = "prepare",
         Run(p, s) \/ Both(p, s) \/ Abandon(p, s)
  PROVE  Laying'
<1>. USE DEF Stepping
<1>0. s \in Subtrees
  BY DEF Subtrees
<1>1. PICK to : Move(p, s, to)
  BY <1>0, WorkMoves
<1>2. at'[p][s] = to
  BY <1>0, <1>1, AtPointwise DEF IInv, Move, Advances
<1>3. ASSUME NEW how, Set(p, s, how) PROVE to = how
  BY <1>0, <1>2, <1>3, AtPointwise DEF IInv
<1>4. layout \in [Procs -> Layouts] /\ (layout[p].published => layout[p].there)
      /\ (layout[p].there => layout[p].leased)
  BY DEF IInv, TypeOK, Laying
<1>5. ASSUME NEW how \in {"done", "failed"}, Leave(p, s, how) PROVE Laying'
  <2>1. to = how /\ layout'[p] = NoLayout
    BY <1>3, <1>4, <1>5 DEF Leave
  <2>. QED BY <1>0, <1>1, <2>1, LayingWithout DEF Laid, Places
<1>6. ASSUME NEW how, how \notin Laid, Set(p, s, how), layout' = layout PROVE Laying'
  BY <1>0, <1>1, <1>3, <1>6, LayingWithout
<1>7. CASE Check(p, s) \/ Flock(p, s) \/ Abandon(p, s)
  <2>1. PICK how \in {"done", "wait", "failed", "won"} : Set(p, s, how)
    BY <1>7 DEF Check, Flock, Abandon
  <2>. QED BY <1>6, <1>7, <2>1 DEF Check, Flock, Abandon, Laid, Places
<1>8. CASE Enter(p, s)
  <2>1. PICK how \in {"done", "stage"} : Set(p, s, how)
    BY <1>8 DEF Enter
  <2>. QED BY <1>6, <1>8, <2>1 DEF Enter, Laid, Places
<1>9. CASE Stage(p, s)
  <2>1. CASE Set(p, s, "publish")
             /\ layout' = [layout EXCEPT ![p] = [NoLayout EXCEPT !.there = TRUE, !.leased = TRUE]]
    <3>1. to = "publish" /\ layout'[p].leased /\ ~layout'[p].published
      BY <1>3, <1>4, <2>1 DEF NoLayout
    <3>. QED BY <1>0, <1>1, <3>1, LayingByMove DEF Places
  <2>. QED BY <1>5, <1>9, <2>1 DEF Stage
<1>10. CASE Publish(p, s)
  <2>1. CASE layout[p].there /\ Set(p, s, "step") /\ layout' = [layout EXCEPT ![p].published = TRUE]
    <3>1. to = "step" /\ layout'[p] = [layout[p] EXCEPT !.published = TRUE]
      BY <1>3, <1>4, <2>1
    <3>2. layout'[p].there /\ layout'[p].leased /\ layout'[p].published
      BY <1>4, <2>1, <3>1 DEF Layouts
    <3>. QED BY <1>0, <1>1, <3>1, <3>2, LayingByMove DEF Places
  <2>. QED BY <1>5, <1>10, <2>1 DEF Publish
<1>11. CASE StepStarts(p, s)
  <2>1. layout[p].published
    BY <1>11 DEF StepStarts, Laying, Laid
  <2>2. to = "stepping" /\ layout'[p] = [layout[p] EXCEPT !.content = "part"]
    BY <1>3, <1>4, <1>11, <2>1 DEF StepStarts
  <2>3. layout'[p].there /\ layout'[p].leased /\ layout'[p].published
    BY <1>4, <2>1, <2>2 DEF Layouts
  <2>. QED BY <1>0, <1>1, <2>2, <2>3, LayingByMove DEF Places
<1>12. CASE StepEnds(p, s)
  <2>1. layout[p].published
    BY <1>12 DEF StepEnds, Laying, Laid
  <2>2. PICK made \in {"whole", "unusable"} :
          layout' = [layout EXCEPT ![p].content = made, ![p].there = made # "none", ![p].published = TRUE]
    BY <1>4, <1>12, <2>1 DEF StepEnds
  <2>3. to = "validate" /\ layout'[p] = [layout[p] EXCEPT !.content = made, !.there = made # "none",
                                                        !.published = TRUE]
    BY <1>3, <1>4, <1>12, <2>2 DEF StepEnds
  <2>4. layout'[p].there /\ layout'[p].leased /\ layout'[p].published /\ layout'[p].content = made
    BY <1>4, <2>1, <2>3 DEF Layouts
  <2>. QED BY <1>0, <1>1, <2>3, <2>4, LayingByMove DEF Places
<1>13. CASE StepFails(p, s)
  BY <1>5, <1>13 DEF StepFails
<1>14. CASE Validate(p, s)
  <2>1. layout[p].published /\ layout[p].content \in {"whole", "unusable"}
    BY <1>14 DEF Validate, Laying, Laid
  <2>2. CASE layout[p].content = "whole"
    <3>1. to = "place" /\ layout'[p] = [layout[p] EXCEPT !.marked = TRUE]
      BY <1>3, <1>4, <1>14, <2>2 DEF Validate
    <3>2. layout'[p].there /\ layout'[p].leased /\ layout'[p].published /\ layout'[p].content = "whole"
      BY <1>4, <2>1, <2>2, <3>1 DEF Layouts
    <3>. QED BY <1>0, <1>1, <3>1, <3>2, LayingByMove DEF Places
  <2>3. CASE layout[p].content = "unusable"
    BY <1>5, <1>14, <2>3 DEF Validate
  <2>. QED BY <2>1, <2>2, <2>3
\* From one place to the next the layout stays what it is.
<1>15. ASSUME NEW how \in {"aside", "rename"}, Set(p, s, how), layout' = layout, at[p][s] \in Places
       PROVE  Laying'
  <2>1. layout[p].published /\ layout[p].content = "whole"
    BY <1>15 DEF Laying, Laid, Places
  <2>2. to = how
    BY <1>3, <1>15
  <2>. QED BY <1>0, <1>1, <1>4, <1>15, <2>1, <2>2, LayingByMove DEF Places
<1>16. CASE PlaceLook(p, s)
  <2>1. ~Ready(s)
    BY <1>16 DEF PlaceLook, IInv, Unready, Inside, Active
  <2>2. PICK how \in {"aside", "rename"} : Set(p, s, how)
    BY <1>16, <2>1 DEF PlaceLook
  <2>. QED BY <1>15, <1>16, <2>1, <2>2 DEF PlaceLook, Places
<1>17. CASE MoveAside(p, s)
  BY <1>5, <1>15, <1>17 DEF MoveAside, Places
<1>18. CASE PlaceRename(p, s)
  BY <1>5, <1>18 DEF PlaceRename
<1>. QED BY <1>7, <1>8, <1>9, <1>10, <1>11, <1>12, <1>13, <1>14, <1>16, <1>17, <1>18 DEF Run, Both

\* No sweeper takes the layout of a process that it can see.
LEMMA SweepSpares ==
  ASSUME OneNamespace, IInv, Laying, NEW p \in Procs, SweepStale(p)
  PROVE  \A q \in Procs : layout[q].published => layout'[q] = layout[q]
<1>. SUFFICES ASSUME NEW q \in Procs, layout[q].published PROVE layout'[q] = layout[q]
  OBVIOUS
<1>1. pc[q] = "prepare" /\ layout[q].leased
  BY DEF IInv, LayoutHome, Laying
<1>2. ProcessAlive(p, PidOf[q])
  BY <1>1 DEF ProcessAlive, OneNamespace
<1>3. ~Swept(p, LayoutOf(q))
  BY <1>1, <1>2 DEF Swept, LayoutOf
<1>. QED BY <1>3 DEF SweepStale

\* Every step keeps Laying.
LEMMA LayingKept ==
  ASSUME OneNamespace, IInv, Laying, [Next]_vars
  PROVE  Laying'
<1>1. CASE UNCHANGED vars
  BY <1>1 DEF vars, locks, Laying
<1>2. ASSUME NEW p \in Procs, NEW s \in Subtrees,
             \/ Both(p, s) \/ Layer(p, s)
             \/ s \in States /\ (Run(p, s) \/ Abandon(p, s))
             \/ s \in Bins /\ Install(p, s)
      PROVE  Laying'
  <2>1. PICK to : Move(p, s, to)
    BY <1>2, WorkMoves
  <2>2. CASE pc[p] = "prepare"
    <3>1. s \in States /\ s \notin Bins
      BY <2>1, <2>2, StoreAssumption DEF Move, Advances
    <3>2. ~Layer(p, s)
      BY <2>2 DEF Layer, Blob, LayerPlace, LayerRename, Seeding
    <3>. QED BY <1>2, <2>2, <3>1, <3>2, LayingByRun
  <2>3. CASE pc[p] # "prepare"
    <3>1. ~layout'[p].there /\ ~layout'[p].published
      BY <2>1, <2>3, MoveKeeps DEF IInv, LayoutHome, Move, Advances
    <3>. QED BY <2>1, <2>3, <3>1, LayingByMove
  <2>. QED BY <2>2, <2>3
<1>3. ASSUME UNCHANGED layout, \A q \in Procs : pc'[q] = "prepare" => pc[q] = "prepare" /\ at'[q] = at[q]
      PROVE  Laying'
  BY <1>3 DEF Laying
<1>4. ASSUME NEW p \in Procs, Finish(p), (UNCHANGED layout) \/ SweepStale(p)
      PROVE  Laying'
  <2>1. pc'[p] = "idle" /\ \A q \in Procs : q # p => pc'[q] = pc[q] /\ at'[q] = at[q]
    BY <1>4 DEF Finish, IInv, TypeOK
  <2>2. \A q \in Procs : layout'[q] \in {layout[q], NoLayout} /\ (layout[q].published => layout'[q] = layout[q])
    BY <1>4, SweepLeaves, SweepSpares DEF IInv
  <2>3. ~NoLayout.there /\ ~NoLayout.published
    BY DEF NoLayout
  <2>4. SUFFICES ASSUME NEW q \in Procs, pc'[q] = "prepare", NEW s \in States
                 PROVE  /\ at'[q][s] \in Laid => (layout'[q].published <=> at'[q][s] # "publish")
                        /\ at'[q][s] = "validate" => layout'[q].content \in {"whole", "unusable"}
                        /\ at'[q][s] \in Places => layout'[q].content = "whole"
    BY <2>2, <2>3 DEF Laying
  <2>5. q # p /\ pc[q] = "prepare" /\ at'[q] = at[q]
    BY <2>1, <2>4
  <2>6. CASE layout[q].published
    BY <2>2, <2>5, <2>6 DEF Laying
  <2>7. CASE ~layout[q].published
    <3>1. ~layout'[q].published
      BY <2>2, <2>3, <2>7
    <3>2. at[q][s] \in Laid => at[q][s] = "publish"
      BY <2>5, <2>7 DEF Laying
    <3>. QED BY <2>5, <3>1, <3>2 DEF Laid, Places
  <2>. QED BY <2>6, <2>7
<1>5. ASSUME NEW p \in Procs, Barrier(p) PROVE Laying'
  <2>1. CASE Finish(p)
    BY <1>4, <1>5, <2>1 DEF Barrier
  <2>2. CASE pc' = [pc EXCEPT ![p] = "prepare"] /\ UNCHANGED at
    <3>1. layout' = layout /\ pc[p] = "install" /\ \A q \in Procs : q # p => pc'[q] = pc[q]
      BY <1>5, <2>2 DEF Barrier, IInv, TypeOK
    <3>2. \A s \in States : at[p][s] \notin Laid
      BY <3>1 DEF IInv, Phases, Laid, Places
    <3>. QED BY <2>2, <3>1, <3>2 DEF Laying, Laid, Places
  <2>. QED BY <1>5, <2>1, <2>2 DEF Barrier
<1>6. ASSUME NEW p \in Procs, EndPrepare(p) \/ EndSeed(p) PROVE Laying'
  BY <1>4, <1>6 DEF EndPrepare, EndSeed
<1>7. ASSUME NEW p \in Procs, Die(p) PROVE Laying'
  <2>1. pc'[p] = "down" /\ layout'[p] = NoLayout
        /\ \A q \in Procs : q # p => pc'[q] = pc[q] /\ at'[q] = at[q] /\ layout'[q] = layout[q]
    BY <1>7 DEF Die, IInv, TypeOK
  <2>. QED BY <2>1 DEF Laying, NoLayout
<1>8. ASSUME NEW p \in Procs, NEW c \in {"tools", "command", "seed"}, Begin(p, c) PROVE Laying'
  <2>1. layout' = layout /\ pc[p] = "idle"
    BY <1>8 DEF Begin
  <2>2. pc'[p] # "prepare" /\ \A q \in Procs : q # p => pc'[q] = pc[q] /\ at'[q] = at[q]
    BY <1>8 DEF Begin, IInv, TypeOK
  <2>. QED BY <1>3, <2>1, <2>2
<1>9. ASSUME NEW p \in Procs, Start(p) \/ (\E s \in States : OrphanFlock(p, s) \/ OrphanDrop(p, s))
      PROVE  Laying'
  BY <1>3, <1>9 DEF Start, OrphanFlock, OrphanDrop, IInv, TypeOK
<1>10. ASSUME NEW s \in Deletable, DeleteMarker(s) PROVE Laying'
  BY <1>3, <1>10 DEF DeleteMarker
<1>11. CASE DayPasses
  <2>1. pc' = pc /\ at' = at
    BY <1>11 DEF DayPasses
  <2>2. \A q \in Procs : layout'[q] = [layout[q] EXCEPT !.old = layout[q].there]
    BY <1>11 DEF DayPasses
  <2>3. \A q \in Procs : /\ layout'[q].there = layout[q].there /\ layout'[q].leased = layout[q].leased
                         /\ layout'[q].published = layout[q].published
                         /\ layout'[q].content = layout[q].content
    <3>1. \A q \in Procs : layout[q] \in Layouts
      BY DEF IInv, TypeOK
    <3>. QED BY <2>2, <3>1 DEF Layouts
  <2>. QED BY <2>1, <2>3 DEF Laying
<1>. QED BY <1>1, <1>2, <1>5, <1>6, <1>7, <1>8, <1>9, <1>10, <1>11, StepKinds

\* What a step of a process puts into the store is whole.
LEMMA PlacesWhole ==
  ASSUME IInv, Laying, NEW p \in Procs, NEW s \in Subtrees,
         \/ Both(p, s) \/ Layer(p, s)
         \/ s \in States /\ (Run(p, s) \/ Abandon(p, s))
         \/ s \in Bins /\ Install(p, s)
  PROVE  \/ store' = store
         \/ \E v \in Stored : store' = [store EXCEPT ![s] = v] /\ (v.there => v.content = "whole")
<1>1. Whole(s) \in Stored /\ Whole(s).content = "whole" /\ Absent \in Stored /\ ~Absent.there
  BY DEF Whole, Absent, Stored, Contents
<1>2. CASE Both(p, s)
  BY <1>1, <1>2 DEF Both, Flock, Enter, MoveAside, disk
<1>3. CASE Layer(p, s)
  BY <1>1, <1>3 DEF Layer, Blob, LayerPlace, LayerRename, disk
<1>4. CASE s \in Bins /\ Install(p, s)
  BY <1>1, <1>4 DEF Install, LookUp, Fetch, MoveLook, MoveRename, MoveBreaks, disk
<1>5. CASE s \in States /\ PlaceRename(p, s)
  <2>1. CASE store' # store
    <3>. DEFINE v == [there |-> TRUE, content |-> layout[p].content, marked |-> layout[p].marked]
    <3>1. store' = [store EXCEPT ![s] = v]
      BY <1>5, <2>1 DEF PlaceRename
    <3>2. v \in Stored
      BY DEF IInv, TypeOK, Layouts, Stored
    <3>3. v.content = "whole"
      BY <1>5 DEF PlaceRename, Stepping, Laying, Places
    <3>. QED BY <3>1, <3>2, <3>3
  <2>. QED BY <2>1
<1>6. CASE s \in States /\ ((Run(p, s) /\ ~PlaceRename(p, s)) \/ Abandon(p, s))
  BY <1>6 DEF Run, Abandon, Check, Stage, Publish, StepStarts, StepEnds, StepFails, Validate, PlaceLook, disk
<1>. QED BY <1>2, <1>3, <1>4, <1>5, <1>6

\* Every step keeps what is there whole.
LEMMA WholeKept ==
  ASSUME IInv, Laying, ThereIsWhole, [Next]_vars
  PROVE  ThereIsWhole'
<1>1. ASSUME store' = store PROVE ThereIsWhole'
  BY <1>1 DEF ThereIsWhole, There
<1>2. ASSUME NEW p \in Procs, NEW s \in Subtrees,
             \/ Both(p, s) \/ Layer(p, s)
             \/ s \in States /\ (Run(p, s) \/ Abandon(p, s))
             \/ s \in Bins /\ Install(p, s)
      PROVE  ThereIsWhole'
  <2>1. CASE store' # store
    <3>1. PICK v \in Stored : store' = [store EXCEPT ![s] = v] /\ (v.there => v.content = "whole")
      BY <1>2, <2>1, PlacesWhole
    <3>2. \A t \in Subtrees : store'[t] = IF t = s THEN v ELSE store[t]
      BY <3>1 DEF IInv, TypeOK
    <3>. QED BY <3>1, <3>2 DEF ThereIsWhole, There
  <2>. QED BY <1>1, <2>1
<1>3. ASSUME NEW s \in Deletable, DeleteMarker(s) PROVE ThereIsWhole'
  <2>1. store' = [store EXCEPT ![s] = [store[s] EXCEPT !.marked = FALSE]] /\ store[s] \in Stored
        /\ s \in Subtrees
    BY <1>3, StoreAssumption DEF DeleteMarker, IInv, TypeOK, Subtrees
  <2>2. \A t \in Subtrees : store'[t].there = store[t].there /\ store'[t].content = store[t].content
    BY <2>1 DEF IInv, TypeOK, Stored
  <2>. QED BY <2>2 DEF ThereIsWhole, There
<1>4. ASSUME NEW p \in Procs, \/ \E c \in {"tools", "command", "seed"} : Begin(p, c)
                              \/ Barrier(p) \/ EndPrepare(p) \/ EndSeed(p) \/ Die(p) \/ Start(p)
                              \/ \E t \in States : OrphanFlock(p, t) \/ OrphanDrop(p, t)
      PROVE  store' = store
  BY <1>4 DEF Begin, Barrier, EndPrepare, EndSeed, Die, Start, OrphanFlock, OrphanDrop, disk
<1>5. DayPasses \/ UNCHANGED vars => store' = store
  BY DEF DayPasses, vars, disk
<1>. QED BY <1>1, <1>2, <1>3, <1>4, <1>5, StepKinds

\* Then the whole invariant holds in every reachable state.
THEOREM InvariantOne == ASSUME OneNamespace PROVE Spec => []IInvOne
<1>1. Init => IInvOne
  <2>1. Init => Laying /\ ThereIsWhole
    BY DEF Init, Laying, ThereIsWhole, There, NoLayout, Left, Remnant, Whole, Absent
  <2>. QED BY <2>1, InitKeeps DEF IInvOne
<1>2. IInvOne /\ [Next]_vars => IInvOne'
  BY StepKeeps, LayingKept, WholeKept DEF IInvOne
<1>. QED BY <1>1, <1>2, PTL DEF Spec

\* What is marked is whole, a completed pull left all it did not skip, and nothing
\* marked is put aside: whoever died, was swept, timed out or lost a race on the way.
THEOREM MarkersTrueHolds == ASSUME OneNamespace PROVE Spec => []MarkersTrue
<1>1. IInvOne => MarkersTrue
  BY DEF IInvOne, IInv, Kept, ThereIsWhole, MarkersTrue, ReadyIsWhole, Ready
<1>. QED BY <1>1, InvariantOne, PTL

\* A published layout whose owner lives is never swept, however long its step
\* runs (the lease in SweepStale).
THEOREM LiveLayoutKeptHolds == ASSUME OneNamespace PROVE Spec => LiveLayoutKept
<1>1. IInvOne /\ [Next]_vars =>
        [\A p \in Procs : layout[p].published /\ at[p] = at'[p] =>
           layout'[p].published \/ ~layout[p].leased]_vars
  <2>1. SUFFICES ASSUME IInvOne, [Next]_vars, NEW p \in Procs, layout[p].published, at'[p] = at[p]
                 PROVE  layout'[p].published
    OBVIOUS
  <2>2. IInv' /\ Laying'
    BY <2>1, StepKeeps, LayingKept DEF IInvOne
  <2>3. PICK s \in States : pc[p] = "prepare" /\ at[p][s] \in Laid
    BY <2>1 DEF IInvOne, IInv, LayoutHome
  <2>4. at[p][s] # "publish"
    BY <2>1, <2>3 DEF IInvOne, Laying
  <2>5. at'[p][s] \in Laid /\ at'[p][s] # "publish"
    BY <2>1, <2>3, <2>4
  <2>6. pc'[p] # "seed"
    <3>0. pc \in [Procs -> {"down", "idle", "install", "prepare", "seed"}]
      BY <2>1 DEF IInvOne, IInv, TypeOK
    <3>1. ASSUME NEW q \in Procs, NEW c \in {"tools", "command", "seed"}, Begin(q, c) PROVE pc'[p] # "seed"
      <4>1. q # p
        BY <2>3, <3>1 DEF Begin
      <4>2. pc' = pc \/ \E phase : pc' = [pc EXCEPT ![q] = phase]
        BY <3>1 DEF Begin
      <4>. QED BY <2>3, <3>0, <4>1, <4>2
    <3>2. ASSUME NEW q \in Procs, Barrier(q) \/ EndPrepare(q) \/ EndSeed(q) \/ Die(q) \/ Start(q)
                                  \/ (\E t \in States : OrphanFlock(q, t) \/ OrphanDrop(q, t))
          PROVE  pc'[p] # "seed"
      <4>1. pc' = pc \/ \E phase \in {"idle", "prepare", "down"} : pc' = [pc EXCEPT ![q] = phase]
        BY <3>2 DEF Barrier, EndPrepare, EndSeed, Die, Start, OrphanFlock, OrphanDrop, Finish
      <4>. QED BY <2>3, <3>0, <4>1
    <3>3. ASSUME NEW q \in Procs, NEW t \in Subtrees, NEW to, Move(q, t, to) PROVE pc'[p] # "seed"
      BY <2>3, <3>3 DEF Move, Advances
    <3>4. (\E t \in Deletable : DeleteMarker(t)) \/ DayPasses \/ UNCHANGED vars => pc'[p] # "seed"
      BY <2>3 DEF DeleteMarker, DayPasses, vars
    <3>. QED BY <2>1, <3>1, <3>2, <3>3, <3>4, StepKinds, WorkMoves DEF IInvOne
  <2>7. pc'[p] = "prepare"
    BY <2>2, <2>5, <2>6 DEF IInv, TypeOK, Phases, Subtrees, Laid, Places
  <2>. QED BY <2>2, <2>5, <2>7 DEF Laying
<1>. QED BY <1>1, InvariantOne, PTL DEF Spec, LiveLayoutKept
=============================================================================
