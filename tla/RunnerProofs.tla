---------------------------- MODULE RunnerProofs ----------------------------
(***************************************************************************)
(* Theorems about Runner: the code a command exits with is earned, what it *)
(* tells of itself is true, an operation marks as many findings of a line  *)
(* as the baseline holds, and a baseline made from a run absorbs it.       *)
(***************************************************************************)
EXTENDS Runner, FiniteSetTheorems, TLAPS

(***************************************************************************)
(* Counting.                                                               *)
(***************************************************************************)

\* Which of a set of findings f is.
Rank(S, f) == Cardinality({g \in S : g[3] < f[3]})

\* The findings of a set are finitely many and stand apart.
Ranked(S) ==
  /\ IsFiniteSet(S)
  /\ \A f \in S : f[3] \in Nat
  /\ \A f, g \in S : f[3] = g[3] => f = g

\* They are numbered from 0 without a gap.
LEMMA RanksCount ==
  ASSUME NEW S, Ranked(S)
  PROVE  [f \in S |-> Rank(S, f)] \in Bijection(S, 0 .. Cardinality(S) - 1)
<1>. DEFINE below(f) == {g \in S : g[3] < f[3]}
            T == 0 .. Cardinality(S) - 1
            r == [f \in S |-> Rank(S, f)]
<1>1. Cardinality(S) \in Nat
  BY FS_CardinalityType DEF Ranked
<1>2. ASSUME NEW f \in S PROVE Cardinality(below(f)) \in T
  <2>1. below(f) \in SUBSET S /\ f \notin below(f) /\ IsFiniteSet(S)
    BY DEF Ranked
  <2>. HIDE DEF below
  <2>2. IsFiniteSet(below(f)) /\ Cardinality(below(f)) <= Cardinality(S)
        /\ Cardinality(below(f)) # Cardinality(S)
    BY <2>1, FS_Subset
  <2>3. Cardinality(below(f)) \in Nat
    BY <2>2, FS_CardinalityType
  <2>. QED BY <1>1, <2>2, <2>3
<1>3. ASSUME NEW f \in S, NEW g \in S, f[3] < g[3]
      PROVE  Cardinality(below(f)) # Cardinality(below(g))
  <2>1. below(f) \in SUBSET below(g) /\ f \in below(g) /\ f \notin below(f)
    BY <1>3 DEF Ranked
  <2>2. IsFiniteSet(below(g))
    BY FS_Subset DEF Ranked
  <2>. HIDE DEF below
  <2>. QED BY <2>1, <2>2, FS_Subset
<1>4. r \in Injection(S, T)
  <2>1. \A f \in S : r[f] = Cardinality(below(f))
    BY DEF Rank
  <2>2. r \in [S -> T]
    <3>1. \A f \in S : Rank(S, f) \in T
      BY <1>2 DEF Rank
    <3>. HIDE DEF T
    <3>. QED BY <3>1
  <2>3. \A f, g \in S : f # g => r[f] # r[g]
    <3>1. \A f, g \in S : f # g => f[3] < g[3] \/ g[3] < f[3]
      BY DEF Ranked
    <3>. HIDE DEF below, r
    <3>. QED BY <1>3, <2>1, <3>1
  <2>. HIDE DEF r, T
  <2>. QED BY <2>2, <2>3 DEF Injection, IsInjective
<1>5. IsFiniteSet(T) /\ Cardinality(T) = Cardinality(S)
  BY <1>1, FS_Interval
<1>6. r \in Surjection(S, T)
  <2>. HIDE DEF r, T
  <2>. QED BY <1>4, <1>5, FS_Injection
<1>. QED BY <1>4, <1>6 DEF Bijection

\* As many of them are among the first n as n allows.
LEMMA RanksBelow ==
  ASSUME NEW S, Ranked(S), NEW n \in Nat
  PROVE  Cardinality({f \in S : Rank(S, f) < n}) =
           IF Cardinality(S) < n THEN Cardinality(S) ELSE n
<1>. DEFINE m == IF Cardinality(S) < n THEN Cardinality(S) ELSE n
            T == {f \in S : Rank(S, f) < n}
            r == [f \in S |-> Rank(S, f)]
            h == [f \in T |-> r[f]]
<1>1. Cardinality(S) \in Nat /\ IsFiniteSet(S)
  BY FS_CardinalityType DEF Ranked
<1>2. /\ r \in [S -> 0 .. Cardinality(S) - 1]
      /\ \A f, g \in S : r[f] = r[g] => f = g
      /\ \A k \in 0 .. Cardinality(S) - 1 : \E f \in S : r[f] = k
  <2>1. r \in Bijection(S, 0 .. Cardinality(S) - 1)
    BY RanksCount
  <2>. HIDE DEF r
  <2>. QED BY <2>1 DEF Bijection, Injection, Surjection, IsInjective
<1>3. \A f \in S : f \in T <=> r[f] < n
  OBVIOUS
<1>4. T \in SUBSET S /\ m \in Nat /\ \A k : k \in 0 .. m - 1 <=> k \in 0 .. Cardinality(S) - 1 /\ k < n
  BY <1>1
<1>5. IsFiniteSet(T)
  BY <1>1, <1>4, FS_Subset
<1>6. h \in Bijection(T, 0 .. m - 1)
  <2>. HIDE DEF r, T, m
  <2>1. h \in [T -> 0 .. m - 1]
    BY <1>2, <1>3, <1>4
  <2>2. \A f, g \in T : h[f] = h[g] => f = g
    BY <1>2, <1>4
  <2>3. \A k \in 0 .. m - 1 : \E f \in T : h[f] = k
    BY <1>2, <1>3, <1>4
  <2>. HIDE DEF h
  <2>. QED BY <2>1, <2>2, <2>3 DEF Bijection, Injection, Surjection, IsInjective
<1>7. Cardinality(0 .. m - 1) = m
  <2>. HIDE DEF m
  <2>. QED BY <1>4, FS_Interval
<1>. HIDE DEF T, m, h
<1>8. Cardinality(T) = m
  BY <1>5, <1>6, <1>7, FS_Bijection DEF ExistsBijection
<1>. QED BY <1>8 DEF T, m

\* A finite union of finite sets is finite.
LEMMA FiniteUnion ==
  ASSUME NEW I, IsFiniteSet(I), NEW F, \A i \in I : IsFiniteSet(F[i])
  PROVE  IsFiniteSet(UNION {F[i] : i \in I})
<1>. DEFINE C == {F[i] : i \in I}
            g == [i \in I |-> F[i]]
<1>1. g \in Surjection(I, C)
  BY DEF Surjection
<1>2. IsFiniteSet(C)
  <2>. HIDE DEF C, g
  <2>. QED BY <1>1, FS_Surjection
<1>. QED BY <1>2, FS_UNION

(***************************************************************************)
(* Plans and steps.                                                        *)
(***************************************************************************)

\* The operations of a command are distinct.
LEMMA Commands ==
  /\ Len(Operations) \in Nat \ {0}
  /\ ToSet(Operations) = {Operations[i] : i \in 1 .. Len(Operations)}
  /\ \A i \in 1 .. Len(Operations) : Operations[i] \in ToSet(Operations)
  /\ \A i, j \in 1 .. Len(Operations) : Operations[i] = Operations[j] => i = j
<1>1. CASE Operations = <<"fix">>
  BY <1>1 DEF ToSet
<1>2. CASE Operations = <<"lint">>
  BY <1>2 DEF ToSet
<1>3. CASE Operations = <<"fix", "lint">>
  BY <1>3 DEF ToSet
<1>. QED BY <1>1, <1>2, <1>3, RunnerAssumption

\* A task is planned once, for one operation.
LEMMA Plans ==
  ASSUME asked \in Asked, NEW op \in ToSet(Operations)
  PROVE  /\ Len(asked.plan[op]) \in Nat
         /\ \A i \in 1 .. Len(asked.plan[op]) : asked.plan[op][i] \subseteq Tasks
         /\ Planned(op) \subseteq Tasks
         /\ \A t : t \in Planned(op) <=> \E i \in 1 .. Len(asked.plan[op]) : t \in asked.plan[op][i]
         /\ \A i, j \in 1 .. Len(asked.plan[op]) : \A t :
              t \in asked.plan[op][i] /\ t \in asked.plan[op][j] => i = j
         /\ \A other \in ToSet(Operations) : \A t :
              t \in Planned(op) /\ t \in Planned(other) => op = other
<1>1. IsPlan(asked.plan)
  BY RunnerAssumption
<1>2. asked.plan[op] \in Seq(SUBSET Tasks)
  BY <1>1 DEF IsPlan
<1>3. \A t : t \in Planned(op) <=> \E i \in 1 .. Len(asked.plan[op]) : t \in asked.plan[op][i]
  BY <1>2 DEF Planned, ToSet
<1>4. \A i, j \in 1 .. Len(asked.plan[op]) : \A t :
        t \in asked.plan[op][i] /\ t \in asked.plan[op][j] => i = j
  BY <1>1, <1>2 DEF IsPlan, Apart
<1>5. \A other \in ToSet(Operations) : \A t :
        t \in Planned(op) /\ t \in Planned(other) => op = other
  BY <1>1 DEF IsPlan, Apart, Planned
<1>. QED BY <1>2, <1>3, <1>4, <1>5

\* An operation that is behind the run.
Over(op) == \E i \in 1 .. at : op = Operations[i] /\ (phase = "executing" => i # at)

\* Task t is at work, and so is nothing else.
Works(t) ==
  /\ Running /\ t \in asked.plan[Operation][step]
  /\ DOMAIN unit' = DOMAIN unit /\ DOMAIN unit'[t] = DOMAIN unit[t]
  /\ \A s \in DOMAIN unit : s # t => unit'[s] = unit[s]
  /\ UNCHANGED <<asked, held, at, phase, step, began, arrived, stopped, events,
                 short, missing, failed, interrupted, exit>>

\* One of its processes is judged, or none is.
Judges(t) ==
  \/ /\ \A u \in Units(t) : unit[t][u].state = "idle"
     /\ \A u \in Units(t) : unit'[t][u] = [Idle EXCEPT !.state = "unset"]
  \/ \E u \in Units(t) :
       /\ unit[t][u].state = "idle"
       /\ \A v \in Units(t) : v # u => unit'[t][v] = unit[t][v]
       /\ \/ \E a \in Answers[t], state \in {"ran", "cancelled"} : unit'[t][u] = Judged(t, a, state)
          \/ unit'[t][u] = [Idle EXCEPT !.state = "notStarted"]
          \/ \E a \in Answers[t] : /\ ToolOf[t] \in Parsed => a.has = {}
                                   /\ unit'[t][u] = [Idle EXCEPT !.state = "cached", !.has = a.has]

\* What the planning of the next operations changes.
Opens ==
  /\ phase = "between" /\ exit = "none"
  /\ Unmoved
  /\ at' \in at .. Len(Operations)
  /\ phase' \in {"between", "executing"} /\ step' \in Nat
  /\ \/ began' = began
     \/ at' = at + 1 /\ began' = began \cup {Operations[at']}
  /\ phase' = "executing" =>
       /\ at' = at + 1 /\ Operations[at'] \in began' /\ asked.typed
       /\ step' = 1
  /\ short \subseteq short'
  /\ ~failed' =>
       /\ ~failed /\ at' = at + 1 /\ Operations[at'] \in began'
       /\ \/ phase' = "executing"
          \/ /\ ~PlacementFails(Operations[at'])
             /\ asked.typed => /\ asked.plan[Operations[at']] = <<>>
                               /\ {s[1] : s \in {x \in asked.skipped[Operations[at']] : x[2] # "config"}}
                                    \subseteq short'

\* What an interruption changes.
Stays == UNCHANGED <<asked, held, at, phase, step, unit, began, arrived, stopped, events,
                     short, missing, failed, exit>>

\* Every step is one of these.
LEMMA Steps ==
  ASSUME TypeOK, phase = "between" => exit = "none", [Next]_vars
  PROVE  \/ Stays
         \/ \E t \in Tasks : Works(t) /\ Judges(t)
         \/ Opens \/ EndStep \/ EndOperation \/ Finish
<1>1. CASE NeverBegins
  BY <1>1, Commands DEF NeverBegins, Opens, Unmoved, TypeOK
<1>2. CASE PlanningFails
  BY <1>2 DEF PlanningFails, TakeUp, Opens, Unmoved, TypeOK
<1>3. CASE SetupFails
  BY <1>3 DEF SetupFails, TakeUp, Opens, Unmoved, TypeOK
<1>4. CASE Execute
  BY <1>4 DEF Execute, TakeUp, Opens, Unmoved, TypeOK
<1>5. CASE NothingToRun
  <2>. DEFINE op == Operations[at + 1]
  <2>1. /\ TakeUp /\ Unmoved /\ began' = began \cup {op} /\ UNCHANGED <<phase, step>>
        /\ ~asked.typed \/ asked.plan[op] = <<>>
        /\ failed' = (failed \/ PlacementFails(op))
    BY <1>5 DEF NothingToRun
  <2>2. at' = at + 1 /\ at' \in at .. Len(Operations) /\ op = Operations[at'] /\ step' \in Nat
    BY <2>1 DEF TakeUp, TypeOK
  <2>3. /\ short \subseteq short'
        /\ {s[1] : s \in {x \in asked.skipped[op] : x[2] # "config"}} \subseteq short'
    BY <1>5 DEF NothingToRun
  <2>4. ~failed' => ~failed /\ ~PlacementFails(op)
    BY <2>1
  <2>. HIDE DEF op
  <2>. QED BY <2>1, <2>2, <2>3, <2>4 DEF Opens, TakeUp
<1>6. ASSUME NEW t \in Tasks, Unset(t)
      PROVE  Works(t) /\ Judges(t)
  <2>1. \A u \in Units(t) : unit[t][u] = Idle
    BY <1>6 DEF Unset, Untouched
  <2>2. unit'[t] = [u \in Units(t) |-> [Idle EXCEPT !.state = "unset"]]
    BY <1>6 DEF Unset, TypeOK
  <2>3. \A s \in DOMAIN unit : s # t => unit'[s] = unit[s]
    BY <1>6 DEF Unset
  <2>4. DOMAIN unit' = DOMAIN unit /\ DOMAIN unit'[t] = DOMAIN unit[t]
    BY <1>6, <2>2 DEF Unset, TypeOK
  <2>5. \A u \in Units(t) : unit'[t][u] = [Idle EXCEPT !.state = "unset"]
    BY <2>2
  <2>6. Idle.state = "idle"
    BY DEF Idle
  <2>. QED BY <1>6, <2>1, <2>3, <2>4, <2>5, <2>6 DEF Works, Judges, Unset
<1>7. ASSUME NEW t \in Tasks, NEW u \in Units(t), NEW p, OnlyUnit(t, u, p)
      PROVE  /\ Works(t) /\ unit[t][u].state = "idle" /\ unit'[t][u] = p
             /\ \A v \in Units(t) : v # u => unit'[t][v] = unit[t][v]
  <2>1. unit'[t] = [unit[t] EXCEPT ![u] = p]
    BY <1>7 DEF OnlyUnit, TypeOK
  <2>2. DOMAIN unit' = DOMAIN unit /\ \A s \in DOMAIN unit : s # t => unit'[s] = unit[s]
    BY <1>7 DEF OnlyUnit
  <2>. QED BY <1>7, <2>1, <2>2 DEF Works, OnlyUnit, TypeOK
<1>8. ASSUME NEW t \in Tasks, NEW u \in Units(t), Exit(t, u) \/ Stop(t, u)
      PROVE  Works(t) /\ Judges(t)
  <2>1. PICK a \in Answers[t], state \in {"ran", "cancelled"} : OnlyUnit(t, u, Judged(t, a, state))
    BY <1>8 DEF Exit, Stop
  <2>2. /\ Works(t) /\ unit[t][u].state = "idle" /\ unit'[t][u] = Judged(t, a, state)
        /\ \A v \in Units(t) : v # u => unit'[t][v] = unit[t][v]
    BY <1>7, <2>1
  <2>. QED BY <2>2 DEF Judges
<1>9. ASSUME NEW t \in Tasks, NEW u \in Units(t), Skip(t, u)
      PROVE  Works(t) /\ Judges(t)
  <2>1. OnlyUnit(t, u, [Idle EXCEPT !.state = "notStarted"])
    BY <1>9 DEF Skip
  <2>. QED BY <1>7, <2>1 DEF Judges
<1>10. ASSUME NEW t \in Tasks, NEW u \in Units(t), Replay(t, u)
       PROVE  Works(t) /\ Judges(t)
  <2>1. PICK a \in Answers[t] : /\ ToolOf[t] \in Parsed => a.has = {}
                                /\ OnlyUnit(t, u, [Idle EXCEPT !.state = "cached", !.has = a.has])
    BY <1>10 DEF Replay
  <2>2. /\ Works(t) /\ unit[t][u].state = "idle"
        /\ unit'[t][u] = [Idle EXCEPT !.state = "cached", !.has = a.has]
        /\ \A v \in Units(t) : v # u => unit'[t][v] = unit[t][v]
    BY <1>7, <2>1
  <2>. QED BY <2>1, <2>2 DEF Judges
<1>11. CASE Interrupt \/ UNCHANGED vars
  BY <1>11 DEF Interrupt, Stays, vars
<1>. QED BY <1>1, <1>2, <1>3, <1>4, <1>5, <1>6, <1>8, <1>9, <1>10, <1>11 DEF Next

(***************************************************************************)
(* The course of a run.                                                    *)
(***************************************************************************)

\* What begins is taken up in order, and executes steps of what is planned.
Course ==
  /\ exit # "none" <=> phase = "over"
  /\ began \subseteq {Operations[i] : i \in 1 .. at}
  /\ phase = "executing" =>
       /\ at >= 1 /\ asked.typed /\ Operation \in began
       /\ step \in 1 .. Len(asked.plan[Operation]) + 1

\* A process has come to one of its answers, or to nothing.
Sensible(t, p) ==
  \/ /\ p.state \in {"ran", "cancelled"}
     /\ \E a \in Answers[t] : /\ p.has = a.has /\ p.found = a.found
                              /\ p.read = a.read /\ p.zero = a.zero
  \/ p.state = "cached" /\ p.found = {} /\ (ToolOf[t] \in Parsed => p.has = {})
  \/ p.state \in {"idle", "notStarted", "unset"} /\ p.has = {} /\ p.found = {}

Sense == \A t \in Tasks : \A u \in Units(t) : Sensible(t, unit[t][u])

\* Tasks are judged in the step that runs, and arrive with it.
Arrivals ==
  /\ \A t \in Tasks : \A u \in Units(t) : unit[t][u].state # "idle" =>
       t \in arrived \/ (Running /\ t \in asked.plan[Operation][step])
  /\ \A t \in arrived : Ended(t) /\ \E op \in began : t \in Planned(op)
  /\ phase = "executing" => \A t \in Planned(Operation) :
       t \in arrived <=> \E i \in 1 .. step - 1 : t \in asked.plan[Operation][i]

Shape == TypeOK /\ Course /\ Sense /\ Arrivals

LEMMA StepsOfShape ==
  ASSUME Shape, [Next]_vars
  PROVE  \/ Stays
         \/ \E t \in Tasks : Works(t) /\ Judges(t)
         \/ Opens \/ EndStep \/ EndOperation \/ Finish
BY Steps DEF Shape, Course

\* The operation that executes.
LEMMA Executing ==
  ASSUME TypeOK, Course, phase = "executing"
  PROVE  Operation \in ToSet(Operations) /\ Operation = Operations[at] /\ at \in 1 .. Len(Operations)
BY Commands DEF TypeOK, Course, Operation

\* The part of the type most steps need.
LEMMA TypeFacts ==
  ASSUME TypeOK
  PROVE  /\ asked \in Asked /\ at \in Nat /\ at <= Len(Operations) /\ step \in Nat
         /\ arrived \subseteq Tasks /\ stopped \subseteq Tasks /\ began \subseteq ToSet(Operations)
         /\ DOMAIN unit = Tasks
<1>1. /\ asked \in Asked /\ at \in 0 .. Len(Operations) /\ step \in Nat
      /\ arrived \subseteq Tasks /\ stopped \subseteq Tasks /\ began \subseteq ToSet(Operations)
      /\ DOMAIN unit = Tasks
  BY DEF TypeOK
<1>2. at \in Nat /\ at <= Len(Operations)
  BY <1>1, Commands
<1>. QED BY <1>1, <1>2

LEMMA TypeKept == Shape /\ [Next]_vars => TypeOK'
<1>. SUFFICES ASSUME Shape, [Next]_vars PROVE TypeOK'
  OBVIOUS
<1>0. TypeOK /\ Course
  BY DEF Shape
<1>1. CASE Stays
  BY <1>0, <1>1 DEF Stays, TypeOK
<1>2. ASSUME NEW t \in Tasks, Works(t), Judges(t) PROVE TypeOK'
  <2>1. \A u \in Units(t) : \/ unit'[t][u] = unit[t][u]
                            \/ /\ unit'[t][u].state \in States
                               /\ unit'[t][u].marked \subseteq unit'[t][u].found
    <3>1. ASSUME NEW a \in Answers[t], NEW state \in {"ran", "cancelled"}
          PROVE  /\ Judged(t, a, state).state \in States
                 /\ Judged(t, a, state).marked \subseteq Judged(t, a, state).found
      <4>1. MarkedOf(t, a.found) \subseteq a.found
        BY DEF MarkedOf
      <4>. QED BY <4>1 DEF Judged, States
    <3>. QED BY <1>2, <3>1 DEF Judges, Idle, States
  <2>2. /\ DOMAIN unit' = Tasks
        /\ \A s \in Tasks : /\ DOMAIN unit'[s] = Units(s)
                            /\ s # t => unit'[s] = unit[s]
    BY <1>0, <1>2 DEF Works, TypeOK
  <2>3. \A s \in Tasks : \A u \in Units(s) :
          unit'[s][u].state \in States /\ unit'[s][u].marked \subseteq unit'[s][u].found
    BY <1>0, <2>1, <2>2 DEF TypeOK
  <2>. QED BY <1>0, <1>2, <2>2, <2>3 DEF Works, TypeOK
<1>3. CASE Opens
  <2>1. began' \subseteq ToSet(Operations)
    BY <1>0, <1>3, Commands DEF Opens, TypeOK
  <2>. QED BY <1>0, <1>3, <2>1, Commands DEF Opens, Unmoved, TypeOK
<1>4. CASE EndStep
  <2>1. asked.plan[Operation][step] \subseteq Tasks
    BY <1>0, <1>4, Executing, Plans DEF EndStep, Running, TypeOK, Course
  <2>2. /\ arrived' \subseteq Tasks /\ stopped' \subseteq Tasks /\ step' \in Nat
        /\ UNCHANGED <<asked, held, at, phase, unit, began, exit>>
    <3>1. arrived' = arrived \cup asked.plan[Operation][step]
          /\ stopped' = stopped \cup {t \in asked.plan[Operation][step] : Cancels(t)}
          /\ step' = step + 1 /\ UNCHANGED <<asked, held, at, phase, unit, began, exit>>
      BY <1>4 DEF EndStep
    <3>. QED BY <1>0, <2>1, <3>1, TypeFacts
  <2>. QED BY <1>0, <2>2 DEF TypeOK
<1>5. CASE EndOperation
  <2>1. Planned(Operation) \subseteq Tasks
    BY <1>0, <1>5, Executing, Plans DEF EndOperation, TypeOK
  <2>. QED BY <1>0, <1>5, <2>1 DEF EndOperation, Unreached, TypeOK
<1>6. CASE Finish
  BY <1>0, <1>6 DEF Finish, Outcome, TypeOK
<1>. QED BY <1>1, <1>2, <1>3, <1>4, <1>5, <1>6, StepsOfShape

LEMMA CourseKept == Shape /\ [Next]_vars => Course'
<1>. SUFFICES ASSUME Shape, [Next]_vars PROVE Course'
  OBVIOUS
<1>0. TypeOK /\ Course
  BY DEF Shape
<1>1. CASE Stays
  BY <1>0, <1>1 DEF Stays, Course, Operation
<1>2. ASSUME NEW t \in Tasks, Works(t) PROVE Course'
  BY <1>0, <1>2 DEF Works, Course, Operation
<1>3. CASE Opens
  <2>1. began' \subseteq {Operations[i] : i \in 1 .. at'}
    BY <1>0, <1>3 DEF Opens, Course, TypeOK
  <2>2. phase' = "executing" =>
          /\ at' >= 1 /\ asked'.typed /\ Operation' \in began'
          /\ step' \in 1 .. Len(asked'.plan[Operation']) + 1
    <3>. SUFFICES ASSUME phase' = "executing"
                  PROVE  /\ at' >= 1 /\ asked'.typed /\ Operation' \in began'
                         /\ step' \in 1 .. Len(asked'.plan[Operation']) + 1
      OBVIOUS
    <3>1. at' \in 1 .. Len(Operations) /\ asked' = asked /\ step' = 1 /\ asked.typed
          /\ Operation' = Operations[at'] /\ Operation' \in began'
      BY <1>0, <1>3, Commands DEF Opens, Unmoved, Operation, TypeOK
    <3>2. Operation' \in ToSet(Operations)
      BY <3>1, Commands
    <3>3. Len(asked.plan[Operation']) \in Nat
      BY <1>0, <3>2, Plans DEF TypeOK
    <3>. QED BY <3>1, <3>3, Commands
  <2>. QED BY <1>0, <1>3, <2>1, <2>2 DEF Opens, Unmoved, Course
<1>4. CASE EndStep
  <2>1. Len(asked.plan[Operation]) \in Nat
    BY <1>0, <1>4, Executing, Plans DEF EndStep, Running, TypeOK
  <2>. QED BY <1>0, <1>4, <2>1 DEF EndStep, Running, Course, Operation, TypeOK
<1>5. CASE EndOperation
  BY <1>0, <1>5 DEF EndOperation, Course
<1>6. CASE Finish
  BY <1>0, <1>6 DEF Finish, Outcome, Course
<1>. QED BY <1>1, <1>2, <1>3, <1>4, <1>5, <1>6, StepsOfShape

LEMMA SenseKept == Shape /\ [Next]_vars => Sense'
<1>. SUFFICES ASSUME Shape, [Next]_vars PROVE Sense'
  OBVIOUS
<1>0. TypeOK /\ Sense
  BY DEF Shape
<1>1. CASE unit' = unit
  BY <1>0, <1>1 DEF Sense, Sensible
<1>2. ASSUME NEW t \in Tasks, Works(t), Judges(t) PROVE Sense'
  <2>1. ASSUME NEW u \in Units(t) PROVE Sensible(t, unit'[t][u])
    <3>1. Sensible(t, unit[t][u])
      BY <1>0 DEF Sense
    <3>2. ASSUME NEW a \in Answers[t], NEW state \in {"ran", "cancelled"}
          PROVE  Sensible(t, Judged(t, a, state))
      BY DEF Judged, Sensible
    <3>3. /\ Sensible(t, [Idle EXCEPT !.state = "notStarted"])
          /\ Sensible(t, [Idle EXCEPT !.state = "unset"])
          /\ \A a \in Answers[t] : (ToolOf[t] \in Parsed => a.has = {}) =>
               Sensible(t, [Idle EXCEPT !.state = "cached", !.has = a.has])
      BY DEF Sensible, Idle
    <3>. QED BY <1>2, <3>1, <3>2, <3>3 DEF Judges
  <2>2. ASSUME NEW s \in Tasks, s # t, NEW u \in Units(s) PROVE Sensible(s, unit'[s][u])
    BY <1>0, <1>2, <2>2 DEF Works, TypeOK, Sense
  <2>. QED BY <2>1, <2>2 DEF Sense
<1>. QED BY <1>1, <1>2, StepsOfShape DEF Stays, Opens, Unmoved, EndStep, EndOperation, Finish

LEMMA ArrivalsKept == Shape /\ [Next]_vars => Arrivals'
<1>. SUFFICES ASSUME Shape, [Next]_vars PROVE Arrivals'
  OBVIOUS
<1>0. TypeOK /\ Course /\ Arrivals
  BY DEF Shape
<1>1. CASE Stays
  BY <1>0, <1>1 DEF Stays, Arrivals, Running, Operation, Planned, Ended
<1>2. ASSUME NEW t \in Tasks, Works(t), Judges(t) PROVE Arrivals'
  <2>1. Operation \in ToSet(Operations)
    BY <1>0, <1>2, Executing DEF Works, Running
  <2>2. t \in Planned(Operation) /\ step \in 1 .. Len(asked.plan[Operation])
    BY <1>0, <1>2, <2>1, Plans DEF Works, Running, TypeOK, Course
  <2>3. t \notin arrived
    <3>. SUFFICES ASSUME t \in arrived PROVE FALSE
      OBVIOUS
    <3>1. PICK i \in 1 .. step - 1 : t \in asked.plan[Operation][i]
      BY <1>0, <1>2, <2>2 DEF Works, Running, Arrivals
    <3>2. i \in 1 .. Len(asked.plan[Operation]) /\ i # step
      <4>1. Len(asked.plan[Operation]) \in Nat
        BY <1>0, <2>1, Plans DEF TypeOK
      <4>. QED BY <2>2, <4>1
    <3>3. t \in asked.plan[Operation][step]
      BY <1>2 DEF Works
    <3>. QED BY <1>0, <2>1, <2>2, <3>1, <3>2, <3>3, Plans DEF TypeOK
  <2>4. \A s \in arrived : unit'[s] = unit[s]
    BY <1>0, <1>2, <2>3 DEF Works, TypeOK
  <2>5. \A s \in Tasks : \A u \in Units(s) : unit'[s][u].state # "idle" =>
          s \in arrived \/ (Running /\ s \in asked.plan[Operation][step])
    BY <1>0, <1>2 DEF Works, Arrivals, TypeOK
  <2>. QED BY <1>0, <1>2, <2>4, <2>5 DEF Works, Arrivals, Running, Operation, Planned, Ended
<1>3. CASE Opens
  <2>1. \A t \in Tasks : \A u \in Units(t) : unit[t][u].state # "idle" => t \in arrived
    BY <1>0, <1>3 DEF Opens, Arrivals, Running
  <2>2. \A t \in arrived : Ended(t) /\ \E op \in began : t \in Planned(op)
    BY <1>0 DEF Arrivals
  <2>3. began \subseteq began' /\ unit' = unit /\ arrived' = arrived /\ asked' = asked
    BY <1>3 DEF Opens, Unmoved
  <2>4. phase' = "executing" => \A t \in Planned(Operation)' :
          t \notin arrived /\ step' = 1
    <3>. SUFFICES ASSUME phase' = "executing", NEW t \in Planned(Operation'), t \in arrived
                  PROVE  FALSE
      BY <1>3, <2>3 DEF Opens, Planned
    <3>1. at' = at + 1 /\ at' \in 1 .. Len(Operations) /\ Operation' = Operations[at']
      BY <1>0, <1>3, Commands DEF Opens, Operation, TypeOK
    <3>2. PICK op \in began : t \in Planned(op)
      BY <2>2
    <3>3. PICK i \in 1 .. at : op = Operations[i]
      BY <1>0 DEF Course
    <3>4. i \in 1 .. Len(Operations) /\ i # at'
      <4>1. at \in Nat /\ at < at'
        BY <1>0, <3>1, TypeFacts
      <4>. QED BY <3>1, <3>3, <4>1, Commands
    <3>5. op \in ToSet(Operations) /\ Operation' \in ToSet(Operations) /\ op # Operation'
      BY <3>1, <3>3, <3>4, Commands
    <3>. QED BY <1>0, <2>3, <3>2, <3>5, Plans DEF TypeOK, Planned
  <2>. QED BY <2>1, <2>2, <2>3, <2>4 DEF Arrivals, Ended, Planned
<1>4. CASE EndStep
  <2>. DEFINE now == asked.plan[Operation][step]
  <2>1. Operation \in ToSet(Operations) /\ Operation \in began
    BY <1>0, <1>4, Executing DEF EndStep, Running, Course
  <2>2. step \in 1 .. Len(asked.plan[Operation]) /\ now \subseteq Planned(Operation)
    BY <1>0, <1>4, <2>1, Plans DEF EndStep, Running, TypeOK, Course
  <2>3. /\ arrived' = arrived \cup now /\ step' = step + 1
        /\ UNCHANGED <<asked, at, phase, unit, began>>
        /\ \A t \in now : Ended(t)
    BY <1>4 DEF EndStep
  <2>. HIDE DEF now
  <2>4. \A t \in Tasks : \A u \in Units(t) : unit[t][u].state # "idle" => t \in arrived'
    BY <1>0, <2>3 DEF Arrivals, now
  <2>5. \A t \in arrived' : Ended(t) /\ \E op \in began : t \in Planned(op)
    BY <1>0, <2>1, <2>2, <2>3 DEF Arrivals
  <2>6. \A t \in Planned(Operation) :
          t \in arrived' <=> \E i \in 1 .. step : t \in asked.plan[Operation][i]
    BY <1>0, <1>4, <2>2, <2>3 DEF Arrivals, EndStep, Running, now
  <2>7. 1 .. step' - 1 = 1 .. step
    BY <2>2, <2>3
  <2>. QED BY <2>3, <2>4, <2>5, <2>6, <2>7 DEF Arrivals, Ended, Planned, Operation
<1>5. CASE EndOperation
  <2>1. \A t \in Tasks : \A u \in Units(t) : unit[t][u].state # "idle" => t \in arrived
    <3>. SUFFICES ASSUME NEW t \in Tasks, NEW u \in Units(t), unit[t][u].state # "idle",
                         t \notin arrived
                  PROVE  FALSE
      OBVIOUS
    <3>1. Running /\ t \in asked.plan[Operation][step]
      BY <1>0 DEF Arrivals
    <3>2. unit[t] = Untouched(t)
      BY <1>5, <3>1 DEF EndOperation, Between
    <3>. QED BY <3>2 DEF Untouched, Idle
  <2>. QED BY <1>0, <1>5, <2>1 DEF EndOperation, Arrivals, Ended, Planned
<1>6. CASE Finish
  BY <1>0, <1>6 DEF Finish, Arrivals, Running, Ended, Planned
<1>. QED BY <1>1, <1>2, <1>3, <1>4, <1>5, <1>6, StepsOfShape

LEMMA ShapeKept == Shape /\ [Next]_vars => Shape'
BY TypeKept, CourseKept, SenseKept, ArrivalsKept DEF Shape

LEMMA ShapeInit == Init => Shape
<1>. SUFFICES ASSUME Init PROVE Shape
  OBVIOUS
<1>1. \A t \in Tasks : unit[t] = Untouched(t)
  BY DEF Init
<1>2. \A t \in Tasks : \A u \in Units(t) : unit[t][u] = Idle
  BY <1>1 DEF Untouched
<1>3. \A t \in Tasks : DOMAIN unit[t] = Units(t)
  BY <1>1 DEF Untouched
<1>4. TypeOK
  BY <1>2, <1>3, Commands DEF Init, TypeOK, Idle, States
<1>5. Sense
  BY <1>2 DEF Sense, Sensible, Idle
<1>. QED BY <1>2, <1>4, <1>5 DEF Shape, Course, Arrivals, Idle, Init

THEOREM ShapeInvariant == Spec => []Shape
BY ShapeInit, ShapeKept, PTL DEF Spec

(***************************************************************************)
(* What is behind the run does not change.                                 *)
(***************************************************************************)

\* What begun is behind, but for what executes.
LEMMA Behind ==
  ASSUME Shape, NEW op \in began
  PROVE  /\ op \in ToSet(Operations)
         /\ Over(op) <=> ~(phase = "executing" /\ op = Operation)
<1>0. TypeOK /\ Course
  BY DEF Shape
<1>1. PICK i \in 1 .. at : op = Operations[i]
  BY <1>0 DEF Course
<1>2. i \in 1 .. Len(Operations) /\ \A j \in 1 .. at : j \in 1 .. Len(Operations)
  BY <1>0, TypeFacts, Commands
<1>3. op \in ToSet(Operations)
  BY <1>1, <1>2, Commands
<1>4. ASSUME phase = "executing" PROVE Over(op) <=> op # Operation
  <2>1. Operation = Operations[at] /\ at \in 1 .. Len(Operations)
    BY <1>0, <1>4, Executing
  <2>. QED BY <1>1, <1>2, <1>4, <2>1, Commands DEF Over
<1>5. ASSUME phase # "executing" PROVE Over(op)
  BY <1>1, <1>5 DEF Over
<1>. QED BY <1>3, <1>4, <1>5

\* How a task fared depends on its processes.
LEMMA Fares ==
  ASSUME NEW t, unit'[t] = unit[t]
  PROVE  /\ Ended(t)' <=> Ended(t)
         /\ Succeeds(t)' <=> Succeeds(t)
         /\ Cancels(t)' <=> Cancels(t)
BY DEF Ended, Succeeds, Cancels, Passed, Failure, Gating

\* A task at work is planned for what executes and has not arrived.
LEMMA AtWork ==
  ASSUME Shape, NEW t \in Tasks, Works(t)
  PROVE  /\ Operation \in ToSet(Operations)
         /\ t \in Planned(Operation) /\ t \notin arrived
         /\ \A s \in Tasks : s # t => unit'[s] = unit[s]
         /\ \A op \in began : Over(op) => \A s \in Planned(op) : s # t /\ s \in Tasks
<1>0. TypeOK /\ Course /\ Arrivals /\ phase = "executing"
  BY DEF Shape, Works, Running
<1>1. Operation \in ToSet(Operations) /\ asked \in Asked
  BY <1>0, Executing, TypeFacts
<1>2. Len(asked.plan[Operation]) \in Nat /\ step \in 1 .. Len(asked.plan[Operation])
  BY <1>0, <1>1, Plans DEF Works, Running, Course
<1>3. t \in Planned(Operation)
  BY <1>1, <1>2, Plans DEF Works
<1>4. t \notin arrived
  <2>. SUFFICES ASSUME t \in arrived PROVE FALSE
    OBVIOUS
  <2>1. PICK i \in 1 .. step - 1 : t \in asked.plan[Operation][i]
    BY <1>0, <1>3 DEF Arrivals
  <2>2. i \in 1 .. Len(asked.plan[Operation]) /\ i # step
    BY <1>2
  <2>3. t \in asked.plan[Operation][step]
    BY DEF Works
  <2>. QED BY <1>1, <1>2, <2>1, <2>2, <2>3, Plans
<1>5. \A op \in began : Over(op) => op \in ToSet(Operations) /\ op # Operation
  BY <1>0, Behind
<1>. QED BY <1>0, <1>1, <1>3, <1>4, <1>5, Plans, TypeFacts DEF Works

\* Of what opens nothing has arrived, and nothing was stopped.
LEMMA Untold ==
  ASSUME Shape, Opens, NEW op \in began', op \notin began
  PROVE  /\ op = Operations[at'] /\ at' \in 1 .. Len(Operations) /\ op \in ToSet(Operations)
         /\ \A other \in began : \A t \in Planned(op) : t \notin Planned(other)
         /\ Planned(op) \cap arrived = {}
<1>0. TypeOK /\ Course /\ Arrivals
  BY DEF Shape
<1>1. op = Operations[at'] /\ at' = at + 1 /\ at' \in 1 .. Len(Operations)
  BY <1>0, TypeFacts, Commands DEF Opens
<1>2. op \in ToSet(Operations) /\ asked \in Asked
  BY <1>0, <1>1, TypeFacts, Commands
<1>3. \A other \in began : other \in ToSet(Operations) /\ other # op
  BY <1>0, TypeFacts
<1>4. \A other \in began : \A t \in Planned(op) : t \notin Planned(other)
  BY <1>2, <1>3, Plans
<1>. QED BY <1>0, <1>1, <1>2, <1>4 DEF Arrivals

\* A step delivers tasks of what executes.
LEMMA Delivers ==
  ASSUME Shape, EndStep
  PROVE  /\ Operation \in ToSet(Operations) /\ Operation \in began
         /\ asked.plan[Operation][step] \subseteq Planned(Operation)
         /\ \A op \in began : Over(op) => \A t \in Planned(op) : t \notin Planned(Operation)
<1>0. TypeOK /\ Course /\ phase = "executing"
  BY DEF Shape, EndStep, Running
<1>1. Operation \in ToSet(Operations) /\ Operation \in began /\ asked \in Asked
  BY <1>0, Executing, TypeFacts DEF Course
<1>2. step \in 1 .. Len(asked.plan[Operation])
  BY <1>0, <1>1, Plans DEF EndStep, Running, Course
<1>3. \A op \in began : Over(op) => op \in ToSet(Operations) /\ op # Operation
  BY <1>0, Behind
<1>. QED BY <1>1, <1>2, <1>3, Plans

\* What an operation that ends has not reached was cancelled.
LEMMA NotReached ==
  ASSUME Shape, EndOperation
  PROVE  /\ Operation \in ToSet(Operations) /\ Operation \in began
         /\ \A t \in Unreached : t \in Tasks /\ Cancels(t)
         /\ \A op \in began : Over(op) => \A t \in Planned(op) : t \notin Planned(Operation)
<1>0. TypeOK /\ Course /\ Arrivals /\ phase = "executing"
  BY DEF Shape, EndOperation
<1>1. Operation \in ToSet(Operations) /\ Operation \in began /\ asked \in Asked
  BY <1>0, Executing, TypeFacts DEF Course
<1>2. \A op \in began : Over(op) => op \in ToSet(Operations) /\ op # Operation
  BY <1>0, Behind
<1>3. ASSUME NEW t \in Unreached PROVE t \in Tasks /\ Cancels(t)
  <2>1. t \in Tasks /\ t \notin arrived
    BY <1>1, Plans DEF Unreached
  <2>2. ASSUME NEW u \in Units(t) PROVE unit[t][u].state = "idle"
    <3>. SUFFICES ASSUME unit[t][u].state # "idle" PROVE FALSE
      OBVIOUS
    <3>1. Running /\ t \in asked.plan[Operation][step]
      BY <1>0, <2>1 DEF Arrivals
    <3>2. unit[t] = Untouched(t)
      BY <3>1 DEF EndOperation, Between
    <3>. QED BY <3>2 DEF Untouched, Idle
  <2>3. 1 \in Units(t)
    BY <2>1, RunnerAssumption DEF Units
  <2>. QED BY <2>1, <2>2, <2>3 DEF Cancels, Succeeds, Passed, Failure
<1>. QED BY <1>1, <1>2, <1>3, Plans

(***************************************************************************)
(* Stopped tasks.                                                          *)
(***************************************************************************)

\* The stopped tasks of an operation are those a cancellation kept from an outcome.
StoppedOf(op, tasks) == \A t \in Planned(op) : t \in stopped <=> t \in tasks /\ Cancels(t)

Stopping ==
  /\ \A t \in stopped : \E op \in began : t \in Planned(op)
  /\ ~asked.typed => stopped = {}
  /\ \A op \in began :
       Over(op) /\ Planned(op) \cap (arrived \cup stopped) # {} => StoppedOf(op, Tasks)
  /\ phase = "executing" => StoppedOf(Operation, arrived)

LEMMA StoppingKept == Shape /\ Stopping /\ [Next]_vars => Stopping'
<1>. SUFFICES ASSUME Shape, Stopping, [Next]_vars PROVE Stopping'
  OBVIOUS
<1>0. TypeOK /\ Course
  BY DEF Shape
<1>1. CASE Stays
  BY <1>1 DEF Stays, Stopping, StoppedOf, Over, Planned, Operation, Cancels, Succeeds, Passed,
              Failure, Gating
<1>2. ASSUME NEW t \in Tasks, Works(t) PROVE Stopping'
  <2>1. /\ UNCHANGED <<asked, at, phase, began, arrived, stopped>>
        /\ phase = "executing" /\ Operation' = Operation
    BY <1>2 DEF Works, Running, Operation
  <2>2. \A op : (Planned(op)' = Planned(op)) /\ (Over(op)' <=> Over(op))
    BY <2>1 DEF Planned, Over
  <2>3. \A op \in began : Over(op) => \A s \in Planned(op) : Cancels(s)' <=> Cancels(s)
    BY <1>2, AtWork, Fares
  <2>4. \A s \in Planned(Operation) \cap arrived : Cancels(s)' <=> Cancels(s)
    BY <1>0, <1>2, AtWork, Fares, TypeFacts
  <2>5. StoppedOf(Operation, arrived)'
    BY <2>1, <2>2, <2>4 DEF Stopping, StoppedOf
  <2>6. \A op \in began :
          Over(op) /\ Planned(op) \cap (arrived \cup stopped) # {} => StoppedOf(op, Tasks)'
    BY <2>1, <2>2, <2>3 DEF Stopping, StoppedOf
  <2>. QED BY <2>1, <2>2, <2>5, <2>6 DEF Stopping
<1>3. CASE Opens
  <2>1. /\ UNCHANGED <<asked, unit, arrived, stopped>> /\ phase = "between"
        /\ began \subseteq began'
    BY <1>3 DEF Opens, Unmoved
  <2>2. \A op : Planned(op)' = Planned(op)
    BY <2>1 DEF Planned
  <2>3. \A t : Cancels(t)' <=> Cancels(t)
    BY <2>1, Fares
  <2>4. ASSUME NEW op \in began PROVE Planned(op) \cap (arrived \cup stopped) # {} => StoppedOf(op, Tasks)
    BY <2>1, Behind DEF Stopping
  <2>5. ASSUME NEW op \in began', op \notin began
        PROVE  Planned(op) \cap (arrived \cup stopped) = {}
    BY <1>3, <2>5, Untold DEF Stopping
  <2>6. \A op \in began' : Planned(op) \cap (arrived \cup stopped) # {} => StoppedOf(op, Tasks)'
    BY <2>1, <2>2, <2>3, <2>4, <2>5 DEF StoppedOf
  <2>7. phase' = "executing" => StoppedOf(Operation, arrived)'
    <3>. SUFFICES ASSUME phase' = "executing" PROVE StoppedOf(Operation, arrived)'
      OBVIOUS
    <3>1. Operation' = Operations[at'] /\ Operation' \in began' /\ at' = at + 1
      BY <1>3 DEF Opens, Operation
    <3>2. Operation' \notin began
      <4>1. at' \in 1 .. Len(Operations) /\ \A i \in 1 .. at : i \in 1 .. Len(Operations) /\ i # at'
        BY <1>0, <1>3, <3>1, TypeFacts, Commands DEF Opens
      <4>. QED BY <1>0, <3>1, <4>1, Commands DEF Course
    <3>3. Planned(Operation') \cap (arrived \cup stopped) = {}
      BY <2>5, <3>1, <3>2
    <3>4. \A t \in Planned(Operation') : t \notin arrived /\ t \notin stopped
      BY <3>3
    <3>5. Planned(Operation)' = Planned(Operation')
      BY <2>1 DEF Planned
    <3>. QED BY <2>1, <3>4, <3>5 DEF StoppedOf
  <2>. QED BY <2>1, <2>2, <2>6, <2>7 DEF Stopping
<1>4. CASE EndStep
  <2>. DEFINE now == asked.plan[Operation][step]
  <2>1. /\ UNCHANGED <<asked, at, phase, unit, began>> /\ phase = "executing" /\ Operation' = Operation
        /\ arrived' = arrived \cup now
        /\ stopped' = stopped \cup {t \in now : Cancels(t)}
    BY <1>4 DEF EndStep, Running, Operation
  <2>2. /\ Operation \in began /\ now \subseteq Planned(Operation)
        /\ \A op \in began : Over(op) => \A t \in Planned(op) : t \notin now
    BY <1>4, Delivers
  <2>3. asked.typed
    BY <1>0, <2>1 DEF Course
  <2>. HIDE DEF now
  <2>4. \A op : /\ Planned(op)' = Planned(op) /\ (Over(op)' <=> Over(op))
    BY <2>1 DEF Planned, Over
  <2>5. \A t : Cancels(t)' <=> Cancels(t)
    BY <2>1, Fares
  <2>6. StoppedOf(Operation, arrived)'
    BY <2>1, <2>4, <2>5 DEF Stopping, StoppedOf
  <2>7. \A op \in began :
          Over(op) /\ Planned(op) \cap (arrived' \cup stopped') # {} => StoppedOf(op, Tasks)'
    BY <2>1, <2>2, <2>4, <2>5 DEF Stopping, StoppedOf
  <2>8. \A t \in stopped' : \E op \in began : t \in Planned(op)
    BY <2>1, <2>2 DEF Stopping
  <2>. QED BY <2>1, <2>3, <2>4, <2>6, <2>7, <2>8 DEF Stopping
<1>5. CASE EndOperation
  <2>1. /\ UNCHANGED <<asked, at, unit, began, arrived>> /\ phase = "executing" /\ phase' = "between"
        /\ stopped' = stopped \cup Unreached /\ asked.typed
    BY <1>0, <1>5 DEF EndOperation, Course
  <2>2. /\ Operation \in began /\ Operation \in ToSet(Operations)
        /\ \A t \in Unreached : t \in Tasks /\ Cancels(t)
        /\ \A op \in began : Over(op) => \A t \in Planned(op) : t \notin Planned(Operation)
    BY <1>5, NotReached
  <2>3. \A op : Planned(op)' = Planned(op)
    BY <2>1 DEF Planned
  <2>4. \A t : Cancels(t)' <=> Cancels(t)
    BY <2>1, Fares
  <2>6. \A t \in Planned(Operation) : t \in stopped' <=> t \in Tasks /\ Cancels(t)
    <3>1. Planned(Operation) \subseteq Tasks
      BY <1>0, <2>2, Plans, TypeFacts
    <3>2. \A t \in Planned(Operation) : t \in stopped <=> t \in arrived /\ Cancels(t)
      BY <2>1 DEF Stopping, StoppedOf
    <3>. QED BY <2>1, <2>2, <3>1, <3>2 DEF Unreached
  <2>7. \A op \in began : op # Operation /\ Planned(op) \cap (arrived \cup stopped') # {} =>
          \A t \in Planned(op) : t \in stopped' <=> t \in Tasks /\ Cancels(t)
    <3>. SUFFICES ASSUME NEW op \in began, op # Operation,
                         Planned(op) \cap (arrived \cup stopped') # {}
                  PROVE  \A t \in Planned(op) : t \in stopped' <=> t \in Tasks /\ Cancels(t)
      OBVIOUS
    <3>1. Over(op)
      BY Behind
    <3>2. \A t \in Planned(op) : t \in stopped' <=> t \in stopped
      BY <2>1, <2>2, <3>1 DEF Unreached
    <3>. QED BY <3>1, <3>2 DEF Stopping, StoppedOf
  <2>8. \A t \in stopped' : \E op \in began : t \in Planned(op)
    BY <2>1, <2>2 DEF Stopping, Unreached
  <2>. QED BY <2>1, <2>3, <2>4, <2>6, <2>7, <2>8 DEF Stopping, StoppedOf
<1>6. CASE Finish
  <2>1. /\ UNCHANGED <<asked, at, unit, began, arrived, stopped>>
        /\ phase = "between" /\ phase' = "over"
    BY <1>6 DEF Finish
  <2>2. \A op : Planned(op)' = Planned(op)
    BY <2>1 DEF Planned
  <2>3. \A t : Cancels(t)' <=> Cancels(t)
    BY <2>1, Fares
  <2>4. \A op \in began : Over(op)
    BY <2>1, Behind
  <2>. QED BY <2>1, <2>2, <2>3, <2>4 DEF Stopping, StoppedOf
<1>. QED BY <1>1, <1>2, <1>3, <1>4, <1>5, <1>6, StepsOfShape

(***************************************************************************)
(* Operations that passed.                                                 *)
(***************************************************************************)

\* The tools an operation gave a short answer for.
ShortOf(op) == {s[1] : s \in {x \in asked.skipped[op] : x[2] # "config"}} \cup
               {ToolOf[t] : t \in Planned(op) \cap asked.partial}

\* What is behind a run that has not failed has begun and passed.
Earned ==
  ~failed => \A op \in ToSet(Operations) : Over(op) =>
    /\ op \in began /\ ~PlacementFails(op)
    /\ asked.typed => /\ \A t \in Planned(op) : Succeeds(t)
                      /\ ShortOf(op) \subseteq short

\* A code that is not a failure is for all operations.
Exits ==
  /\ exit \in {"ok", "not exported", "not covered"} => at = Len(Operations) /\ ~failed
  /\ exit \in {"ok", "not exported"} => ~CoverageShort(short)

LEMMA EarnedKept == Shape /\ Earned /\ [Next]_vars => Earned'
<1>. SUFFICES ASSUME Shape, Earned, [Next]_vars, ~failed',
                     NEW op \in ToSet(Operations), Over(op)'
              PROVE  /\ op \in began' /\ ~PlacementFails(op)'
                     /\ asked'.typed => /\ \A t \in Planned(op)' : Succeeds(t)'
                                        /\ ShortOf(op)' \subseteq short'
  BY DEF Earned
<1>0. TypeOK /\ Course
  BY DEF Shape
<1>1. CASE Stays \/ Finish
  <2>1. UNCHANGED <<asked, at, unit, began, short, failed>>
    BY <1>1 DEF Stays, Finish
  <2>2. Over(op)
    BY <1>1, <2>1 DEF Stays, Finish, Over
  <2>3. \A t : Succeeds(t)' <=> Succeeds(t)
    BY <2>1, Fares
  <2>. QED BY <2>1, <2>2, <2>3 DEF Earned, Planned, ShortOf, PlacementFails
<1>2. ASSUME NEW t \in Tasks, Works(t)
      PROVE  /\ op \in began' /\ ~PlacementFails(op)'
             /\ asked'.typed => /\ \A s \in Planned(op)' : Succeeds(s)'
                                /\ ShortOf(op)' \subseteq short'
  <2>1. UNCHANGED <<asked, at, phase, began, short, failed>>
    BY <1>2 DEF Works
  <2>2. Over(op)
    BY <2>1 DEF Over
  <2>3. op \in began
    BY <2>1, <2>2 DEF Earned
  <2>4. \A s \in Planned(op) : Succeeds(s)' <=> Succeeds(s)
    BY <1>2, <2>2, <2>3, AtWork, Fares
  <2>. QED BY <2>1, <2>2, <2>4 DEF Earned, Planned, ShortOf, PlacementFails
<1>3. CASE Opens
  <2>1. /\ UNCHANGED <<asked, unit>> /\ ~failed /\ short \subseteq short'
        /\ at' = at + 1 /\ at' \in 1 .. Len(Operations)
        /\ phase = "between" /\ began \subseteq began' /\ Operations[at'] \in began'
        /\ phase' = "executing" \/
             /\ ~PlacementFails(Operations[at'])
             /\ asked.typed => /\ asked.plan[Operations[at']] = <<>>
                               /\ {s[1] : s \in {x \in asked.skipped[Operations[at']] : x[2] # "config"}}
                                    \subseteq short'
    BY <1>0, <1>3, TypeFacts, Commands DEF Opens, Unmoved
  <2>2. \A t : Succeeds(t)' <=> Succeeds(t)
    BY <2>1, Fares
  <2>3. CASE Over(op)
    BY <2>1, <2>2, <2>3 DEF Earned, Planned, ShortOf, PlacementFails
  <2>4. CASE ~Over(op)
    <3>1. op = Operations[at'] /\ phase' # "executing"
      BY <1>0, <2>1, <2>4, TypeFacts DEF Over
    <3>2. asked.typed => Planned(op) = {}
      BY <2>1, <3>1 DEF Planned, ToSet
    <3>3. asked.typed => ShortOf(op) \subseteq short'
      BY <2>1, <3>1, <3>2 DEF ShortOf
    <3>. QED BY <2>1, <3>1, <3>2, <3>3 DEF Planned, ShortOf, PlacementFails
  <2>. QED BY <2>3, <2>4
<1>4. CASE EndStep
  <2>1. UNCHANGED <<asked, at, phase, unit, began, short, failed>>
    BY <1>4 DEF EndStep
  <2>2. Over(op)
    BY <2>1 DEF Over
  <2>3. \A t : Succeeds(t)' <=> Succeeds(t)
    BY <2>1, Fares
  <2>. QED BY <2>1, <2>2, <2>3 DEF Earned, Planned, ShortOf, PlacementFails
<1>5. CASE EndOperation
  <2>1. /\ UNCHANGED <<asked, at, unit, began>> /\ ~failed /\ ~PlacementFails(Operation)
        /\ short \subseteq short'
        /\ Unreached = {} /\ \A t \in Planned(Operation) \cap arrived : Succeeds(t)
        /\ phase = "executing"
    BY <1>5 DEF EndOperation, RecordCoverage
  <2>2. Operation \in began /\ Operation \in ToSet(Operations)
    BY <1>5, NotReached
  <2>3. \A t : Succeeds(t)' <=> Succeeds(t)
    BY <2>1, Fares
  <2>4. CASE Over(op)
    BY <2>1, <2>3, <2>4 DEF Earned, Planned, ShortOf, PlacementFails
  <2>5. CASE ~Over(op)
    <3>1. op = Operation
      BY <2>1, <2>5 DEF Over, Operation
    <3>2. \A t \in Planned(op) : Succeeds(t)
      BY <2>1, <3>1 DEF Unreached
    <3>3. \A s \in asked.skipped[op] : s[2] \in {"config", "platform", "narrow"}
      BY <1>0, TypeFacts, RunnerAssumption
    <3>4. ShortOf(op) \subseteq short'
      BY <1>5, <3>1, <3>3 DEF EndOperation, RecordCoverage, Skips, PartialTools, ShortOf
    <3>. QED BY <2>1, <2>2, <2>3, <3>1, <3>2, <3>4 DEF Planned, ShortOf, PlacementFails
  <2>. QED BY <2>4, <2>5
<1>. QED BY <1>1, <1>2, <1>3, <1>4, <1>5, StepsOfShape

LEMMA ExitsKept == Shape /\ Exits /\ [Next]_vars => Exits'
<1>. SUFFICES ASSUME Shape, Exits, [Next]_vars PROVE Exits'
  OBVIOUS
<1>0. Course
  BY DEF Shape
<1>1. CASE Finish
  <2>1. /\ UNCHANGED <<asked, at, short, failed>>
        /\ at = Len(Operations) \/ interrupted \/ (failed /\ asked.failFast)
        /\ exit' = Outcome \/ (Outcome = "ok" /\ exit' = "not exported")
    BY <1>1 DEF Finish
  <2>2. Outcome \in {"ok", "not covered"} => ~interrupted /\ ~failed
    BY DEF Outcome
  <2>3. Outcome = "ok" => ~CoverageShort(short)
    BY DEF Outcome
  <2>4. Outcome \in {"interrupted", "failed", "not covered", "ok"}
    BY DEF Outcome
  <2>5. CoverageShort(short)' <=> CoverageShort(short)
    BY <2>1 DEF CoverageShort
  <2>. QED BY <2>1, <2>2, <2>3, <2>4, <2>5 DEF Exits
<1>2. CASE Stays
  BY <1>2 DEF Stays, Exits, CoverageShort
<1>3. ASSUME NEW t \in Tasks, Works(t) PROVE Exits'
  BY <1>3 DEF Works, Exits, CoverageShort
<1>4. CASE Opens \/ EndStep \/ EndOperation
  <2>1. exit' = exit /\ exit = "none"
    BY <1>0, <1>4 DEF Opens, Unmoved, EndStep, Running, EndOperation, Course
  <2>. QED BY <2>1 DEF Exits
<1>. QED BY <1>1, <1>2, <1>3, <1>4, StepsOfShape

LEMMA CodeInit == Init => Stopping /\ Earned /\ Exits
<1>. SUFFICES ASSUME Init PROVE Stopping /\ Earned /\ Exits
  OBVIOUS
<1>1. began = {} /\ stopped = {} /\ at = 0 /\ phase = "between" /\ exit = "none"
  BY DEF Init
<1>2. \A op : ~Over(op)
  BY <1>1 DEF Over
<1>. QED BY <1>1, <1>2 DEF Stopping, Earned, Exits

LEMMA CodeInvariant == Spec => [](Shape /\ Stopping /\ Earned /\ Exits)
BY ShapeInit, ShapeKept, CodeInit, StoppingKept, EarnedKept, ExitsKept, PTL DEF Spec

\* A code that is not a failure is given for a run that is behind it.
LEMMA Honestly == Shape /\ Stopping /\ Earned /\ Exits => ExitHonest
<1>. SUFFICES ASSUME Shape, Stopping, Earned, Exits,
                     exit \in {"ok", "not exported", "not covered"}
              PROVE  /\ began = ToSet(Operations) /\ stopped = {}
                     /\ \A op \in ToSet(Operations) : ~PlacementFails(op)
                     /\ asked.typed => \A op \in ToSet(Operations) : \A t \in Planned(op) : Succeeds(t)
                     /\ exit \in {"ok", "not exported"} /\ asked.typed => ~CoverageShort(Narrowing)
  BY DEF ExitHonest
<1>0. TypeOK /\ Course
  BY DEF Shape
<1>1. phase = "over" /\ at = Len(Operations) /\ ~failed
  BY <1>0 DEF Course, Exits
<1>2. \A op \in ToSet(Operations) : Over(op)
  BY <1>1, Commands DEF Over
<1>3. \A op \in ToSet(Operations) :
        /\ op \in began /\ ~PlacementFails(op)
        /\ asked.typed => /\ \A t \in Planned(op) : Succeeds(t)
                          /\ ShortOf(op) \subseteq short
  BY <1>1, <1>2 DEF Earned
<1>4. began = ToSet(Operations)
  BY <1>0, <1>3, TypeFacts
<1>5. stopped = {}
  <2>. SUFFICES ASSUME NEW t \in stopped, asked.typed PROVE FALSE
    BY DEF Stopping
  <2>1. PICK op \in began : t \in Planned(op)
    BY DEF Stopping
  <2>2. StoppedOf(op, Tasks)
    BY <1>2, <1>4, <2>1 DEF Stopping
  <2>3. Cancels(t)
    BY <2>1, <2>2 DEF StoppedOf
  <2>. QED BY <1>3, <1>4, <2>1, <2>3 DEF Cancels
<1>6. ASSUME asked.typed, exit \in {"ok", "not exported"} PROVE ~CoverageShort(Narrowing)
  <2>1. Narrowing = UNION {ShortOf(op) : op \in ToSet(Operations)}
    BY DEF Narrowing, ShortOf
  <2>2. Narrowing \subseteq short
    BY <1>3, <1>6, <2>1
  <2>3. ~CoverageShort(short)
    BY <1>6 DEF Exits
  <2>. QED BY <2>2, <2>3 DEF CoverageShort
<1>. QED BY <1>3, <1>4, <1>5, <1>6

(***************************************************************************)
(* A command that exits with 0 began every operation and stopped nothing;  *)
(* where a project is detected every planned task passed its gate, and     *)
(* under --require-coverage no answer was cut short.  So it is whatever is *)
(* interrupted, cancelled, skipped or fails on the way.                    *)
(***************************************************************************)
THEOREM HonestHolds == Spec => []Honest
<1>1. Shape /\ Stopping /\ Earned /\ Exits => Honest
  BY Honestly DEF Honest, Shape
<1>. QED BY <1>1, CodeInvariant, PTL

(***************************************************************************)
(* Events.                                                                 *)
(***************************************************************************)

\* What is found, and how it is listed, depends on the processes of the tasks.
LEMMA ListedKept ==
  ASSUME NEW tasks, \A t \in tasks : unit'[t] = unit[t]
  PROVE  /\ FoundIn(tasks)' = FoundIn(tasks)
         /\ Listed(tasks)' = Listed(tasks)
<1>1. FoundIn(tasks)' = FoundIn(tasks)
  BY DEF FoundIn
<1>2. \A f : Ordinal(tasks, f)' = Ordinal(tasks, f)
  <2>1. \A x \in tasks \X UNION {Units(t) : t \in tasks} : Failing(x[1], x[2])' <=> Failing(x[1], x[2])
    BY DEF Failing
  <2>2. {x \in tasks \X UNION {Units(t) : t \in tasks} : x[2] \in Units(x[1]) /\ Failing(x[1], x[2])'} =
        {x \in tasks \X UNION {Units(t) : t \in tasks} : x[2] \in Units(x[1]) /\ Failing(x[1], x[2])}
    BY <2>1
  <2>. QED BY <1>1, <2>2 DEF Ordinal
<1>. QED BY <1>1, <1>2 DEF Listed

LEMMA EventsKept ==
  ASSUME NEW op, NEW tools, NEW tasks, asked' = asked,
         \A t \in Planned(op) \cap tasks : unit'[t] = unit[t]
  PROVE  EventsOf(op, tools, tasks)' = EventsOf(op, tools, tasks)
<1>1. \A tool : Of(op, tool)' = Of(op, tool)
  BY DEF Of, Planned
<1>2. ASSUME NEW tool PROVE Listed(Of(op, tool) \cap tasks)' = Listed(Of(op, tool) \cap tasks)
  <2>1. \A t \in Of(op, tool) \cap tasks : unit'[t] = unit[t]
    BY DEF Of
  <2>. QED BY <1>1, <2>1, ListedKept
<1>. QED BY <1>2 DEF EventsOf

\* The events of an operation.
Heard(op) == {y \in events : y[1] = op}

\* The tools an operation has nothing more to tell of.
Told(op) == {tool \in Tools : Of(op, tool) \subseteq arrived}

\* An operation tells of each of its tools once, as it is listed in the end.
Telling ==
  /\ \A y \in events : y[1] \in began /\ y = <<y[1], y[2], y[3]>>
  /\ \A op \in began : Over(op) => Heard(op) = EventsOf(op, Tools, arrived)
  /\ phase = "executing" => Heard(Operation) = EventsOf(Operation, Told(Operation), arrived)

\* Events of several tools are those of each.
LEMMA EventsOfSome ==
  ASSUME NEW op, NEW tools, NEW tasks
  PROVE  /\ \A more : EventsOf(op, tools \cup more, tasks) =
                        EventsOf(op, tools, tasks) \cup EventsOf(op, more, tasks)
         /\ \A y \in EventsOf(op, tools, tasks) : y[1] = op /\ y = <<y[1], y[2], y[3]>>
         /\ \A same : (\A tool \in tools : Of(op, tool) \cap tasks = Of(op, tool) \cap same) =>
              EventsOf(op, tools, tasks) = EventsOf(op, tools, same)
         /\ (\A t \in Planned(op) : t \notin tasks) => EventsOf(op, tools, tasks) = {}
<1>. DEFINE of(tool, ts) == {<<op, x[1], x[2]>> : x \in Listed(Of(op, tool) \cap ts)}
<1>0. \A ts, some : EventsOf(op, some, ts) = UNION {of(tool, ts) : tool \in some}
  BY DEF EventsOf
<1>1. \A more : EventsOf(op, tools \cup more, tasks) =
                  EventsOf(op, tools, tasks) \cup EventsOf(op, more, tasks)
  <2>. HIDE DEF of
  <2>. QED BY <1>0
<1>2. \A y \in EventsOf(op, tools, tasks) : y[1] = op /\ y = <<y[1], y[2], y[3]>>
  <2>1. \A tool \in tools : \A y \in of(tool, tasks) : y[1] = op /\ y = <<y[1], y[2], y[3]>>
    OBVIOUS
  <2>. HIDE DEF of
  <2>. QED BY <1>0, <2>1
<1>3. \A same : (\A tool \in tools : Of(op, tool) \cap tasks = Of(op, tool) \cap same) =>
        EventsOf(op, tools, tasks) = EventsOf(op, tools, same)
  <2>. SUFFICES ASSUME NEW same, \A tool \in tools : Of(op, tool) \cap tasks = Of(op, tool) \cap same
                PROVE  EventsOf(op, tools, tasks) = EventsOf(op, tools, same)
    OBVIOUS
  <2>1. \A tool \in tools : of(tool, tasks) = of(tool, same)
    OBVIOUS
  <2>2. {of(tool, tasks) : tool \in tools} = {of(tool, same) : tool \in tools}
    <3>. HIDE DEF of
    <3>. QED BY <2>1
  <2>. HIDE DEF of
  <2>. QED BY <1>0, <2>2
<1>4. ASSUME \A t \in Planned(op) : t \notin tasks PROVE EventsOf(op, tools, tasks) = {}
  <2>1. \A tool \in tools : Of(op, tool) \cap tasks = {}
    BY <1>4 DEF Of
  <2>2. Listed({}) = {}
    BY DEF Listed, FoundIn
  <2>3. \A tool \in tools : of(tool, tasks) = {}
    BY <2>1, <2>2
  <2>. HIDE DEF of
  <2>. QED BY <1>0, <2>3
<1>. QED BY <1>1, <1>2, <1>3, <1>4

\* What executes has told of its tools whose tasks have arrived; the step that
\* delivers the last of them tells of the tool.
LEMMA Tells ==
  ASSUME NEW op, NEW now,
         events' = events \cup EventsOf(op, {x \in Tools : Delivered(op, x, now)}, arrived \cup now),
         Heard(op) = EventsOf(op, Told(op), arrived)
  PROVE  Heard(op)' = EventsOf(op, {x \in Tools : Of(op, x) \subseteq arrived \cup now}, arrived \cup now)
<1>. DEFINE told   == Told(op)
            fresh  == {x \in Tools : Delivered(op, x, now)}
            all    == {x \in Tools : Of(op, x) \subseteq arrived \cup now}
<1>1. Heard(op)' = Heard(op) \cup {y \in EventsOf(op, fresh, arrived \cup now) : y[1] = op}
  BY DEF Heard
<1>2. {y \in EventsOf(op, fresh, arrived \cup now) : y[1] = op} = EventsOf(op, fresh, arrived \cup now)
  BY EventsOfSome
<1>3. EventsOf(op, told, arrived) = EventsOf(op, told, arrived \cup now)
  <2>1. \A tool \in told : Of(op, tool) \cap arrived = Of(op, tool) \cap (arrived \cup now)
    BY DEF Told
  <2>. HIDE DEF told
  <2>. QED BY <2>1, EventsOfSome
<1>4. told \cup fresh = all
  BY DEF Told, Delivered
<1>. HIDE DEF fresh, all
<1>. QED BY <1>1, <1>2, <1>3, <1>4, EventsOfSome DEF all

LEMMA TellingKept == Shape /\ Telling /\ [Next]_vars => Telling'
<1>. SUFFICES ASSUME Shape, Telling, [Next]_vars PROVE Telling'
  OBVIOUS
<1>0. TypeOK /\ Course
  BY DEF Shape
<1>1. CASE Stays \/ Finish
  <2>1. /\ UNCHANGED <<asked, at, unit, began, arrived, events>>
        /\ phase' = "executing" => phase = "executing" /\ Operation' = Operation
    BY <1>1 DEF Stays, Finish, Operation
  <2>2. \A op : /\ Heard(op)' = Heard(op) /\ Told(op)' = Told(op)
    BY <2>1 DEF Heard, Told, Of, Planned
  <2>3. \A op \in began : Over(op)' => Over(op)
    BY <1>1, <2>1 DEF Stays, Finish, Over
  <2>4. \A op, tools : EventsOf(op, tools, arrived)' = EventsOf(op, tools, arrived)
    BY <2>1, EventsKept
  <2>. QED BY <2>1, <2>2, <2>3, <2>4 DEF Telling
<1>2. ASSUME NEW t \in Tasks, Works(t) PROVE Telling'
  <2>1. /\ UNCHANGED <<asked, at, phase, began, arrived, events>>
        /\ phase = "executing" /\ Operation' = Operation
    BY <1>2 DEF Works, Running, Operation
  <2>2. \A op : /\ Heard(op)' = Heard(op) /\ Told(op)' = Told(op) /\ (Over(op)' <=> Over(op))
    BY <2>1 DEF Heard, Told, Of, Planned, Over
  <2>3. \A op \in began : Over(op) => \A s \in Planned(op) \cap arrived : unit'[s] = unit[s]
    BY <1>2, AtWork
  <2>4. \A s \in Planned(Operation) \cap arrived : unit'[s] = unit[s]
    BY <1>0, <1>2, AtWork, TypeFacts
  <2>5. \A op \in began : Over(op) => EventsOf(op, Tools, arrived)' = EventsOf(op, Tools, arrived)
    BY <2>1, <2>3, EventsKept
  <2>6. \A tools : EventsOf(Operation, tools, arrived)' = EventsOf(Operation, tools, arrived)
    BY <2>1, <2>4, EventsKept
  <2>. QED BY <2>1, <2>2, <2>5, <2>6 DEF Telling
<1>3. CASE Opens
  <2>1. /\ UNCHANGED <<asked, unit, arrived, events>> /\ phase = "between"
        /\ began \subseteq began'
        /\ phase' = "executing" => Operation' \in began' /\ Operation' = Operations[at'] /\ at' = at + 1
    BY <1>3 DEF Opens, Unmoved, Operation
  <2>2. \A op : /\ Heard(op)' = Heard(op) /\ Told(op)' = Told(op)
    BY <2>1 DEF Heard, Told, Of, Planned
  <2>3. \A op, tools : EventsOf(op, tools, arrived)' = EventsOf(op, tools, arrived)
    BY <2>1, EventsKept
  <2>4. \A op \in began : Heard(op) = EventsOf(op, Tools, arrived)
    BY <2>1, Behind DEF Telling
  <2>5. ASSUME NEW op \in began', op \notin began, NEW tools
        PROVE  Heard(op) = EventsOf(op, tools, arrived)
    <3>1. Heard(op) = {}
      BY <2>5 DEF Heard, Telling
    <3>2. \A t \in Planned(op) : t \notin arrived
      BY <1>3, <2>5, Untold
    <3>. QED BY <3>1, <3>2, EventsOfSome
  <2>6. \A op \in began' : Heard(op) = EventsOf(op, Tools, arrived)
    BY <2>4, <2>5
  <2>7. phase' = "executing" => Operation' \notin began
    <3>1. phase' = "executing" =>
            at' \in 1 .. Len(Operations) /\ \A i \in 1 .. at : i \in 1 .. Len(Operations) /\ i # at'
      BY <1>0, <1>3, <2>1, TypeFacts, Commands DEF Opens
    <3>. QED BY <1>0, <2>1, <3>1, Commands DEF Course
  <2>8. phase' = "executing" => Heard(Operation') = EventsOf(Operation', Told(Operation'), arrived)
    BY <2>1, <2>5, <2>7
  <2>. QED BY <2>1, <2>2, <2>3, <2>6, <2>8 DEF Telling
<1>4. CASE EndStep
  <2>. DEFINE now == asked.plan[Operation][step]
  <2>1. /\ UNCHANGED <<asked, at, phase, unit, began>> /\ phase = "executing" /\ Operation' = Operation
        /\ arrived' = arrived \cup now
        /\ events' = events \cup EventsOf(Operation, {x \in Tools : Delivered(Operation, x, now)},
                                          arrived \cup now)
    BY <1>4 DEF EndStep, Running, Operation
  <2>2. /\ Operation \in began /\ now \subseteq Planned(Operation)
        /\ \A op \in began : Over(op) => op # Operation /\ \A t \in Planned(op) : t \notin now
    BY <1>4, <2>1, Delivers, Behind
  <2>. HIDE DEF now
  <2>3. Heard(Operation)' = EventsOf(Operation, {x \in Tools : Of(Operation, x) \subseteq arrived'}, arrived')
    BY <2>1, Tells DEF Telling
  <2>4. \A op, tools, tasks : EventsOf(op, tools, tasks)' = EventsOf(op, tools, tasks)
    BY <2>1, EventsKept
  <2>5. Told(Operation)' = {x \in Tools : Of(Operation, x) \subseteq arrived'}
    BY <2>1 DEF Told, Of, Planned
  <2>6. \A op \in began : Over(op) => Heard(op)' = EventsOf(op, Tools, arrived')
    <3>. SUFFICES ASSUME NEW op \in began, Over(op) PROVE Heard(op)' = EventsOf(op, Tools, arrived')
      OBVIOUS
    <3>1. Heard(op)' = Heard(op)
      BY <2>1, <2>2, EventsOfSome DEF Heard
    <3>2. \A tool \in Tools : Of(op, tool) \cap arrived = Of(op, tool) \cap arrived'
      BY <2>1, <2>2 DEF Of
    <3>3. EventsOf(op, Tools, arrived) = EventsOf(op, Tools, arrived')
      BY <3>2, EventsOfSome
    <3>. QED BY <3>1, <3>3 DEF Telling
  <2>7. \A op \in began : Over(op)' <=> Over(op)
    BY <2>1 DEF Over
  <2>8. \A y \in events' : y[1] \in began /\ y = <<y[1], y[2], y[3]>>
    BY <2>1, <2>2, EventsOfSome DEF Telling
  <2>. QED BY <2>1, <2>3, <2>4, <2>5, <2>6, <2>7, <2>8 DEF Telling
<1>5. CASE EndOperation
  <2>. DEFINE rest == {x \in Tools : Of(Operation, x) \cap Unreached # {}}
  <2>1. /\ UNCHANGED <<asked, at, unit, began, arrived>> /\ phase = "executing" /\ phase' = "between"
        /\ events' = events \cup EventsOf(Operation, rest, arrived)
    BY <1>5 DEF EndOperation
  <2>2. Operation \in began
    BY <1>5, NotReached
  <2>3. Told(Operation) \cup rest = Tools
    BY DEF Told, Unreached, Of
  <2>. HIDE DEF rest
  <2>4. Heard(Operation)' = EventsOf(Operation, Tools, arrived)
    <3>1. Heard(Operation)' = {y \in events' : y[1] = Operation}
      BY <2>1 DEF Heard, Operation
    <3>2. {y \in events' : y[1] = Operation} = Heard(Operation) \cup EventsOf(Operation, rest, arrived)
      BY <2>1, EventsOfSome DEF Heard
    <3>. QED BY <2>1, <2>3, <3>1, <3>2, EventsOfSome DEF Telling
  <2>5. \A op \in began : op # Operation => Heard(op)' = Heard(op) /\ Over(op)
    BY <2>1, Behind, EventsOfSome DEF Heard
  <2>6. Operation' = Operation
    BY <2>1 DEF Operation
  <2>7. \A op \in began : Heard(op)' = EventsOf(op, Tools, arrived)
    BY <2>4, <2>5, <2>6 DEF Telling
  <2>8. \A op, tools : EventsOf(op, tools, arrived)' = EventsOf(op, tools, arrived)
    BY <2>1, EventsKept
  <2>9. \A y \in events' : y[1] \in began /\ y = <<y[1], y[2], y[3]>>
    BY <2>1, <2>2, EventsOfSome DEF Telling
  <2>. QED BY <2>1, <2>7, <2>8, <2>9 DEF Telling
<1>. QED BY <1>1, <1>2, <1>3, <1>4, <1>5, StepsOfShape

LEMMA TellingInit == Init => Telling
<1>. SUFFICES ASSUME Init PROVE Telling
  OBVIOUS
<1>1. began = {} /\ events = {} /\ phase = "between"
  BY DEF Init
<1>. QED BY <1>1 DEF Telling

\* Where nothing is left out, what a process finds is what there is.
LEMMA Completely == Shape => CompleteListsAll
<1>. SUFFICES ASSUME Shape, Complete,
                     NEW op \in ToSet(Operations), NEW t \in Planned(op), NEW u \in Units(t),
                     NEW f \in unit[t][u].has
              PROVE  \E x \in Report(op) : x[1] = f
  BY DEF CompleteListsAll
<1>0. TypeOK /\ Sense
  BY DEF Shape
<1>1. t \in Tasks /\ asked \in Asked
  BY <1>0, TypeFacts, Plans
<1>2. TaskComplete(t)
  BY DEF Complete
<1>3. t \in arrived /\ UnitComplete(t, u)
  BY <1>2 DEF TaskComplete
<1>4. Sensible(t, unit[t][u])
  BY <1>0, <1>1 DEF Sense
<1>5. unit[t][u].state = "ran" /\ unit[t][u].read = "parsed" /\ ~Failing(t, u)
  <2>1. unit[t][u].state = "cached" => ToolOf[t] \notin Parsed
    BY <1>4 DEF Sensible
  <2>. QED BY <1>3, <2>1 DEF UnitComplete
<1>6. f \in unit[t][u].found
  <2>1. PICK a \in Answers[t] : /\ unit[t][u].has = a.has /\ unit[t][u].found = a.found
                                /\ unit[t][u].read = a.read /\ unit[t][u].zero = a.zero
    BY <1>4, <1>5 DEF Sensible
  <2>2. IsAnswer(ToolOf[t], a)
    BY <1>1, RunnerAssumption
  <2>. QED BY <1>5, <2>1, <2>2 DEF IsAnswer, Failing
<1>. DEFINE tasks == Of(op, ToolOf[t]) \cap arrived
<1>7. t \in tasks /\ ToolOf[t] \in Tools
  BY <1>1, <1>3 DEF Of, Tools
<1>. HIDE DEF tasks
<1>8. f \in FoundIn(tasks)
  BY <1>6, <1>7 DEF FoundIn
<1>9. <<f, Ordinal(tasks, f)>> \in Listed(tasks)
  BY <1>8 DEF Listed
<1>10. <<f, Ordinal(tasks, f)>> \in Report(op)
  BY <1>7, <1>9 DEF Report, tasks
<1>. QED BY <1>10

\* What was told is what is listed.
LEMMA Truly == Shape /\ Stopping /\ Telling => EventsAreTheReport
<1>. SUFFICES ASSUME Shape, Stopping, Telling, phase # "executing", NEW op \in began
              PROVE  /\ {<<x[2], x[3]>> : x \in {y \in events : y[1] = op}} = Report(op)
                     /\ Planned(op) \cap (arrived \cup stopped) # {} =>
                          Planned(op) \cap stopped = {t \in Planned(op) : Cancels(t)}
  BY DEF EventsAreTheReport
<1>1. Over(op) /\ Planned(op) \subseteq Tasks
  BY Behind, TypeFacts, Plans DEF Shape
<1>2. Heard(op) = EventsOf(op, Tools, arrived)
  BY <1>1 DEF Telling
<1>3. {<<x[2], x[3]>> : x \in EventsOf(op, Tools, arrived)} = Report(op)
  <2>. DEFINE listed(tool) == Listed(Of(op, tool) \cap arrived)
              told(tool) == {<<op, x[1], x[2]>> : x \in listed(tool)}
  <2>1. Report(op) = UNION {listed(tool) : tool \in Tools}
    BY DEF Report
  <2>2. EventsOf(op, Tools, arrived) = UNION {told(tool) : tool \in Tools}
    BY DEF EventsOf
  <2>3. \A tool : \A x \in listed(tool) : x = <<x[1], x[2]>>
    BY DEF Listed
  <2>. HIDE DEF listed
  <2>4. \A tool : \A y \in told(tool) : <<y[2], y[3]>> \in listed(tool)
    BY <2>3
  <2>5. \A tool : \A x \in listed(tool) : \E y \in told(tool) : x = <<y[2], y[3]>>
    <3>. SUFFICES ASSUME NEW tool, NEW x \in listed(tool)
                  PROVE  \E y \in told(tool) : x = <<y[2], y[3]>>
      OBVIOUS
    <3>1. <<op, x[1], x[2]>> \in told(tool)
      OBVIOUS
    <3>2. x = <<x[1], x[2]>>
      BY <2>3
    <3>. HIDE DEF told
    <3>. QED BY <3>1, <3>2
  <2>. HIDE DEF told
  <2>. QED BY <2>1, <2>2, <2>4, <2>5
<1>4. Planned(op) \cap (arrived \cup stopped) # {} => StoppedOf(op, Tasks)
  BY <1>1 DEF Stopping
<1>5. Planned(op) \cap (arrived \cup stopped) # {} =>
        Planned(op) \cap stopped = {t \in Planned(op) : Cancels(t)}
  BY <1>1, <1>4 DEF StoppedOf
<1>. QED BY <1>2, <1>3, <1>5 DEF Heard

(***************************************************************************)
(* What a run tells of itself is true.  A report that calls itself         *)
(* complete lists every finding its tasks had to report; the events handed *)
(* out while an operation ran are the findings its report lists, under the *)
(* same fingerprints; and the tasks listed as stopped are those that a     *)
(* cancellation kept from an outcome.                                      *)
(***************************************************************************)
THEOREM ReportTrueHolds == Spec => []ReportTrue
<1>1. Init => Shape /\ Stopping /\ Telling
  BY ShapeInit, CodeInit, TellingInit
<1>2. Shape /\ Stopping /\ Telling => ReportTrue
  BY Completely, Truly DEF ReportTrue
<1>. QED BY <1>1, <1>2, ShapeKept, StoppingKept, TellingKept, PTL DEF Spec

(***************************************************************************)
(* Marks.                                                                  *)
(***************************************************************************)

\* Of the findings F that come to those of a line, the first are marked, as long as
\* h of them are not.
LEMMA MarksCount ==
  ASSUME NEW A, IsFiniteSet(A), NEW M \in SUBSET A, NEW F, Ranked(F), A \cap F = {}, NEW h \in Nat,
         Cardinality(M) = IF Cardinality(A) < h THEN Cardinality(A) ELSE h
  PROVE  Cardinality(M \cup {f \in F : Rank(F, f) < h - Cardinality(M)}) =
           IF Cardinality(A \cup F) < h THEN Cardinality(A \cup F) ELSE h
<1>. DEFINE n == h - Cardinality(M)
            first == {f \in F : Rank(F, f) < n}
<1>1. IsFiniteSet(M) /\ IsFiniteSet(F) /\ IsFiniteSet(first)
  BY FS_Subset DEF Ranked
<1>2. Cardinality(A) \in Nat /\ Cardinality(M) \in Nat /\ Cardinality(F) \in Nat
  BY <1>1, FS_CardinalityType
<1>3. n \in Nat
  BY <1>2
<1>4. Cardinality(first) = IF Cardinality(F) < n THEN Cardinality(F) ELSE n
  BY <1>3, RanksBelow
<1>5. Cardinality(M \cap first) = 0 /\ Cardinality(A \cap F) = 0
  <2>1. M \cap first = {}
    OBVIOUS
  <2>. HIDE DEF first
  <2>. QED BY <2>1, FS_EmptySet
<1>. HIDE DEF first
<1>6. Cardinality(M \cup first) = Cardinality(M) + Cardinality(first)
  <2>1. Cardinality(M \cup first) = Cardinality(M) + Cardinality(first) - Cardinality(M \cap first)
    BY <1>1, FS_Union
  <2>2. Cardinality(first) \in Nat
    BY <1>1, FS_CardinalityType
  <2>. QED BY <1>2, <1>5, <2>1, <2>2
<1>7. Cardinality(A \cup F) = Cardinality(A) + Cardinality(F)
  <2>1. Cardinality(A \cup F) = Cardinality(A) + Cardinality(F) - Cardinality(A \cap F)
    BY <1>1, FS_Union
  <2>. QED BY <1>2, <1>5, <2>1
<1>8. Cardinality(M \cup first) =
        IF Cardinality(A \cup F) < h THEN Cardinality(A \cup F) ELSE h
  BY <1>2, <1>4, <1>6, <1>7
<1>. QED BY <1>8 DEF first

\* The findings of tasks are finitely many, each its tool's.
LEMMA FoundFacts ==
  ASSUME Shape, NEW tasks \in SUBSET Tasks
  PROVE  /\ IsFiniteSet(FoundIn(tasks))
         /\ MarkedIn(tasks) \subseteq FoundIn(tasks)
         /\ \A f \in FoundIn(tasks) :
              /\ f = <<f[1], f[2], f[3]>> /\ f[3] \in Nat /\ held[LineOf(f)] \in Nat
              /\ \E t \in tasks : f[1] = ToolOf[t] /\ f \in FoundIn({t})
<1>0. TypeOK /\ Sense
  BY DEF Shape
<1>1. ASSUME NEW t \in tasks, NEW u \in Units(t)
      PROVE  /\ IsFiniteSet(unit[t][u].found)
             /\ \A f \in unit[t][u].found :
                  f = <<ToolOf[t], f[2], f[3]>> /\ f[3] \in Nat /\ held[LineOf(f)] \in Nat
  <2>1. Sensible(t, unit[t][u]) /\ held \in Baselines
    BY <1>0 DEF Sense, TypeOK
  <2>2. unit[t][u].found = {} \/ \E a \in Answers[t] : unit[t][u].found = a.found
    BY <2>1 DEF Sensible
  <2>3. \A a \in Answers[t] : IsAnswer(ToolOf[t], a) /\ \A f \in a.found : held[LineOf(f)] \in Nat
    BY <2>1, RunnerAssumption
  <2>4. IsFiniteSet({})
    BY FS_EmptySet
  <2>. QED BY <2>2, <2>3, <2>4 DEF IsAnswer
<1>2. ASSUME NEW t \in tasks PROVE IsFiniteSet(UNION {unit[t][u].found : u \in Units(t)})
  <2>. DEFINE F == [u \in Units(t) |-> unit[t][u].found]
  <2>1. Processes[t] \in Nat
    BY RunnerAssumption
  <2>2. IsFiniteSet(Units(t))
    BY <2>1, FS_Interval DEF Units
  <2>3. \A u \in Units(t) : F[u] = unit[t][u].found /\ IsFiniteSet(F[u])
    BY <1>1
  <2>4. {F[u] : u \in Units(t)} = {unit[t][u].found : u \in Units(t)}
    BY <2>3
  <2>. HIDE DEF F
  <2>5. IsFiniteSet(UNION {F[u] : u \in Units(t)})
    BY <2>2, <2>3, FiniteUnion
  <2>. QED BY <2>4, <2>5
<1>3. IsFiniteSet(FoundIn(tasks))
  <2>. DEFINE F == [t \in tasks |-> UNION {unit[t][u].found : u \in Units(t)}]
  <2>1. IsFiniteSet(tasks)
    BY RunnerAssumption, FS_Subset
  <2>2. \A t \in tasks : IsFiniteSet(F[t])
    BY <1>2
  <2>3. FoundIn(tasks) = UNION {F[t] : t \in tasks}
    BY DEF FoundIn
  <2>. HIDE DEF F
  <2>. QED BY <2>1, <2>2, <2>3, FiniteUnion
<1>4. MarkedIn(tasks) \subseteq FoundIn(tasks)
  <2>1. \A t \in tasks : \A u \in Units(t) : unit[t][u].marked \subseteq unit[t][u].found
    BY <1>0 DEF TypeOK
  <2>. QED BY <2>1 DEF MarkedIn, FoundIn
<1>5. \A f \in FoundIn(tasks) : \E t \in tasks : \E u \in Units(t) : f \in unit[t][u].found
  BY DEF FoundIn
<1>6. \A t \in tasks : \A u \in Units(t) : \A f \in unit[t][u].found : f \in FoundIn({t})
  BY DEF FoundIn
<1>7. ASSUME NEW f \in FoundIn(tasks)
      PROVE  /\ f = <<f[1], f[2], f[3]>> /\ f[3] \in Nat /\ held[LineOf(f)] \in Nat
             /\ \E t \in tasks : f[1] = ToolOf[t] /\ f \in FoundIn({t})
  <2>1. PICK t \in tasks : \E u \in Units(t) : f \in unit[t][u].found
    BY <1>5
  <2>2. f = <<ToolOf[t], f[2], f[3]>> /\ f[3] \in Nat /\ held[LineOf(f)] \in Nat
    BY <1>1, <2>1
  <2>3. f[1] = ToolOf[t]
    BY <2>2
  <2>. QED BY <1>6, <2>1, <2>2, <2>3
<1>. QED BY <1>3, <1>4, <1>7

\* Those of a line stand apart.
LEMMA LineRanked ==
  ASSUME NEW S, IsFiniteSet(S), NEW line,
         \A f \in S : f = <<f[1], f[2], f[3]>> /\ f[3] \in Nat
  PROVE  Ranked(OnLine(S, line))
<1>1. OnLine(S, line) \subseteq S
  BY DEF OnLine
<1>2. IsFiniteSet(OnLine(S, line))
  BY <1>1, FS_Subset
<1>3. \A f, g \in OnLine(S, line) : f[1] = g[1] /\ f[2] = g[2]
  BY DEF OnLine, LineOf
<1>. QED BY <1>1, <1>2, <1>3 DEF Ranked

\* Of the findings of an operation the baseline marks its share, for every process.
MarksWell(op) ==
  /\ \A line \in {LineOf(f) : f \in FoundIn(Planned(op))} :
       Cardinality(OnLine(MarkedIn(Planned(op)), line)) =
         IF Cardinality(OnLine(FoundIn(Planned(op)), line)) < held[line]
         THEN Cardinality(OnLine(FoundIn(Planned(op)), line)) ELSE held[line]
  /\ \A t \in Planned(op) : \A u \in Units(t) :
       unit[t][u].marked = unit[t][u].found \cap MarkedIn(Planned(op))

LEMMA MarksWellKept ==
  ASSUME NEW op, UNCHANGED <<asked, held>>, MarksWell(op),
         \A t \in Planned(op) : \A u \in Units(t) :
           /\ unit'[t][u].found = unit[t][u].found
           /\ unit'[t][u].marked = unit[t][u].marked
  PROVE  MarksWell(op)'
<1>1. Planned(op)' = Planned(op)
  BY DEF Planned
<1>2. FoundIn(Planned(op))' = FoundIn(Planned(op))
  BY <1>1 DEF FoundIn
<1>3. MarkedIn(Planned(op))' = MarkedIn(Planned(op))
  BY <1>1 DEF MarkedIn
<1>. QED BY <1>1, <1>2, <1>3 DEF MarksWell

\* A process that is judged brings findings to those of its operation.
LEMMA Brings ==
  ASSUME Shape, NEW t \in Tasks, NEW u \in Units(t), Works(t), unit[t][u].state = "idle",
         \A v \in Units(t) : v # u => unit'[t][v] = unit[t][v],
         NEW a \in Answers[t], NEW state \in {"ran", "cancelled"}, unit'[t][u] = Judged(t, a, state)
  PROVE  /\ OpOf(t) = Operation
         /\ FoundIn(Planned(Operation))' = FoundIn(Planned(Operation)) \cup a.found
         /\ MarkedIn(Planned(Operation))' = MarkedIn(Planned(Operation)) \cup MarkedOf(t, a.found)
<1>. DEFINE all == Planned(Operation)
<1>0. TypeOK /\ Sense
  BY DEF Shape
<1>1. Operation \in ToSet(Operations) /\ t \in all /\ all \subseteq Tasks /\ asked \in Asked
  BY <1>0, AtWork, TypeFacts, Plans
<1>2. OpOf(t) = Operation
  BY <1>1, Plans DEF OpOf
<1>3. all' = all
  BY DEF Works, Planned, Operation
<1>4. \A s \in all : s # t => unit'[s] = unit[s]
  BY <1>1, AtWork
<1>5. unit[t][u].found = {} /\ unit[t][u].marked = {}
  <2>1. Sensible(t, unit[t][u])
    BY <1>0 DEF Sense
  <2>. QED BY <1>0, <2>1 DEF Sensible, TypeOK
<1>6. unit'[t][u].found = a.found /\ unit'[t][u].marked = MarkedOf(t, a.found)
  BY DEF Judged
<1>. HIDE DEF all
<1>7. \A s \in all : \A v \in Units(s) :
        \/ s = t /\ v = u
        \/ unit'[s][v] = unit[s][v]
  BY <1>4
<1>8. FoundIn(all)' = FoundIn(all) \cup a.found
  <2>1. \A f : f \in FoundIn(all) <=> \E s \in all : \E v \in Units(s) : f \in unit[s][v].found
    BY DEF FoundIn
  <2>2. \A f : f \in FoundIn(all)' <=> \E s \in all : \E v \in Units(s) : f \in unit'[s][v].found
    BY <1>3 DEF FoundIn
  <2>. QED BY <1>1, <1>5, <1>6, <1>7, <2>1, <2>2 DEF all
<1>9. MarkedIn(all)' = MarkedIn(all) \cup MarkedOf(t, a.found)
  <2>1. \A f : f \in MarkedIn(all) <=> \E s \in all : \E v \in Units(s) : f \in unit[s][v].marked
    BY DEF MarkedIn
  <2>2. \A f : f \in MarkedIn(all)' <=> \E s \in all : \E v \in Units(s) : f \in unit'[s][v].marked
    BY <1>3 DEF MarkedIn
  <2>. QED BY <1>1, <1>5, <1>6, <1>7, <2>1, <2>2 DEF all
<1>. QED BY <1>2, <1>8, <1>9 DEF all

LEMMA BringsWell ==
  ASSUME Shape, NEW t \in Tasks, NEW u \in Units(t), Works(t), unit[t][u].state = "idle",
         \A v \in Units(t) : v # u => unit'[t][v] = unit[t][v],
         NEW a \in Answers[t], NEW state \in {"ran", "cancelled"}, unit'[t][u] = Judged(t, a, state),
         MarksWell(Operation)
  PROVE  MarksWell(Operation)'
<1>. DEFINE seen   == FoundIn(Planned(Operation))
            marked == MarkedIn(Planned(Operation))
            fresh  == a.found \ seen
            free(line) == held[line] - Cardinality(OnLine(marked, line))
            new == {f \in fresh : Rank(OnLine(fresh, LineOf(f)), f) < free(LineOf(f))}
<1>0. TypeOK /\ Operation \in ToSet(Operations) /\ t \in Planned(Operation) /\ Planned(Operation) \subseteq Tasks
  BY AtWork, TypeFacts, Plans DEF Shape
<1>1. /\ OpOf(t) = Operation
      /\ FoundIn(Planned(Operation))' = seen \cup a.found
      /\ MarkedIn(Planned(Operation))' = marked \cup MarkedOf(t, a.found)
  BY Brings
<1>2. MarkedOf(t, a.found) = (a.found \cap marked) \cup new
  BY <1>1 DEF MarkedOf, Rank
<1>3. /\ IsFiniteSet(seen) /\ marked \subseteq seen
      /\ \A f \in seen : held[LineOf(f)] \in Nat
  BY <1>0, FoundFacts
<1>4. /\ IsFiniteSet(fresh)
      /\ \A f \in fresh : f = <<f[1], f[2], f[3]>> /\ f[3] \in Nat
      /\ \A f \in a.found : held[LineOf(f)] \in Nat
  <2>1. IsAnswer(ToolOf[t], a) /\ held \in Baselines
    BY <1>0, RunnerAssumption DEF TypeOK
  <2>2. \A f \in a.found : f = <<ToolOf[t], f[2], f[3]>> /\ f[3] \in Nat /\ held[LineOf(f)] \in Nat
    BY <2>1, RunnerAssumption DEF IsAnswer
  <2>3. IsFiniteSet(a.found)
    BY <2>1 DEF IsAnswer
  <2>4. fresh \in SUBSET a.found
    OBVIOUS
  <2>. HIDE DEF fresh
  <2>. QED BY <2>2, <2>3, <2>4, FS_Subset
<1>5. held' = held /\ Planned(Operation)' = Planned(Operation)
  BY DEF Works, Planned, Operation
<1>6. ASSUME NEW line, held[line] \in Nat,
             OnLine(seen, line) # {} =>
               Cardinality(OnLine(marked, line)) =
                 IF Cardinality(OnLine(seen, line)) < held[line]
                 THEN Cardinality(OnLine(seen, line)) ELSE held[line]
      PROVE  Cardinality(OnLine(marked \cup MarkedOf(t, a.found), line)) =
               IF Cardinality(OnLine(seen \cup a.found, line)) < held[line]
               THEN Cardinality(OnLine(seen \cup a.found, line)) ELSE held[line]
  <2>. DEFINE A == OnLine(seen, line)
              N == OnLine(marked, line)
              F == OnLine(fresh, line)
  <2>1. N \in SUBSET A /\ A \cap F = {} /\ A \subseteq seen
    BY <1>3 DEF OnLine
  <2>2. Ranked(F)
    <3>. HIDE DEF fresh
    <3>. QED BY <1>4, LineRanked
  <2>3. IsFiniteSet(A)
    BY <1>3, <2>1, FS_Subset
  <2>4. OnLine(seen \cup a.found, line) = A \cup F
    BY DEF OnLine
  <2>5. OnLine(marked \cup MarkedOf(t, a.found), line) = N \cup {f \in F : Rank(F, f) < free(line)}
    BY <1>2 DEF OnLine
  <2>6. Cardinality(N) = IF Cardinality(A) < held[line] THEN Cardinality(A) ELSE held[line]
    <3>1. CASE A # {}
      BY <1>6, <3>1
    <3>2. CASE A = {}
      <4>1. N = {}
        BY <2>1, <3>2
      <4>. HIDE DEF A, N
      <4>. QED BY <1>6, <3>2, <4>1, FS_EmptySet
    <3>. QED BY <3>1, <3>2
  <2>. HIDE DEF A, N, F
  <2>7. Cardinality(N \cup {f \in F : Rank(F, f) < held[line] - Cardinality(N)}) =
          IF Cardinality(A \cup F) < held[line] THEN Cardinality(A \cup F) ELSE held[line]
    BY <1>6, <2>1, <2>2, <2>3, <2>6, MarksCount
  <2>. QED BY <2>4, <2>5, <2>7 DEF N
<1>7. ASSUME NEW line \in {LineOf(f) : f \in seen \cup a.found}
      PROVE  Cardinality(OnLine(marked \cup MarkedOf(t, a.found), line)) =
               IF Cardinality(OnLine(seen \cup a.found, line)) < held[line]
               THEN Cardinality(OnLine(seen \cup a.found, line)) ELSE held[line]
  <2>1. held[line] \in Nat
    BY <1>3, <1>4
  <2>2. OnLine(seen, line) # {} => line \in {LineOf(f) : f \in seen}
    BY DEF OnLine
  <2>3. OnLine(seen, line) # {} =>
          Cardinality(OnLine(marked, line)) =
            IF Cardinality(OnLine(seen, line)) < held[line]
            THEN Cardinality(OnLine(seen, line)) ELSE held[line]
    BY <2>2 DEF MarksWell
  <2>. HIDE DEF seen, marked
  <2>. QED BY <1>6, <2>1, <2>3
<1>8. ASSUME NEW s \in Planned(Operation), NEW v \in Units(s)
      PROVE  unit'[s][v].marked = unit'[s][v].found \cap (marked \cup MarkedOf(t, a.found))
  <2>1. CASE s = t /\ v = u
    <3>1. unit'[s][v].marked = MarkedOf(t, a.found) /\ unit'[s][v].found = a.found
      BY <2>1 DEF Judged
    <3>2. MarkedOf(t, a.found) \subseteq a.found
      BY <1>2
    <3>. HIDE DEF marked, new
    <3>. QED BY <1>2, <3>1, <3>2
  <2>2. CASE ~(s = t /\ v = u)
    <3>1. unit'[s][v] = unit[s][v]
      BY <1>0, <2>2, AtWork
    <3>2. unit[s][v].marked = unit[s][v].found \cap marked
      BY DEF MarksWell
    <3>3. unit[s][v].found \subseteq seen
      BY DEF FoundIn
    <3>4. new \cap seen = {}
      OBVIOUS
    <3>. HIDE DEF seen, marked, new
    <3>. QED BY <1>2, <3>1, <3>2, <3>3, <3>4
  <2>. QED BY <2>1, <2>2
<1>. DEFINE found == seen \cup a.found
            marks == marked \cup MarkedOf(t, a.found)
<1>9. FoundIn(Planned(Operation))' = found /\ MarkedIn(Planned(Operation))' = marks
  BY <1>1
<1>10. \A line \in {LineOf(f) : f \in found} :
         Cardinality(OnLine(marks, line)) =
           IF Cardinality(OnLine(found, line)) < held[line]
           THEN Cardinality(OnLine(found, line)) ELSE held[line]
  BY <1>7
<1>11. \A s \in Planned(Operation) : \A v \in Units(s) :
         unit'[s][v].marked = unit'[s][v].found \cap marks
  BY <1>8
<1>. HIDE DEF found, marks
<1>. QED BY <1>5, <1>9, <1>10, <1>11 DEF MarksWell

LEMMA MarksKept == Shape /\ NewNeverSilenced /\ [Next]_vars => NewNeverSilenced'
<1>. SUFFICES ASSUME Shape, NewNeverSilenced, [Next]_vars, NEW op \in ToSet(Operations)
              PROVE  MarksWell(op)'
  BY DEF NewNeverSilenced, MarksWell
<1>1. MarksWell(op)
  BY DEF NewNeverSilenced, MarksWell
<1>2. CASE UNCHANGED <<asked, held, unit>>
  BY <1>1, <1>2, MarksWellKept
<1>3. ASSUME NEW t \in Tasks, Works(t), Judges(t) PROVE MarksWell(op)'
  <2>0. /\ UNCHANGED <<asked, held>> /\ TypeOK /\ Sense /\ op' = op
        /\ Operation \in ToSet(Operations) /\ t \in Planned(Operation)
        /\ \A s \in Planned(op) : s \in Tasks
        /\ \A s \in Tasks : s # t => unit'[s] = unit[s]
    BY <1>3, AtWork, TypeFacts, Plans DEF Shape, Works
  <2>1. CASE op # Operation
    <3>1. t \notin Planned(op)
      BY <2>0, <2>1, TypeFacts, Plans
    <3>. QED BY <1>1, <2>0, <3>1, MarksWellKept
  <2>2. CASE op = Operation
    <3>1. CASE \E u \in Units(t), a \in Answers[t], state \in {"ran", "cancelled"} :
                 /\ unit[t][u].state = "idle" /\ unit'[t][u] = Judged(t, a, state)
                 /\ \A v \in Units(t) : v # u => unit'[t][v] = unit[t][v]
      <4>1. MarksWell(Operation)'
        BY <1>1, <1>3, <2>2, <3>1, BringsWell
      <4>2. Operation' = Operation
        BY <1>3 DEF Works, Operation
      <4>. QED BY <2>2, <4>1, <4>2 DEF MarksWell, Planned
    <3>2. CASE \A u \in Units(t) :
                 \/ unit'[t][u] = unit[t][u]
                 \/ unit[t][u].state = "idle" /\ unit'[t][u].found = {} /\ unit'[t][u].marked = {}
      <4>1. \A u \in Units(t) : unit[t][u].state = "idle" =>
              unit[t][u].found = {} /\ unit[t][u].marked = {}
        <5>1. \A u \in Units(t) : Sensible(t, unit[t][u]) /\ unit[t][u].marked \subseteq unit[t][u].found
          BY <2>0 DEF Sense, TypeOK
        <5>. QED BY <5>1 DEF Sensible
      <4>2. \A s \in Planned(op) : \A v \in Units(s) :
              /\ unit'[s][v].found = unit[s][v].found
              /\ unit'[s][v].marked = unit[s][v].marked
        BY <2>0, <3>2, <4>1
      <4>. QED BY <1>1, <2>0, <4>2, MarksWellKept
    <3>. QED BY <1>3, <3>1, <3>2 DEF Judges, Idle
  <2>. QED BY <2>1, <2>2
<1>. QED BY <1>2, <1>3, StepsOfShape DEF Stays, Opens, Unmoved, EndStep, EndOperation, Finish

(***************************************************************************)
(* Whichever processes report the findings of a line, in whichever order   *)
(* they are judged, an operation marks as many as the baseline holds of    *)
(* the line, for all the processes that report them alike.                 *)
(***************************************************************************)
THEOREM NewNeverSilencedHolds == Spec => []NewNeverSilenced
<1>1. Init => NewNeverSilenced
  <2>. SUFFICES ASSUME Init PROVE NewNeverSilenced
    OBVIOUS
  <2>1. Shape
    BY ShapeInit
  <2>2. \A t \in Tasks : \A u \in Units(t) : unit[t][u] = Idle
    BY DEF Init, Untouched
  <2>3. \A op \in ToSet(Operations) : \A t \in Planned(op) : \A u \in Units(t) :
          unit[t][u].found = {} /\ unit[t][u].marked = {}
    BY <2>1, <2>2, TypeFacts, Plans DEF Shape, Idle
  <2>4. \A op \in ToSet(Operations) : FoundIn(Planned(op)) = {} /\ MarkedIn(Planned(op)) = {}
    BY <2>3 DEF FoundIn, MarkedIn
  <2>. QED BY <2>3, <2>4 DEF NewNeverSilenced
<1>. QED BY <1>1, ShapeInit, ShapeKept, MarksKept, PTL DEF Spec

(***************************************************************************)
(* The baseline made from a run.                                           *)
(***************************************************************************)

\* What a baseline holds of a line from the first number on, it holds.
LEMMA HoldsCount ==
  ASSUME NEW B, IsFiniteSet(B), NEW line, NEW m \in Nat,
         \A i \in 0 .. m - 1 : <<line, i>> \in B
  PROVE  HeldOf(B, line) >= m
<1>. DEFINE T == 0 .. m - 1
            H == {n \in 0 .. Cardinality(B) : \A i \in 0 .. n : <<line, i>> \in B}
            h == [i \in T |-> <<line, i>>]
<1>1. Cardinality(B) \in Nat
  BY FS_CardinalityType
<1>2. Cardinality(T) = m
  BY FS_Interval
<1>3. m <= Cardinality(B)
  <2>1. h \in [T -> B] /\ \A i, j \in T : h[i] = h[j] => i = j
    OBVIOUS
  <2>. HIDE DEF T, h
  <2>2. h \in Injection(T, B)
    BY <2>1 DEF Injection, IsInjective
  <2>. QED BY <1>2, <2>2, FS_Injection
<1>4. T \in SUBSET H
  BY <1>1, <1>3
<1>5. IsFiniteSet(H)
  <2>1. IsFiniteSet(0 .. Cardinality(B)) /\ H \in SUBSET (0 .. Cardinality(B))
    BY <1>1, FS_Interval
  <2>. HIDE DEF H
  <2>. QED BY <2>1, FS_Subset
<1>. HIDE DEF T, H
<1>6. Cardinality(T) <= Cardinality(H)
  BY <1>4, <1>5, FS_Subset
<1>. QED BY <1>2, <1>6 DEF HeldOf, H

\* The image of a finite set.
LEMMA FiniteImage ==
  ASSUME NEW S, IsFiniteSet(S), NEW g, NEW T, T = {g[x] : x \in S}
  PROVE  IsFiniteSet(T)
<1>. DEFINE h == [x \in S |-> g[x]]
<1>1. h \in Surjection(S, T)
  BY DEF Surjection
<1>. HIDE DEF h
<1>. QED BY <1>1, FS_Surjection

LEMMA ReportFinite ==
  ASSUME Shape
  PROVE  /\ \A op \in began : IsFiniteSet(Report(op))
         /\ IsFiniteSet(NewBaseline)
<1>0. TypeOK
  BY DEF Shape
<1>1. ASSUME NEW op \in began PROVE IsFiniteSet(Report(op))
  <2>. DEFINE tasks(tool) == Of(op, tool) \cap arrived
              F == [tool \in Tools |-> Listed(tasks(tool))]
  <2>1. ASSUME NEW tool \in Tools PROVE IsFiniteSet(F[tool])
    <3>1. tasks(tool) \in SUBSET Tasks
      BY <1>0, TypeFacts
    <3>. DEFINE g == [f \in FoundIn(tasks(tool)) |-> <<f, Ordinal(tasks(tool), f)>>]
    <3>2. F[tool] = {g[f] : f \in FoundIn(tasks(tool))}
      BY DEF Listed
    <3>3. IsFiniteSet(FoundIn(tasks(tool)))
      <4>. HIDE DEF tasks
      <4>. QED BY <3>1, FoundFacts
    <3>. HIDE DEF g, tasks, F
    <3>. QED BY <3>2, <3>3, FiniteImage
  <2>2. IsFiniteSet(Tools)
    <3>1. Tools = {ToolOf[t] : t \in Tasks}
      BY DEF Tools
    <3>. QED BY <3>1, RunnerAssumption, FiniteImage
  <2>3. Report(op) = UNION {F[tool] : tool \in Tools}
    BY DEF Report
  <2>. HIDE DEF F
  <2>. QED BY <2>1, <2>2, <2>3, FiniteUnion
<1>2. IsFiniteSet(UNION {Report(op) : op \in began})
  <2>. DEFINE F == [op \in began |-> Report(op)]
  <2>1. IsFiniteSet(began)
    <3>1. began \in SUBSET ToSet(Operations)
      BY <1>0, TypeFacts
    <3>2. IsFiniteSet(ToSet(Operations))
      <4>1. ToSet(Operations) = {Operations[i] : i \in 1 .. Len(Operations)}
            /\ IsFiniteSet(1 .. Len(Operations))
        BY Commands, FS_Interval
      <4>. QED BY <4>1, FiniteImage
    <3>. QED BY <3>1, <3>2, FS_Subset
  <2>2. \A op \in began : F[op] = Report(op) /\ IsFiniteSet(F[op])
    BY <1>1
  <2>3. {F[op] : op \in began} = {Report(op) : op \in began}
    BY <2>2
  <2>. HIDE DEF F
  <2>4. IsFiniteSet(UNION {F[op] : op \in began})
    BY <2>1, <2>2, FiniteUnion
  <2>. QED BY <2>3, <2>4
<1>3. IsFiniteSet(NewBaseline)
  <2>. DEFINE all == UNION {Report(op) : op \in began}
              g == [x \in all |-> <<LineOf(x[1]), x[2]>>]
  <2>1. NewBaseline = {g[x] : x \in all}
    BY DEF NewBaseline
  <2>. HIDE DEF all, g
  <2>2. IsFiniteSet(all)
    BY <1>2 DEF all
  <2>. QED BY <2>1, <2>2, FiniteImage
<1>. QED BY <1>1, <1>3

LEMMA Absorbs == Shape => BaselineAbsorbs
<1>. SUFFICES ASSUME Shape, NEW op \in began, NEW f \in FoundIn(Planned(op) \cap arrived), Numbered(op, f)
              PROVE  HeldOf(NewBaseline, LineOf(f)) >=
                       Cardinality(OnLine(FoundIn(Planned(op) \cap arrived), LineOf(f)))
  BY DEF BaselineAbsorbs
<1>. DEFINE all   == Planned(op) \cap arrived
            tasks == Of(op, f[1]) \cap arrived
            S     == OnLine(FoundIn(tasks), LineOf(f))
            m     == Cardinality(S)
<1>1. op \in ToSet(Operations) /\ all \in SUBSET Tasks /\ tasks \in SUBSET all
  BY TypeFacts, Plans DEF Shape, Of
<1>2. OnLine(FoundIn(all), LineOf(f)) = S
  <2>. HIDE DEF all, tasks
  <2>1. FoundIn(tasks) \subseteq FoundIn(all)
    BY <1>1 DEF FoundIn
  <2>2. ASSUME NEW g \in FoundIn(all), LineOf(g) = LineOf(f) PROVE g \in FoundIn(tasks)
    <3>1. PICK t \in all : g[1] = ToolOf[t] /\ g \in FoundIn({t})
      BY <1>1, FoundFacts
    <3>2. g[1] = f[1]
      BY <2>2 DEF LineOf
    <3>3. t \in tasks
      BY <3>1, <3>2 DEF all, tasks, Of
    <3>. QED BY <3>1, <3>3 DEF FoundIn
  <2>. QED BY <2>1, <2>2 DEF OnLine
<1>3. Ranked(S) /\ IsFiniteSet(S)
  <2>. HIDE DEF tasks
  <2>1. IsFiniteSet(FoundIn(tasks)) /\ \A g \in FoundIn(tasks) : g = <<g[1], g[2], g[3]>> /\ g[3] \in Nat
    BY <1>1, FoundFacts
  <2>2. Ranked(S)
    BY <2>1, LineRanked
  <2>. QED BY <2>2 DEF Ranked
<1>4. f \in S
  BY <1>2 DEF OnLine
<1>5. ASSUME NEW g \in S PROVE Ordinal(tasks, g) = Rank(S, g)
  <2>1. g \in FoundIn(tasks) /\ LineOf(g) = LineOf(f)
    BY DEF OnLine
  <2>2. g[1] = f[1] /\ g[2] = f[2]
    BY <2>1 DEF LineOf
  <2>3. Rank(S, g) \in Nat
    <3>1. {x \in S : x[3] < g[3]} \in SUBSET S
      OBVIOUS
    <3>. HIDE DEF S
    <3>2. IsFiniteSet({x \in S : x[3] < g[3]})
      BY <1>3, <3>1, FS_Subset
    <3>. QED BY <3>2, FS_CardinalityType DEF Rank
  <2>4. CASE f[2] # Nowhere
    BY <2>1, <2>2, <2>3, <2>4 DEF Ordinal, Rank
  <2>5. CASE f[2] = Nowhere
    <3>1. {x \in tasks \X UNION {Units(t) : t \in tasks} : x[2] \in Units(x[1]) /\ Failing(x[1], x[2])} = {}
      BY <2>5 DEF Numbered
    <3>2. Cardinality({x \in tasks \X UNION {Units(t) : t \in tasks} :
                         x[2] \in Units(x[1]) /\ Failing(x[1], x[2])}) = 0
      BY <3>1, FS_EmptySet
    <3>. QED BY <2>1, <2>2, <2>3, <2>5, <3>2 DEF Ordinal, Rank
  <2>. QED BY <2>4, <2>5
<1>6. f[1] \in Tools
  <2>1. PICK t \in all : f[1] = ToolOf[t]
    BY <1>1, FoundFacts
  <2>. QED BY <1>1, <2>1 DEF Tools
<1>7. ASSUME NEW g \in S PROVE <<LineOf(f), Rank(S, g)>> \in NewBaseline
  <2>1. g \in FoundIn(tasks) /\ LineOf(g) = LineOf(f)
    BY DEF OnLine
  <2>2. <<g, Rank(S, g)>> \in Listed(tasks)
    BY <1>5, <2>1 DEF Listed
  <2>3. <<g, Rank(S, g)>> \in Report(op)
    BY <1>6, <2>2 DEF Report
  <2>. HIDE DEF S
  <2>. QED BY <2>1, <2>3 DEF NewBaseline
<1>. HIDE DEF S
<1>8. \A i \in 0 .. m - 1 : \E g \in S : Rank(S, g) = i
  BY <1>3, RanksCount DEF Bijection, Surjection
<1>9. \A i \in 0 .. m - 1 : <<LineOf(f), i>> \in NewBaseline
  BY <1>7, <1>8
<1>10. m \in Nat
  BY <1>3, FS_CardinalityType
<1>. QED BY <1>2, <1>9, <1>10, HoldsCount, ReportFinite DEF S

(***************************************************************************)
(* A baseline made from a run absorbs the run: of every line it holds as   *)
(* many findings as each operation reported, whichever processes reported  *)
(* them.  Excepted are the findings that stand nowhere, of a tool of which *)
(* a process failed without one.                                           *)
(***************************************************************************)
THEOREM BaselineAbsorbsHolds == Spec => []BaselineAbsorbs
BY Absorbs, ShapeInvariant, PTL
=============================================================================
