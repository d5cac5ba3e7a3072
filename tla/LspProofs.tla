------------------------------ MODULE LspProofs ------------------------------
(***************************************************************************)
(* Theorems about LspTransport, for every number of requests, changes,     *)
(* cancels and groups: a stop finds its request and is heard, nothing      *)
(* decided is taken back, and the transport implements RequestLine.        *)
(***************************************************************************)
EXTENDS LspTransport, SequenceTheorems, TLAPS

(***************************************************************************)
(* The inductive invariant.                                                *)
(***************************************************************************)

\* The worker has taken up a request and owes it an answer.
Owing == worker.phase \in {"dispatch", "check", "do", "settle", "reply"}

\* The request that is registered and not yet queued.
Between(n) == reader = "push" /\ n = Len(reqs)

InQueue(n) == \E i \in DOMAIN queue : queue[i] = n

\* Whoever waits for an answer stands in one place: with the worker, in the
\* queue, or about to be queued; and in the order in which the requests came.
Line ==
  /\ \A i, j \in DOMAIN queue : i < j => queue[i] # 0 /\ (queue[j] # 0 => queue[i] < queue[j])
  /\ InQueue(0) => closed
  /\ \A n \in DOMAIN reqs : InQueue(n) => n \in Awaited /\ ~Between(n) /\ (Owing => worker.req < n)
  /\ Owing => worker.req \in Awaited /\ ~Between(worker.req)
  /\ At("finish") => worker.req \in DOMAIN reqs \ Awaited
  /\ \A n \in Awaited : InQueue(n) \/ (Owing /\ worker.req = n) \/ Between(n)
  /\ reader = "push" => Len(reqs) \in Awaited

\* What a stop does to a request, what it may still come to, and how far it is.
Stops ==
  /\ \A n \in DOMAIN reqs :
       /\ reqs[n].late <= 1
       /\ reqs[n].late > 0 => reqs[n].state = "stopped"
       /\ reqs[n].state = "settled" => reqs[n].answer # "cancelled"
  /\ At("do") => Running.late = 0
  /\ At("reply") => worker.outcome # "none"
  /\ At("reply") /\ worker.outcome = "cancelled" => Running.state = "stopped"
  /\ worker.phase \in {"dispatch", "check", "do"} => worker.ran < Groups
  /\ leaving <= Len(reqs)

\* Texts only grow: of the document, from request to request, and on the disk.
Texts ==
  /\ docs \in {0, sent["changes"]} /\ disk <= sent["changes"]
  /\ \A n \in DOMAIN reqs : reqs[n].snap <= sent["changes"]
  /\ \A m, n \in DOMAIN reqs : m < n /\ reqs[n].snap # 0 => reqs[m].snap <= reqs[n].snap
  /\ \A n \in Awaited : reqs[n].snap = 0 \/ disk <= reqs[n].snap
  /\ worker.phase \in {"check", "do"} => disk <= worker.text /\ worker.text \in {disk, Running.snap}

IInv == TypeOK /\ Line /\ Cancellable /\ LeavingStops /\ Stops /\ Texts

(***************************************************************************)
(* How a step changes the requests.                                        *)
(***************************************************************************)

\* What never changes of a request.
Same(r, q) == q.id = r.id /\ q.kind = r.kind /\ q.snap = r.snap

LEMMA Sequences ==
  ASSUME TypeOK
  PROVE  /\ Len(reqs) \in Nat /\ DOMAIN reqs = 1 .. Len(reqs) /\ \A n \in DOMAIN reqs : reqs[n] \in RequestType
         /\ Len(queue) \in Nat /\ DOMAIN queue = 1 .. Len(queue)
         /\ \A i \in DOMAIN queue : queue[i] \in 0 .. Len(reqs)
         /\ \A id \in Ids : registry[id] \in 0 .. Len(reqs)
<1>. QED BY DEF TypeOK

\* Requests are marked stopped (stopAll, cancel).
LEMMA StopAllStops ==
  ASSUME TypeOK, NEW who
  PROVE  /\ StopAll(who) \in Seq(RequestType) /\ Len(StopAll(who)) = Len(reqs)
         /\ DOMAIN StopAll(who) = DOMAIN reqs
         /\ \A n \in DOMAIN reqs :
              LET q == StopAll(who)[n]
              IN  /\ Same(reqs[n], q) /\ q.answer = reqs[n].answer /\ q.late = reqs[n].late
                  /\ q.state = IF n \in who /\ reqs[n].state = "live" THEN "stopped" ELSE reqs[n].state
<1>. DEFINE q(n) == IF n \in who THEN Stopped(reqs[n]) ELSE reqs[n]
<1>1. \A n \in DOMAIN reqs :
        /\ q(n) \in RequestType
        /\ Same(reqs[n], q(n)) /\ q(n).answer = reqs[n].answer /\ q(n).late = reqs[n].late
        /\ q(n).state = IF n \in who /\ reqs[n].state = "live" THEN "stopped" ELSE reqs[n].state
  BY Sequences DEF Stopped, Same, RequestType
<1>2. StopAll(who) = [n \in 1 .. Len(reqs) |-> q(n)]
  BY Sequences DEF StopAll
<1>. HIDE DEF q
<1>3. StopAll(who) \in Seq(RequestType) /\ Len(StopAll(who)) = Len(reqs)
  BY <1>1, <1>2, Sequences
<1>. QED BY <1>1, <1>2, <1>3, Sequences

\* One request is replaced.
LEMMA OneReplaced ==
  ASSUME TypeOK, NEW m \in DOMAIN reqs, NEW r \in RequestType, Same(reqs[m], r)
  PROVE  LET new == [reqs EXCEPT ![m] = r]
         IN  /\ new \in Seq(RequestType) /\ Len(new) = Len(reqs) /\ DOMAIN new = DOMAIN reqs
             /\ new[m] = r
             /\ \A n \in DOMAIN reqs : n # m => new[n] = reqs[n]
<1>. QED BY Sequences, ExceptSeq DEF TypeOK

LEMMA OneAnswered ==
  ASSUME TypeOK, NEW m \in DOMAIN reqs, NEW answer \in Answers
  PROVE  LET new == [reqs EXCEPT ![m].answer = answer]
         IN  /\ new \in Seq(RequestType) /\ Len(new) = Len(reqs) /\ DOMAIN new = DOMAIN reqs
             /\ \A n \in DOMAIN reqs :
                  /\ Same(reqs[n], new[n]) /\ new[n].late = reqs[n].late /\ new[n].state = reqs[n].state
                  /\ new[n].answer = IF n = m THEN answer ELSE reqs[n].answer
<1>. DEFINE r == [reqs[m] EXCEPT !.answer = answer]
<1>1. /\ r \in RequestType /\ Same(reqs[m], r) /\ r.answer = answer
      /\ r.late = reqs[m].late /\ r.state = reqs[m].state
  BY Sequences DEF RequestType, Same
<1>2. \A n \in DOMAIN reqs : Same(reqs[n], reqs[n])
  BY DEF Same
<1>. HIDE DEF r
<1>3. [reqs EXCEPT ![m].answer = answer] = [reqs EXCEPT ![m] = r]
  BY DEF r
<1>. QED BY <1>1, <1>2, <1>3, OneReplaced

\* Counting what is sent.
LEMMA Sent ==
  ASSUME TypeOK, NEW c \in Counters, Sends(c)
  PROVE  /\ sent' \in [Counters -> Nat]
         /\ sent'[c] = sent[c] + 1 /\ \A x \in Counters : x # c => sent'[x] = sent[x]
         /\ Total(sent)' = IF c \in Kinds THEN Total(sent) + 1 ELSE Total(sent)
<1>1. /\ sent' \in [Counters -> Nat]
      /\ sent'[c] = sent[c] + 1 /\ \A x \in Counters : x # c => sent'[x] = sent[x]
  BY DEF Sends, TypeOK
<1>2. \A k \in Kinds : k \in Counters /\ sent[k] \in Nat
  BY DEF TypeOK, Counters
<1>. QED BY <1>1, <1>2 DEF Total, Kinds, Counters


\* A format's step is done.
LEMMA DoneByDone ==
  ASSUME TypeOK, worker.req \in DOMAIN reqs, NEW effect \in RequestType,
         effect = Running \/ effect = [Running EXCEPT !.wrote = TRUE]
  PROVE  /\ DoneBy(effect) \in Seq(RequestType) /\ Len(DoneBy(effect)) = Len(reqs)
         /\ DOMAIN DoneBy(effect) = DOMAIN reqs
         /\ \A n \in DOMAIN reqs :
              LET q == DoneBy(effect)[n]
              IN  /\ Same(reqs[n], q) /\ q.answer = reqs[n].answer /\ q.state = reqs[n].state
                  /\ q.late = IF n = worker.req /\ Running.state = "stopped" THEN reqs[n].late + 1
                                                                            ELSE reqs[n].late
<1>. DEFINE r == Late(effect)
<1>1. /\ r \in RequestType /\ Same(Running, r) /\ r.answer = Running.answer /\ r.state = Running.state
      /\ r.late = IF Running.state = "stopped" THEN Running.late + 1 ELSE Running.late
  BY Sequences DEF Late, RequestType, Same, Running
<1>2. \A n \in DOMAIN reqs : Same(reqs[n], reqs[n])
  BY DEF Same
<1>3. DoneBy(effect) = [reqs EXCEPT ![worker.req] = r]
  BY DEF DoneBy
<1>. HIDE DEF r
<1>. QED BY <1>1, <1>2, <1>3, OneReplaced DEF Running

LEMMA EffectTyped ==
  ASSUME TypeOK, worker.req \in DOMAIN reqs
  PROVE  Running \in RequestType /\ [Running EXCEPT !.wrote = TRUE] \in RequestType
<1>. QED BY Sequences DEF Running, RequestType

LEMMA Settled ==
  ASSUME TypeOK, NEW m \in DOMAIN reqs
  PROVE  LET new == [reqs EXCEPT ![m].state = "settled"]
         IN  /\ new \in Seq(RequestType) /\ Len(new) = Len(reqs) /\ DOMAIN new = DOMAIN reqs
             /\ \A n \in DOMAIN reqs :
                  /\ Same(reqs[n], new[n]) /\ new[n].late = reqs[n].late /\ new[n].answer = reqs[n].answer
                  /\ new[n].state = IF n = m THEN "settled" ELSE reqs[n].state
<1>. DEFINE r == [reqs[m] EXCEPT !.state = "settled"]
<1>1. /\ r \in RequestType /\ Same(reqs[m], r) /\ r.answer = reqs[m].answer
      /\ r.late = reqs[m].late /\ r.state = "settled"
  BY Sequences DEF RequestType, Same
<1>2. \A n \in DOMAIN reqs : Same(reqs[n], reqs[n])
  BY DEF Same
<1>. HIDE DEF r
<1>3. [reqs EXCEPT ![m].state = "settled"] = [reqs EXCEPT ![m] = r]
  BY DEF r
<1>. QED BY <1>1, <1>2, <1>3, OneReplaced

LEMMA Dropped ==
  ASSUME TypeOK, NEW dropped
  PROVE  LET new == [n \in DOMAIN reqs |-> IF n \in dropped THEN [reqs[n] EXCEPT !.answer = "dropped"] ELSE reqs[n]]
         IN  /\ new \in Seq(RequestType) /\ Len(new) = Len(reqs) /\ DOMAIN new = DOMAIN reqs
             /\ \A n \in DOMAIN reqs :
                  /\ Same(reqs[n], new[n]) /\ new[n].late = reqs[n].late /\ new[n].state = reqs[n].state
                  /\ new[n].answer = IF n \in dropped THEN "dropped" ELSE reqs[n].answer
<1>. DEFINE q(n) == IF n \in dropped THEN [reqs[n] EXCEPT !.answer = "dropped"] ELSE reqs[n]
<1>1. \A n \in DOMAIN reqs :
        /\ q(n) \in RequestType
        /\ Same(reqs[n], q(n)) /\ q(n).late = reqs[n].late /\ q(n).state = reqs[n].state
        /\ q(n).answer = IF n \in dropped THEN "dropped" ELSE reqs[n].answer
  BY Sequences DEF Same, RequestType, Answers
<1>2. [n \in DOMAIN reqs |-> IF n \in dropped THEN [reqs[n] EXCEPT !.answer = "dropped"] ELSE reqs[n]]
        = [n \in 1 .. Len(reqs) |-> q(n)]
  BY Sequences
<1>. HIDE DEF q
<1>3. LET new == [n \in 1 .. Len(reqs) |-> q(n)] IN new \in Seq(RequestType) /\ Len(new) = Len(reqs)
  BY <1>1, Sequences
<1>. QED BY <1>1, <1>2, <1>3, Sequences

(***************************************************************************)
(* What is shown of every step.                                            *)
(***************************************************************************)

Standing == {n \in DOMAIN reqs : Queued(n)}
Served   == {n \in DOMAIN reqs : reqs[n].answer \notin {"none", "dropped"}}

Decided == /\ \A n \in DOMAIN reqs : Sticks(n) /\ Final(n)
           /\ disk' >= disk

Proper == IInv' /\ Decided /\ [Client!Next]_<<Standing, Served>>

LEMMA WorkerReq == Line /\ Owing => worker.req \in DOMAIN reqs
<1>. QED BY DEF Line, Awaited

\* Steps that touch neither requests nor whoever holds them.
LEMMA Aside ==
  ASSUME IInv, UNCHANGED <<reqs, queue, worker, registry, closed, disk, leaving>>,
         reader # "push", reader' # "push", TypeOK',
         \/ docs' = docs /\ sent'["changes"] = sent["changes"]
         \/ docs' \in {0, sent'["changes"]} /\ sent'["changes"] >= sent["changes"]
  PROVE  Proper
<1>. USE DEF IInv
<1>1. Line'
  BY DEF Line, InQueue, Awaited, Between, Owing, At
<1>2. Cancellable' /\ LeavingStops' /\ Stops'
  BY DEF Cancellable, LeavingStops, Stops, Awaited, At, Running
<1>3. Texts'
  <2>1. /\ sent["changes"] \in Nat /\ sent'["changes"] \in Nat /\ disk \in Nat
        /\ \A n \in DOMAIN reqs : reqs[n].snap \in Nat
    BY Sequences DEF TypeOK, Counters, RequestType
  <2>. QED BY <2>1 DEF Texts, Awaited, At, Running
<1>4. Decided
  <2>1. disk \in Nat
    BY DEF TypeOK
  <2>. QED BY <2>1 DEF Decided, Sticks, Final, Stops
<1>5. UNCHANGED <<Standing, Served>>
  BY DEF Standing, Served, Queued
<1>. QED BY <1>1, <1>2, <1>3, <1>4, <1>5 DEF Proper

\* Requests are stopped.
LEMMA Marked ==
  ASSUME IInv, NEW who, reqs' = StopAll(who), TypeOK',
         UNCHANGED <<queue, worker, registry, closed, disk, docs>>,
         sent'["changes"] = sent["changes"], reader' = "push" <=> reader = "push",
         \/ leaving' = leaving
         \/ leaving' = Len(reqs) /\ \A n \in Registered : reqs[n].kind = "formatting" => n \in who
  PROVE  Proper
<1>. USE DEF IInv
<1>1. /\ Len(reqs') = Len(reqs) /\ DOMAIN reqs' = DOMAIN reqs
      /\ \A n \in DOMAIN reqs :
           /\ Same(reqs[n], reqs'[n]) /\ reqs'[n].answer = reqs[n].answer /\ reqs'[n].late = reqs[n].late
           /\ reqs'[n].state = IF n \in who /\ reqs[n].state = "live" THEN "stopped" ELSE reqs[n].state
  BY StopAllStops
<1>2. Awaited' = Awaited
  BY <1>1 DEF Awaited
<1>3. Line'
  BY <1>1, <1>2 DEF Line, InQueue, Between, Owing, At
<1>4. Cancellable'
  BY <1>1, <1>2 DEF Cancellable, Same, Awaited
<1>5. LeavingStops'
  <2>1. SUFFICES ASSUME NEW n \in Awaited, n <= leaving', reqs[n].kind = "formatting"
                 PROVE  reqs'[n].state # "live"
    BY <1>1, <1>2 DEF LeavingStops, Same, Awaited
  <2>2. n \in DOMAIN reqs
    BY DEF Awaited
  <2>3. CASE leaving' = leaving
    BY <1>1, <2>1, <2>2, <2>3 DEF LeavingStops
  <2>4. CASE \A m \in Registered : reqs[m].kind = "formatting" => m \in who
    <3>1. reqs[n].id \in Ids /\ n # 0
      BY <2>2, Sequences DEF RequestType
    <3>2. n \in Registered
      BY <3>1 DEF Registered, Cancellable
    <3>. QED BY <1>1, <2>1, <2>2, <2>4, <3>2
  <2>. QED BY <2>3, <2>4
<1>6. Stops'
  BY <1>1, Sequences, WorkerReq DEF Stops, At, Running, Owing
<1>7. Texts'
  BY <1>1, <1>2, WorkerReq DEF Texts, Awaited, Same, At, Running, Owing
<1>8. Decided
  <2>1. disk \in Nat
    BY DEF TypeOK
  <2>. QED BY <1>1, <2>1 DEF Decided, Sticks, Final, Stops
<1>9. UNCHANGED <<Standing, Served>>
  BY <1>1 DEF Standing, Served, Queued
<1>. QED BY <1>3, <1>4, <1>5, <1>6, <1>7, <1>8, <1>9 DEF Proper

\* A request joins the others, live and not yet queued.
LEMMA ReadRequestProper ==
  ASSUME IInv, NEW id \in Ids, NEW kind \in Kinds, ReadRequest(id, kind)
  PROVE  Proper
<1>. USE DEF IInv
<1>. DEFINE held == IF kind = "shutdown" THEN StopFormatting ELSE reqs
            n    == Len(reqs) + 1
            r    == Request(id, kind)
<1>1. PICK who : held = StopAll(who) /\ (kind = "shutdown" => who = {m \in Registered : reqs[m].kind = "formatting"})
  <2>1. reqs = StopAll({})
    <3>1. reqs = [m \in 1 .. Len(reqs) |-> reqs[m]]
      BY DEF TypeOK
    <3>. QED BY <3>1, Sequences DEF StopAll
  <2>. QED BY <2>1 DEF StopFormatting
<1>2. /\ held \in Seq(RequestType) /\ Len(held) = Len(reqs) /\ DOMAIN held = DOMAIN reqs
      /\ \A m \in DOMAIN reqs :
           /\ Same(reqs[m], held[m]) /\ held[m].answer = reqs[m].answer /\ held[m].late = reqs[m].late
           /\ held[m].state = IF m \in who /\ reqs[m].state = "live" THEN "stopped" ELSE reqs[m].state
  BY <1>1, StopAllStops
<1>3. /\ reader = "read" /\ reader' = "push" /\ Sends(kind)
      /\ \A m \in Awaited : reqs[m].id # id
      /\ reqs' = Append(held, r) /\ registry' = [registry EXCEPT ![id] = n]
      /\ leaving' = IF kind = "shutdown" THEN Len(reqs) ELSE leaving
      /\ shutdownRead' = (shutdownRead \/ kind = "shutdown")
      /\ UNCHANGED <<stopper, queue, closed, worker, session, docs, disk>>
  BY DEF ReadRequest, Reading
<1>4. /\ r \in RequestType /\ r.id = id /\ r.kind = kind /\ r.state = "live" /\ r.snap = docs
      /\ r.late = 0 /\ r.answer = "none"
  BY DEF Request, RequestType, TypeOK, Answers
<1>. HIDE DEF held, r
<1>5. /\ reqs' \in Seq(RequestType) /\ Len(reqs') = n /\ DOMAIN reqs' = 1 .. n /\ DOMAIN reqs = 1 .. Len(reqs)
      /\ Len(reqs) \in Nat /\ reqs'[n] = r /\ \A m \in DOMAIN reqs : reqs'[m] = held[m]
  BY <1>2, <1>3, <1>4, Sequences, AppendProperties
<1>6. /\ sent' \in [Counters -> Nat] /\ sent'["changes"] = sent["changes"]
      /\ Total(sent') = Total(sent) + 1
  BY <1>3, Sent DEF Counters, Kinds, Total
<1>7. TypeOK'
  <2>1. registry' \in [Ids -> 0 .. n] /\ queue \in Seq(0 .. n)
    <3>1. 0 .. Len(reqs) \subseteq 0 .. n /\ n \in 0 .. n
      BY <1>5
    <3>. QED BY <1>3, <3>1, SeqMonotonic DEF TypeOK
  <2>2. worker.req \in 0 .. n
    BY <1>5 DEF TypeOK, WorkerType
  <2>3. worker \in [phase : Phases, req : 0 .. n, step : DOMAIN NextStep, ran : 0 .. Groups,
                    text : Nat, outcome : {"none", "cancelled", "edits", "failed"}]
    BY <2>2 DEF TypeOK, WorkerType
  <2>4. leaving' \in Nat /\ shutdownRead' \in BOOLEAN
    BY <1>3, <1>5 DEF TypeOK
  <2>. QED BY <1>3, <1>5, <1>6, <2>1, <2>3, <2>4 DEF TypeOK, WorkerType, session
<1>8. Awaited' = Awaited \cup {n}
  BY <1>2, <1>4, <1>5 DEF Awaited
<1>9. \A m \in DOMAIN reqs : ~Between(m)
  BY <1>3 DEF Between
<1>10. Line'
  <2>1. \A i \in DOMAIN queue : queue[i] # n
    BY <1>5, Sequences
  <2>. QED BY <1>3, <1>5, <1>8, <1>9, <2>1 DEF Line, InQueue, Between, Owing, At, Awaited
<1>11. Cancellable'
  <2>1. registry'[id] = n /\ \A other \in Ids : other # id => registry'[other] = registry[other]
    BY <1>3 DEF TypeOK
  <2>2. ASSUME NEW m \in Awaited
        PROVE  registry'[reqs'[m].id] = m
    <3>1. m \in DOMAIN reqs /\ reqs[m].id \in Ids /\ reqs[m].id # id
      BY <1>3, Sequences DEF Awaited, RequestType
    <3>. QED BY <1>2, <1>5, <2>1, <3>1 DEF Cancellable, Same
  <2>. QED BY <1>4, <1>5, <1>8, <2>1, <2>2 DEF Cancellable
<1>12. LeavingStops'
  <2>1. SUFFICES ASSUME NEW m \in Awaited, m <= leaving', reqs[m].kind = "formatting"
                 PROVE  held[m].state # "live"
    <3>1. leaving' < n
      BY <1>3, <1>5 DEF Stops, TypeOK
    <3>2. \A m \in Awaited' : m <= leaving' => m \in Awaited
      <4>1. leaving' \in Nat /\ n \in Nat
        BY <1>3, <1>5 DEF TypeOK
      <4>. QED BY <1>8, <3>1, <4>1
    <3>. QED BY <1>2, <1>5, <1>8, <3>2 DEF LeavingStops, Same, Awaited
  <2>2. m \in DOMAIN reqs
    BY DEF Awaited
  <2>3. CASE kind # "shutdown"
    BY <1>2, <1>3, <2>1, <2>2, <2>3 DEF LeavingStops
  <2>4. CASE kind = "shutdown"
    <3>1. reqs[m].id \in Ids /\ m # 0
      BY <2>2, Sequences DEF RequestType
    <3>2. m \in Registered
      BY <3>1 DEF Registered, Cancellable
    <3>. QED BY <1>1, <1>2, <2>1, <2>2, <2>4, <3>2
  <2>. QED BY <2>3, <2>4
<1>13. Stops'
  <2>1. \A m \in DOMAIN reqs' :
          /\ reqs'[m].late <= 1
          /\ reqs'[m].late > 0 => reqs'[m].state = "stopped"
          /\ reqs'[m].state = "settled" => reqs'[m].answer # "cancelled"
    <3>1. \A m \in DOMAIN reqs' : m = n \/ (m \in DOMAIN reqs /\ reqs'[m] = held[m])
      BY <1>5
    <3>2. \A m \in DOMAIN reqs :
            /\ held[m].late <= 1
            /\ held[m].late > 0 => held[m].state = "stopped"
            /\ held[m].state = "settled" => held[m].answer # "cancelled"
      BY <1>2 DEF Stops
    <3>3. r.late <= 1 /\ ~(r.late > 0) /\ r.answer # "cancelled"
      BY <1>4
    <3>. QED BY <1>5, <3>1, <3>2, <3>3
  <2>2. leaving' <= Len(reqs')
    BY <1>3, <1>5 DEF Stops, TypeOK
  <2>3. Owing => worker.req \in DOMAIN reqs /\ reqs'[worker.req] = held[worker.req]
    BY <1>5, WorkerReq
  <2>4. /\ At("do") => held[worker.req].late = 0
        /\ At("reply") /\ worker.outcome = "cancelled" => held[worker.req].state = "stopped"
    BY <1>2, <2>3 DEF Stops, At, Running, Owing
  <2>. QED BY <1>3, <2>1, <2>2, <2>3, <2>4 DEF Stops, At, Running, Owing
<1>14. Texts'
  <2>1. docs = 0 \/ \A m \in DOMAIN reqs : reqs[m].snap <= docs
    BY DEF Texts
  <2>2. docs = 0 \/ disk <= docs
    BY DEF Texts
  <2>3. \A k, m \in DOMAIN reqs' : k < m /\ reqs'[m].snap # 0 => reqs'[k].snap <= reqs'[m].snap
    BY <1>2, <1>4, <1>5, <2>1 DEF Texts, Same
  <2>4. \A m \in Awaited' : reqs'[m].snap = 0 \/ disk <= reqs'[m].snap
    BY <1>2, <1>4, <1>5, <1>8, <2>2 DEF Texts, Same, Awaited
  <2>5. \A m \in DOMAIN reqs' : reqs'[m].snap <= sent["changes"]
    <3>1. docs <= sent["changes"] /\ sent["changes"] \in Nat
      BY DEF Texts, TypeOK, Counters
    <3>. QED BY <1>2, <1>4, <1>5, <3>1 DEF Texts, Same
  <2>. QED BY <1>2, <1>3, <1>5, <1>6, <2>3, <2>4, <2>5, WorkerReq DEF Texts, Running, Owing, Same
<1>15. Decided
  <2>1. disk \in Nat
    BY DEF TypeOK
  <2>. QED BY <1>2, <1>3, <1>5, <2>1 DEF Decided, Sticks, Final, Stops
<1>16. UNCHANGED <<Standing, Served>>
  BY <1>2, <1>3, <1>4, <1>5 DEF Standing, Served, Queued
<1>. QED BY <1>7, <1>10, <1>11, <1>12, <1>13, <1>14, <1>15, <1>16 DEF Proper

(***************************************************************************)
(* The queue.                                                              *)
(***************************************************************************)

\* The first in the queue is taken.
LEMMA Popped ==
  ASSUME TypeOK, Line, queue # <<>>, queue' = Tail(queue)
  PROVE  /\ queue' \in Seq(0 .. Len(reqs))
         /\ \A i, j \in DOMAIN queue' : i < j => queue'[i] # 0 /\ (queue'[j] # 0 => queue'[i] < queue'[j])
         /\ \A n : InQueue(n) <=> n = Head(queue) \/ InQueue(n)'
         /\ \A n : InQueue(n)' => Head(queue) # 0 /\ (n # 0 => Head(queue) < n)
<1>1. /\ queue' \in Seq(0 .. Len(reqs)) /\ Len(queue') = Len(queue) - 1 /\ DOMAIN queue' = 1 .. Len(queue')
      /\ Len(queue) \in Nat /\ Len(queue) > 0 /\ DOMAIN queue = 1 .. Len(queue)
      /\ Head(queue) = queue[1] /\ \A i \in DOMAIN queue' : queue'[i] = queue[i + 1]
  BY DEF TypeOK
<1>2. \A i \in DOMAIN queue' : i \in Nat /\ i + 1 \in DOMAIN queue /\ 1 < i + 1
  BY <1>1
<1>3. \A i \in DOMAIN queue : i = 1 \/ (i - 1 \in DOMAIN queue' /\ i = (i - 1) + 1)
  BY <1>1
<1>4. \A i, j \in DOMAIN queue' : i < j => queue'[i] # 0 /\ (queue'[j] # 0 => queue'[i] < queue'[j])
  BY <1>1, <1>2 DEF Line
<1>5. 1 \in DOMAIN queue
  BY <1>1
<1>6. \A n : InQueue(n) <=> n = Head(queue) \/ InQueue(n)'
  BY <1>1, <1>2, <1>3, <1>5 DEF InQueue
<1>7. \A n : InQueue(n)' => Head(queue) # 0 /\ (n # 0 => Head(queue) < n)
  BY <1>1, <1>2, <1>5 DEF InQueue, Line
<1>. QED BY <1>1, <1>4, <1>6, <1>7

\* One more joins its end.
LEMMA Joined ==
  ASSUME TypeOK, Line, ~closed, NEW n \in 0 .. Len(reqs), queue' = Append(queue, n),
         n # 0 => \A m : InQueue(m) => m < n
  PROVE  /\ queue' \in Seq(0 .. Len(reqs))
         /\ \A i, j \in DOMAIN queue' : i < j => queue'[i] # 0 /\ (queue'[j] # 0 => queue'[i] < queue'[j])
         /\ \A m : InQueue(m)' <=> m = n \/ InQueue(m)
<1>1. /\ queue' \in Seq(0 .. Len(reqs)) /\ Len(queue') = Len(queue) + 1 /\ DOMAIN queue' = 1 .. Len(queue')
      /\ Len(queue) \in Nat /\ DOMAIN queue = 1 .. Len(queue)
      /\ queue'[Len(queue')] = n /\ \A i \in DOMAIN queue : queue'[i] = queue[i]
  BY DEF TypeOK
<1>2. \A i \in DOMAIN queue' : i = Len(queue') \/ i \in DOMAIN queue
  BY <1>1
<1>3. \A i \in DOMAIN queue : i \in DOMAIN queue' /\ i # Len(queue')
  BY <1>1
<1>4. \A i \in DOMAIN queue : queue[i] # 0 /\ (n # 0 => queue[i] < n)
  BY DEF Line, InQueue
<1>5. ASSUME NEW i \in DOMAIN queue', NEW j \in DOMAIN queue', i < j
      PROVE  queue'[i] # 0 /\ (queue'[j] # 0 => queue'[i] < queue'[j])
  <2>1. i \in DOMAIN queue
    BY <1>1, <1>5
  <2>. QED BY <1>1, <1>2, <1>4, <1>5, <2>1 DEF Line
<1>6. Len(queue') \in DOMAIN queue'
  BY <1>1
<1>7. \A m : InQueue(m)' <=> m = n \/ InQueue(m)
  BY <1>1, <1>2, <1>3, <1>6 DEF InQueue
<1>. QED BY <1>1, <1>5, <1>7

\* The first in the queue came before all the others who wait.
LEMMA FirstInLine ==
  ASSUME TypeOK, Line, At("pop"), queue # <<>>, Head(queue) # 0
  PROVE  /\ Head(queue) \in Awaited /\ Head(queue) \in 1 .. Len(reqs) /\ ~Between(Head(queue))
         /\ \A n \in Awaited : Head(queue) <= n
<1>1. Len(queue) > 0 /\ 1 \in DOMAIN queue /\ Head(queue) = queue[1] /\ ~Owing
  BY Sequences DEF TypeOK, At, Owing
<1>2. InQueue(Head(queue))
  BY <1>1 DEF InQueue
<1>3. Head(queue) \in 1 .. Len(reqs)
  BY <1>1, Sequences
<1>4. Head(queue) \in Awaited /\ ~Between(Head(queue))
  BY <1>2, <1>3, Sequences DEF Line
<1>5. \A i \in DOMAIN queue : queue[i] # 0 => queue[1] <= queue[i]
  BY <1>1, Sequences DEF Line
<1>6. ASSUME NEW n \in Awaited
      PROVE  Head(queue) <= n
  <2>1. n \in 1 .. Len(reqs) /\ (InQueue(n) \/ n = Len(reqs))
    BY <1>1, Sequences DEF Awaited, Line, Between
  <2>2. InQueue(n) => Head(queue) <= n
    BY <1>1, <1>5, <2>1 DEF InQueue
  <2>. QED BY <1>3, <2>1, <2>2
<1>. QED BY <1>3, <1>4, <1>6

(***************************************************************************)
(* The reader queues what it registered.                                   *)
(***************************************************************************)

\* The request joins the line.
LEMMA PushQueues ==
  ASSUME IInv, Push, ~closed
  PROVE  Proper
<1>. USE DEF IInv
<1>. DEFINE n == Len(reqs)
<1>1. /\ reader = "push" /\ reader' = "read" /\ queue' = Append(queue, n)
      /\ UNCHANGED <<reqs, stopper, registry, closed, shutdownRead, worker, session, client>>
  BY DEF Push, Enqueued
<1>2. n \in Awaited /\ Between(n) /\ n \in Nat \ {0} /\ DOMAIN reqs = 1 .. n
  BY <1>1, Sequences DEF Line, Between, Awaited
<1>. HIDE DEF n
<1>3. \A m \in DOMAIN reqs : ~Between(m) => m < n
  BY <1>1, <1>2 DEF Between, n
<1>4. \A m : InQueue(m) => m \in DOMAIN reqs /\ m < n
  <2>1. \A m : InQueue(m) => m \in DOMAIN reqs
    BY <1>2, Sequences DEF Line, InQueue, n
  <2>. QED BY <1>3, <2>1 DEF Line
<1>5. /\ queue' \in Seq(0 .. Len(reqs))
      /\ \A i, j \in DOMAIN queue' : i < j => queue'[i] # 0 /\ (queue'[j] # 0 => queue'[i] < queue'[j])
      /\ \A m : InQueue(m)' <=> m = n \/ InQueue(m)
  <2>1. n \in 0 .. Len(reqs)
    BY <1>2 DEF n
  <2>. QED BY <1>1, <1>4, <2>1, Joined
<1>6. TypeOK'
  BY <1>1, <1>5 DEF TypeOK, WorkerType, session, client
<1>7. Line'
  <2>1. \A m \in DOMAIN reqs : ~Between(m)'
    BY <1>1 DEF Between
  <2>2. Owing => worker.req < n
    BY <1>3, WorkerReq DEF Line
  <2>3. \A m \in Awaited : InQueue(m)' \/ (Owing /\ worker.req = m)
    BY <1>1, <1>5 DEF Line, Between, n
  <2>. QED BY <1>1, <1>2, <1>5, <2>1, <2>2, <2>3 DEF Line, Awaited, Owing, At, client
<1>8. Cancellable' /\ LeavingStops' /\ Stops' /\ Texts'
  BY <1>1 DEF Cancellable, LeavingStops, Stops, Texts, Awaited, At, Running, client
<1>9. Decided
  <2>1. disk \in Nat
    BY DEF TypeOK
  <2>. QED BY <1>1, <2>1 DEF Decided, Sticks, Final, Stops, client
<1>10. /\ Standing' = Standing \cup {n} /\ n \in Standing' /\ Served' = Served
       /\ \A m \in Standing \cup Served : m < n
  <2>1. Standing' = Awaited /\ n \in Standing'
    BY <1>1, <1>2 DEF Standing, Queued, Awaited
  <2>2. Standing = Awaited \ {n}
    BY <1>1 DEF Standing, Queued, Awaited, n
  <2>3. Served' = Served
    BY <1>1 DEF Served
  <2>4. \A m \in Standing \cup Served : m \in DOMAIN reqs /\ m # n
    BY <1>2, <2>2 DEF Served, Awaited
  <2>. QED BY <1>2, <2>1, <2>2, <2>3, <2>4
<1>11. Client!Arrive
  BY <1>10 DEF Client!Arrive, Standing, Served
<1>. QED BY <1>6, <1>7, <1>8, <1>9, <1>11 DEF Proper, Client!Next

\* The queue was closed meanwhile, and the request is dropped.
LEMMA PushDrops ==
  ASSUME IInv, Push, closed
  PROVE  Proper
<1>. USE DEF IInv
<1>. DEFINE n == Len(reqs)
<1>1. /\ reader = "push" /\ reader' = "read" /\ reqs' = [reqs EXCEPT ![n].answer = "dropped"]
      /\ UNCHANGED <<queue, stopper, registry, closed, shutdownRead, worker, session, client>>
  BY DEF Push
<1>2. n \in Awaited /\ Between(n) /\ n \in DOMAIN reqs
  BY <1>1 DEF Line, Between, Awaited
<1>3. /\ reqs' \in Seq(RequestType) /\ Len(reqs') = n /\ DOMAIN reqs' = DOMAIN reqs
      /\ \A m \in DOMAIN reqs :
           /\ Same(reqs[m], reqs'[m]) /\ reqs'[m].late = reqs[m].late /\ reqs'[m].state = reqs[m].state
           /\ reqs'[m].answer = IF m = n THEN "dropped" ELSE reqs[m].answer
  BY <1>1, <1>2, OneAnswered DEF Answers
<1>. HIDE DEF n
<1>4. Awaited' = Awaited \ {n}
  BY <1>3 DEF Awaited
<1>5. TypeOK'
  BY <1>1, <1>3 DEF TypeOK, WorkerType, session, client, n
<1>6. Line'
  <2>1. \A m \in DOMAIN reqs : ~Between(m)' /\ (Between(m) => m = n)
    BY <1>1 DEF Between, n
  <2>2. ~InQueue(n) /\ (Owing => worker.req # n)
    BY <1>2 DEF Line
  <2>3. At("finish") => worker.req \in DOMAIN reqs \ Awaited'
    BY <1>4 DEF Line
  <2>4. Owing => worker.req \in Awaited' /\ ~Between(worker.req)'
    BY <1>1, <1>4, <2>1, <2>2, WorkerReq DEF Line
  <2>. QED BY <1>1, <1>2, <1>3, <1>4, <2>1, <2>2, <2>3, <2>4 DEF Line, InQueue, Owing, At, Awaited
<1>7. Cancellable' /\ LeavingStops'
  BY <1>1, <1>3, <1>4 DEF Cancellable, LeavingStops, Same, Awaited, client
<1>8. Stops'
  BY <1>1, <1>3, WorkerReq DEF Stops, At, Running, Owing, client, n
<1>9. Texts'
  BY <1>1, <1>3, <1>4, WorkerReq DEF Texts, At, Running, Owing, Same, Awaited, client
<1>10. Decided
  <2>1. disk \in Nat
    BY DEF TypeOK
  <2>. QED BY <1>1, <1>2, <1>3, <2>1 DEF Decided, Sticks, Final, Stops, client, Awaited
<1>11. UNCHANGED <<Standing, Served>>
  BY <1>1, <1>2, <1>3 DEF Standing, Served, Queued, Awaited, n
<1>. QED BY <1>5, <1>6, <1>7, <1>8, <1>9, <1>10, <1>11 DEF Proper

\* The exit marker is queued, and the queue closed.
LEMMA PushExitProper ==
  ASSUME IInv, PushExit
  PROVE  Proper
<1>. USE DEF IInv
<1>1. /\ reader = "exit" /\ reader' = "gone" /\ closed'
      /\ UNCHANGED <<stopper, reqs, registry, shutdownRead, worker, session, client>>
  BY DEF PushExit
<1>2. /\ queue' \in Seq(0 .. Len(reqs))
      /\ \A i, j \in DOMAIN queue' : i < j => queue'[i] # 0 /\ (queue'[j] # 0 => queue'[i] < queue'[j])
      /\ \A m : m # 0 => (InQueue(m)' <=> InQueue(m))
  <2>1. CASE closed
    BY <2>1 DEF PushExit, TypeOK, Line, InQueue
  <2>2. CASE ~closed
    <3>1. 0 \in 0 .. Len(reqs) /\ queue' = Append(queue, 0)
      BY <2>2, Sequences DEF PushExit
    <3>. QED BY <2>2, <3>1, Joined
  <2>. QED BY <2>1, <2>2
<1>3. TypeOK'
  BY <1>1, <1>2 DEF TypeOK, WorkerType, session, client, PushExit
<1>4. Line'
  <2>1. \A n \in DOMAIN reqs : n # 0 /\ ~Between(n) /\ ~Between(n)'
    BY <1>1, Sequences DEF Between
  <2>. QED BY <1>1, <1>2, <2>1 DEF Line, Awaited, Owing, At
<1>5. Cancellable' /\ LeavingStops' /\ Stops' /\ Texts'
  BY <1>1 DEF Cancellable, LeavingStops, Stops, Texts, Awaited, At, Running, client
<1>6. Decided
  <2>1. disk \in Nat
    BY DEF TypeOK
  <2>. QED BY <1>1, <2>1 DEF Decided, Sticks, Final, Stops, client
<1>7. UNCHANGED <<Standing, Served>>
  BY <1>1 DEF Standing, Served, Queued
<1>. QED BY <1>3, <1>4, <1>5, <1>6, <1>7 DEF Proper

(***************************************************************************)
(* The queue is closed and emptied.                                        *)
(***************************************************************************)

\* Who is dropped is the end of the line.
LEMMA AbortDrainsProper ==
  ASSUME IInv, AbortDrains
  PROVE  Proper
<1>. USE DEF IInv
<1>. DEFINE dropped == ToSet(queue)
<1>1. /\ reader' = "push" <=> reader = "push"
      /\ reader' \in {"read", "push", "exit", "stopAll", "drain", "gone"}
      /\ stopper' \in {"idle", "stopAll", "drain", "done"}
      /\ closed' /\ queue' = <<>>
      /\ reqs' = [n \in DOMAIN reqs |->
                    IF n \in dropped THEN [reqs[n] EXCEPT !.answer = "dropped"] ELSE reqs[n]]
      /\ registry' = [id \in Ids |-> IF registry[id] \in dropped THEN 0 ELSE registry[id]]
      /\ UNCHANGED <<shutdownRead, worker, session, client>>
  BY DEF AbortDrains, TypeOK
<1>2. \A n : n \in dropped <=> InQueue(n)
  BY DEF ToSet, InQueue
<1>. HIDE DEF dropped
<1>3. /\ reqs' \in Seq(RequestType) /\ Len(reqs') = Len(reqs) /\ DOMAIN reqs' = DOMAIN reqs
      /\ \A n \in DOMAIN reqs :
           /\ Same(reqs[n], reqs'[n]) /\ reqs'[n].late = reqs[n].late /\ reqs'[n].state = reqs[n].state
           /\ reqs'[n].answer = IF n \in dropped THEN "dropped" ELSE reqs[n].answer
  BY <1>1, Dropped
<1>4. Awaited' = Awaited \ dropped
  BY <1>3 DEF Awaited
<1>5. TypeOK'
  <2>1. registry' \in [Ids -> 0 .. Len(reqs)]
    BY <1>1, Sequences DEF TypeOK
  <2>. QED BY <1>1, <1>3, <2>1 DEF TypeOK, WorkerType, session, client
<1>6. \A n : ~InQueue(n)'
  BY <1>1 DEF InQueue
<1>7. Line'
  <2>1. \A n \in DOMAIN reqs : Between(n)' <=> Between(n)
    BY <1>1, <1>3 DEF Between
  <2>2. Owing => worker.req \in Awaited' /\ ~Between(worker.req)'
    <3>1. Owing => worker.req \in DOMAIN reqs /\ ~(worker.req < worker.req)
      BY WorkerReq, Sequences
    <3>2. Owing => ~InQueue(worker.req)
      BY <3>1 DEF Line
    <3>. QED BY <1>1, <1>2, <1>4, <2>1, <3>1, <3>2 DEF Line
  <2>3. reader = "push" => Len(reqs) \in Awaited'
    BY <1>2, <1>4 DEF Line, Awaited, Between
  <2>4. \A n \in Awaited' : (Owing /\ worker.req = n) \/ Between(n)
    BY <1>2, <1>4 DEF Line
  <2>5. At("finish") => worker.req \in DOMAIN reqs \ Awaited'
    BY <1>4 DEF Line
  <2>. QED BY <1>1, <1>3, <1>6, <2>1, <2>2, <2>3, <2>4, <2>5 DEF Line, Owing, At, Awaited, InQueue
<1>8. Cancellable' /\ LeavingStops'
  <2>1. \A n \in Awaited : reqs[n].id \in Ids
    BY Sequences DEF Awaited, RequestType
  <2>. QED BY <1>1, <1>3, <1>4, <2>1 DEF Cancellable, LeavingStops, Same, Awaited, client
<1>9. Stops'
  BY <1>1, <1>3, WorkerReq DEF Stops, At, Running, Owing, client
<1>10. Texts'
  BY <1>1, <1>3, <1>4, WorkerReq DEF Texts, At, Running, Owing, Same, Awaited, client
<1>11. Decided
  <2>1. disk \in Nat
    BY DEF TypeOK
  <2>2. \A n \in DOMAIN reqs : n \in dropped => reqs[n].answer = "none"
    BY <1>2 DEF Line, Awaited
  <2>. QED BY <1>1, <1>3, <2>1, <2>2 DEF Decided, Sticks, Final, Stops, client
<1>12. /\ Standing' = Standing \ dropped /\ Served' = Served
  <2>1. \A n \in DOMAIN reqs : n \in dropped => reqs[n].answer = "none"
    BY <1>2 DEF Line, Awaited
  <2>. QED BY <1>1, <1>3, <2>1 DEF Standing, Served, Queued
<1>13. CASE \A n \in DOMAIN reqs : n \notin dropped
  <2>1. UNCHANGED <<Standing, Served>>
    BY <1>12, <1>13 DEF Standing
  <2>. QED BY <1>5, <1>7, <1>8, <1>9, <1>10, <1>11, <2>1 DEF Proper
<1>14. CASE \E n \in DOMAIN reqs : n \in dropped
  <2>. DEFINE first == queue[1]
  <2>1. PICK n \in DOMAIN reqs, i \in DOMAIN queue : queue[i] = n
    BY <1>2, <1>14 DEF InQueue
  <2>2. 1 \in DOMAIN queue /\ n # 0 /\ i \in Nat /\ (i = 1 \/ 1 < i)
    BY <2>1, Sequences
  <2>3. first # 0 /\ first \in DOMAIN reqs /\ InQueue(first)
    BY <2>1, <2>2, Sequences DEF Line, InQueue
  <2>4. \A m \in DOMAIN reqs : InQueue(m) => first <= m
    BY <2>2, <2>3, Sequences DEF InQueue, Line
  <2>5. \A m \in Standing : InQueue(m) \/ (Owing /\ worker.req = m)
    BY DEF Standing, Queued, Line, Awaited, Between
  <2>6. Owing => worker.req < first /\ worker.req \notin dropped
    BY <1>2, <2>3, WorkerReq, Sequences DEF Line
  <2>7. first \in Standing
    BY <2>3 DEF Standing, Queued, Line, Awaited, Between
  <2>. HIDE DEF first
  <2>8. \A m \in Standing : m \in dropped <=> ~(m < first)
    BY <1>2, <2>3, <2>4, <2>5, <2>6, Sequences DEF Standing
  <2>9. Standing' = {m \in Standing : m < first}
    BY <1>12, <2>8
  <2>10. Client!HangUp
    BY <1>12, <2>7, <2>9 DEF Client!HangUp, Standing, Served
  <2>. QED BY <1>5, <1>7, <1>8, <1>9, <1>10, <1>11, <2>10 DEF Proper, Client!Next
<1>. QED BY <1>13, <1>14

(***************************************************************************)
(* The worker.                                                             *)
(***************************************************************************)

\* A worker at the start of a request, or done with it.
LEMMA TakenTyped ==
  ASSUME NEW n \in 0 .. Len(reqs), NEW phase \in Phases
  PROVE  LET next == [Idle EXCEPT !.phase = phase, !.req = n]
         IN  /\ next.phase = phase /\ next.req = n
             /\ next.ran < Groups
             /\ next \in WorkerType
<1>1. "plan" \in DOMAIN NextStep /\ 0 \in 0 .. Groups /\ 0 \in Nat /\ 0 < Groups
  BY LspAssumption DEF NextStep
<1>. HIDE DEF NextStep
<1>. QED BY <1>1 DEF Idle, WorkerType

\* The worker takes up the first in the queue.
LEMMA PopDispatches ==
  ASSUME IInv, Pop, reqs[Head(queue)].state # "stopped"
  PROVE  Proper
<1>. USE DEF IInv
<1>. DEFINE n == Head(queue)
<1>1. /\ At("pop") /\ queue # <<>> /\ n # 0 /\ queue' = Tail(queue)
      /\ worker' = [Idle EXCEPT !.phase = "dispatch", !.req = n]
      /\ UNCHANGED <<reqs, reader, stopper, registry, closed, shutdownRead, session, client>>
  BY DEF Pop
<1>2. n \in Awaited /\ n \in 1 .. Len(reqs) /\ ~Between(n)
  BY <1>1, FirstInLine
<1>3. /\ queue' \in Seq(0 .. Len(reqs))
      /\ \A i, j \in DOMAIN queue' : i < j => queue'[i] # 0 /\ (queue'[j] # 0 => queue'[i] < queue'[j])
      /\ \A m : InQueue(m) <=> m = n \/ InQueue(m)'
      /\ \A m : InQueue(m)' => n # 0 /\ (m # 0 => n < m)
  BY <1>1, Popped
<1>. HIDE DEF n
<1>4. /\ worker' \in WorkerType
      /\ worker'.phase = "dispatch" /\ worker'.req = n /\ worker'.ran < Groups
  <2>1. n \in 0 .. Len(reqs) /\ "dispatch" \in Phases
    BY <1>2 DEF Phases
  <2>. QED BY <1>1, <2>1, TakenTyped
<1>5. TypeOK'
  BY <1>1, <1>3, <1>4 DEF TypeOK, WorkerType, session, client
<1>6. Line'
  <2>1. \A m \in DOMAIN reqs : m # 0 /\ (Between(m)' <=> Between(m))
    BY <1>1, Sequences DEF Between
  <2>2. Owing' /\ ~At("finish")' /\ ~Owing
    BY <1>1, <1>4 DEF Owing, At
  <2>3. worker'.req \in Awaited' /\ ~Between(worker.req)'
    BY <1>1, <1>2, <1>4 DEF Awaited, Between
  <2>4. \A m \in Awaited' : InQueue(m)' \/ worker'.req = m \/ Between(m)'
    BY <1>1, <1>3, <1>4, <2>1, <2>2 DEF Line, Awaited
  <2>. QED BY <1>1, <1>3, <1>4, <2>1, <2>2, <2>3, <2>4 DEF Line, Awaited
<1>7. Cancellable' /\ LeavingStops' /\ Stops' /\ Texts'
  BY <1>1, <1>4 DEF Cancellable, LeavingStops, Stops, Texts, Awaited, At, client
<1>8. Decided
  <2>1. disk \in Nat
    BY DEF TypeOK
  <2>. QED BY <1>1, <2>1 DEF Decided, Sticks, Final, Stops, client
<1>9. UNCHANGED <<Standing, Served>>
  BY <1>1 DEF Standing, Served, Queued
<1>. QED BY <1>5, <1>6, <1>7, <1>8, <1>9 DEF Proper

\* The first of those who wait is answered.
LEMMA FirstAnswered ==
  ASSUME IInv, TypeOK', NEW n \in Awaited, NEW answer \in Answers \ {"none", "dropped"},
         ~Between(n), \A m \in Awaited : n <= m,
         reqs' = [reqs EXCEPT ![n].answer = answer],
         worker'.phase = "finish", worker'.req = n,
         answer = "cancelled" => reqs[n].state # "settled",
         reqs[n].state = "stopped" /\ reqs[n].kind = "formatting"
           => answer \in {"cancelled", "notReady", "invalid"},
         \/ Owing /\ worker.req = n /\ queue' = queue
         \/ At("pop") /\ queue # <<>> /\ Head(queue) = n /\ queue' = Tail(queue),
         UNCHANGED <<reader, registry, closed, client>>
  PROVE  Proper
<1>. USE DEF IInv
<1>1. n \in DOMAIN reqs /\ n \in 1 .. Len(reqs)
  BY Sequences DEF Awaited
<1>2. /\ Len(reqs') = Len(reqs) /\ DOMAIN reqs' = DOMAIN reqs
      /\ \A m \in DOMAIN reqs :
           /\ Same(reqs[m], reqs'[m]) /\ reqs'[m].late = reqs[m].late /\ reqs'[m].state = reqs[m].state
           /\ reqs'[m].answer = IF m = n THEN answer ELSE reqs[m].answer
  BY <1>1, OneAnswered
<1>3. Awaited' = Awaited \ {n}
  BY <1>1, <1>2 DEF Awaited
<1>4. /\ \A i, j \in DOMAIN queue' : i < j => queue'[i] # 0 /\ (queue'[j] # 0 => queue'[i] < queue'[j])
      /\ \A m : m # n => (InQueue(m)' <=> InQueue(m))
      /\ ~InQueue(n)'
  <2>1. CASE Owing /\ worker.req = n /\ queue' = queue
    <3>1. ~InQueue(n)
      BY <1>1, <2>1 DEF Line
    <3>. QED BY <2>1, <3>1 DEF Line, InQueue
  <2>2. CASE At("pop") /\ queue # <<>> /\ Head(queue) = n /\ queue' = Tail(queue)
    <3>1. ~(n < n) /\ n # 0
      BY <1>1
    <3>. QED BY <2>2, <3>1, Popped
  <2>. QED BY <2>1, <2>2
<1>5. Line'
  <2>1. \A m \in DOMAIN reqs : m # 0 /\ (Between(m)' <=> Between(m))
    BY <1>2, Sequences DEF Between
  <2>2. ~Owing' /\ At("finish")' /\ worker'.req \in DOMAIN reqs' \ Awaited'
    BY <1>1, <1>2, <1>3 DEF Owing, At
  <2>3. \A m \in Awaited' : InQueue(m)' \/ Between(m)'
    <3>1. ~(Owing /\ worker.req # n)
      BY DEF Owing, At
    <3>. QED BY <1>3, <1>4, <2>1, <3>1 DEF Line, Awaited
  <2>4. reader' = "push" => Len(reqs') \in Awaited'
    BY <1>1, <1>2, <1>3 DEF Line, Between
  <2>5. InQueue(0)' => closed'
    BY <1>1, <1>4 DEF Line
  <2>6. \A m \in DOMAIN reqs' : InQueue(m)' => m \in Awaited' /\ ~Between(m)'
    BY <1>1, <1>2, <1>3, <1>4, <2>1 DEF Line
  <2>. QED BY <1>4, <2>2, <2>3, <2>4, <2>5, <2>6 DEF Line
<1>6. Cancellable' /\ LeavingStops'
  BY <1>2, <1>3 DEF Cancellable, LeavingStops, Same, Awaited, client
<1>7. Stops'
  BY <1>2 DEF Stops, At, client
<1>8. Texts'
  BY <1>2, <1>3 DEF Texts, Same, Awaited, client
<1>9. Decided
  <2>1. disk \in Nat /\ reqs[n].answer = "none"
    BY DEF TypeOK, Awaited
  <2>. QED BY <1>2, <2>1 DEF Decided, Sticks, Final, Stops, client
<1>10. n \in Standing /\ (\A m \in Standing : n <= m) /\ Standing' = Standing \ {n} /\ Served' = Served \cup {n}
  <2>1. n \in Standing /\ \A m \in Standing : n <= m
    BY <1>1 DEF Standing, Queued, Awaited, Between
  <2>. QED BY <1>1, <1>2, <2>1 DEF Standing, Served, Queued
<1>11. Client!Answer
  BY <1>10 DEF Client!Answer, Standing, Served
<1>. QED BY <1>5, <1>6, <1>7, <1>8, <1>9, <1>11 DEF Proper, Client!Next

\* The worker changes what it does to its request, or the next step of it.
LEMMA WorkerTyped ==
  ASSUME TypeOK, reqs' \in Seq(RequestType), Len(reqs') = Len(reqs), disk' \in Nat,
         worker' \in WorkerType,
         queue' \in Seq(0 .. Len(reqs)), initialized' \in BOOLEAN, shutdownReceived' \in BOOLEAN,
         UNCHANGED <<reader, stopper, registry, closed, shutdownRead, exitCode, docs, leaving, sent>>
  PROVE  TypeOK'
<1>. QED BY DEF TypeOK, WorkerType

\* The first in the queue was cancelled before its turn came.
LEMMA PopCancels ==
  ASSUME IInv, Pop, reqs[Head(queue)].state = "stopped"
  PROVE  Proper
<1>. USE DEF IInv
<1>. DEFINE n == Head(queue)
<1>1. /\ At("pop") /\ queue # <<>> /\ n # 0 /\ queue' = Tail(queue)
      /\ reqs' = [reqs EXCEPT ![n].answer = "cancelled"]
      /\ worker' = [Idle EXCEPT !.phase = "finish", !.req = n]
      /\ UNCHANGED <<reader, stopper, registry, closed, shutdownRead, session, client>>
  BY DEF Pop
<1>2. n \in Awaited /\ n \in 1 .. Len(reqs) /\ ~Between(n) /\ \A m \in Awaited : n <= m
  BY <1>1, FirstInLine
<1>3. queue' \in Seq(0 .. Len(reqs))
  BY <1>1, Popped
<1>. HIDE DEF n
<1>4. /\ worker' \in WorkerType
      /\ worker'.phase = "finish" /\ worker'.req = n
  <2>1. n \in 0 .. Len(reqs) /\ "finish" \in Phases
    BY <1>2 DEF Phases
  <2>. QED BY <1>1, <2>1, TakenTyped
<1>5. reqs' \in Seq(RequestType) /\ Len(reqs') = Len(reqs)
  BY <1>1, <1>2, OneAnswered DEF Answers, Awaited
<1>6. TypeOK'
  <2>1. disk \in Nat /\ initialized \in BOOLEAN /\ shutdownReceived \in BOOLEAN
    BY DEF TypeOK
  <2>. QED BY <1>1, <1>3, <1>4, <1>5, <2>1, WorkerTyped DEF session, client
<1>7. "cancelled" \in Answers \ {"none", "dropped"} /\ reqs[n].state = "stopped"
  BY DEF Answers, n
<1>. QED BY <1>1, <1>2, <1>4, <1>6, <1>7, FirstAnswered DEF n

\* There is nothing for the worker to do, or it is done with a request.
LEMMA AtRest ==
  ASSUME IInv, TypeOK', At("pop"), ~Owing', ~At("finish")',
         queue' = queue \/ (queue # <<>> /\ Head(queue) = 0 /\ queue' = Tail(queue)),
         UNCHANGED <<reqs, reader, registry, closed, client>>
  PROVE  Proper
<1>. USE DEF IInv
<1>1. /\ \A i, j \in DOMAIN queue' : i < j => queue'[i] # 0 /\ (queue'[j] # 0 => queue'[i] < queue'[j])
      /\ \A m : m # 0 => (InQueue(m)' <=> InQueue(m))
      /\ InQueue(0)' => InQueue(0)
  <2>1. CASE queue' = queue
    BY <2>1 DEF Line, InQueue
  <2>2. CASE queue # <<>> /\ Head(queue) = 0 /\ queue' = Tail(queue)
    BY <2>2, Popped
  <2>. QED BY <2>1, <2>2
<1>2. Line'
  <2>1. \A n \in DOMAIN reqs : n # 0 /\ (Between(n)' <=> Between(n))
    BY Sequences DEF Between
  <2>2. ~Owing
    BY DEF Owing, At
  <2>3. \A n \in Awaited : n \in DOMAIN reqs
    BY DEF Awaited
  <2>4. Awaited' = Awaited
    BY DEF Awaited
  <2>. QED BY <1>1, <2>1, <2>2, <2>3, <2>4 DEF Line
<1>3. Cancellable' /\ LeavingStops' /\ Stops' /\ Texts'
  BY DEF Cancellable, LeavingStops, Stops, Texts, Awaited, At, Owing, client
<1>4. Decided
  <2>1. disk \in Nat
    BY DEF TypeOK
  <2>. QED BY <2>1 DEF Decided, Sticks, Final, Stops, client
<1>5. UNCHANGED <<Standing, Served>>
  BY DEF Standing, Served, Queued
<1>. QED BY <1>2, <1>3, <1>4, <1>5 DEF Proper

LEMMA PopExitProper ==
  ASSUME IInv, PopExit \/ PopClosed
  PROVE  Proper
<1>. USE DEF IInv
<1>1. /\ At("pop")
      /\ queue' = queue \/ (queue # <<>> /\ Head(queue) = 0 /\ queue' = Tail(queue))
      /\ worker' = [Idle EXCEPT !.phase = "done"]
      /\ UNCHANGED <<reqs, reader, stopper, registry, closed, shutdownRead, client,
                     initialized, shutdownReceived>>
  BY DEF PopExit, PopClosed, session
<1>2. queue' \in Seq(0 .. Len(reqs))
  BY <1>1, Popped DEF TypeOK
<1>3. /\ worker'.phase = "done"
      /\ worker' \in WorkerType
  <2>1. "plan" \in DOMAIN NextStep /\ 0 \in 0 .. Groups /\ 0 \in Nat /\ "done" \in Phases
    BY LspAssumption DEF NextStep, Phases
  <2>2. 0 \in 0 .. Len(reqs)
    BY Sequences
  <2>. HIDE DEF NextStep, Phases
  <2>. QED BY <1>1, <2>1, <2>2 DEF Idle, WorkerType
<1>4. exitCode' \in {0, 1}
  BY DEF PopExit, PopClosed, session, TypeOK
<1>5. TypeOK'
  BY <1>1, <1>2, <1>3, <1>4 DEF TypeOK, WorkerType, client
<1>. QED BY <1>1, <1>3, <1>5, AtRest DEF Owing, At

\* The worker is done with a request, and forgets it under its id.
LEMMA FinishProper ==
  ASSUME IInv, Finish
  PROVE  Proper
<1>. USE DEF IInv
<1>. DEFINE n == worker.req
<1>1. /\ At("finish") /\ worker' = Idle
      /\ registry' = FinishedWith(n)
      /\ UNCHANGED <<reader, stopper, reqs, queue, closed, shutdownRead, session, client>>
  BY DEF Finish
<1>2. n \in DOMAIN reqs /\ n \notin Awaited
  BY <1>1 DEF Line
<1>3. /\ worker'.phase = "pop"
      /\ worker' \in WorkerType
  <2>1. "plan" \in DOMAIN NextStep /\ 0 \in 0 .. Groups /\ 0 \in Nat /\ "pop" \in Phases
    BY LspAssumption DEF NextStep, Phases
  <2>2. 0 \in 0 .. Len(reqs)
    BY Sequences
  <2>. HIDE DEF NextStep, Phases
  <2>. QED BY <1>1, <2>1, <2>2 DEF Idle, WorkerType
<1>. HIDE DEF n
<1>4. /\ registry' \in [Ids -> 0 .. Len(reqs)]
      /\ \A m \in Awaited : registry'[reqs[m].id] = m
  <2>1. \A m \in DOMAIN reqs : reqs[m].id \in Ids
    BY Sequences DEF RequestType
  <2>2. CASE registry[reqs[n].id] = n
    <3>1. registry' = [registry EXCEPT ![reqs[n].id] = 0]
      BY <1>1, <2>2 DEF FinishedWith
    <3>2. 0 \in 0 .. Len(reqs)
      BY Sequences
    <3>3. \A m \in Awaited : m \in DOMAIN reqs /\ reqs[m].id # reqs[n].id
      BY <1>2, <2>2 DEF Cancellable, Awaited
    <3>. QED BY <1>2, <2>1, <3>1, <3>2, <3>3 DEF TypeOK, Cancellable
  <2>3. CASE registry[reqs[n].id] # n
    BY <1>1, <2>3 DEF FinishedWith, TypeOK, Cancellable
  <2>. QED BY <2>2, <2>3
<1>5. TypeOK'
  BY <1>1, <1>3, <1>4 DEF TypeOK, WorkerType, session, client
<1>6. Line'
  BY <1>1, <1>3 DEF Line, Owing, At, InQueue, Between, Awaited
<1>7. Cancellable' /\ LeavingStops' /\ Stops' /\ Texts'
  BY <1>1, <1>3, <1>4 DEF Cancellable, LeavingStops, Stops, Texts, Awaited, At, client
<1>8. Decided
  <2>1. disk \in Nat
    BY DEF TypeOK
  <2>. QED BY <1>1, <2>1 DEF Decided, Sticks, Final, Stops, client
<1>9. UNCHANGED <<Standing, Served>>
  BY <1>1 DEF Standing, Served, Queued
<1>. QED BY <1>5, <1>6, <1>7, <1>8, <1>9 DEF Proper

\* The worker's own request is answered.
LEMMA WorkerAnswers ==
  ASSUME IInv, Owing, NEW answer \in Answers \ {"none", "dropped"},
         reqs' = Answered(answer), worker' = [worker EXCEPT !.phase = "finish"],
         answer = "cancelled" => Running.state # "settled",
         Running.state = "stopped" /\ Running.kind = "formatting"
           => answer \in {"cancelled", "notReady", "invalid"},
         UNCHANGED <<reader, stopper, registry, queue, closed, shutdownRead, exitCode, client>>,
         initialized' \in BOOLEAN, shutdownReceived' \in BOOLEAN
  PROVE  Proper
<1>. USE DEF IInv
<1>. DEFINE n == worker.req
<1>1. n \in Awaited /\ n \in DOMAIN reqs /\ n \in Nat /\ ~Between(n)
  BY WorkerReq, Sequences DEF Line
<1>2. \A m \in Awaited : n <= m
  <2>1. \A m \in Awaited : m \in DOMAIN reqs /\ (InQueue(m) \/ n = m \/ m = Len(reqs))
    BY DEF Line, Awaited, Between
  <2>2. \A m \in DOMAIN reqs : InQueue(m) => n < m
    BY DEF Line
  <2>. QED BY <1>1, <2>1, <2>2, Sequences
<1>3. worker'.req = n /\ worker'.phase = "finish" /\ reqs' = [reqs EXCEPT ![n].answer = answer]
  BY DEF Answered, TypeOK
<1>4. TypeOK'
  <2>1. reqs' \in Seq(RequestType) /\ Len(reqs') = Len(reqs)
    BY <1>1, <1>3, OneAnswered
  <2>2. worker' \in WorkerType
    <3>1. "finish" \in Phases
      BY DEF Phases
    <3>. QED BY <3>1 DEF TypeOK, WorkerType
  <2>3. disk \in Nat /\ queue \in Seq(0 .. Len(reqs))
    BY DEF TypeOK
  <2>. QED BY <2>1, <2>2, <2>3, WorkerTyped DEF client
<1>5. Running = reqs[n]
  BY DEF Running
<1>. HIDE DEF n
<1>6. Owing /\ worker.req = n /\ queue' = queue
  BY DEF n
<1>. QED BY <1>1, <1>2, <1>3, <1>4, <1>5, <1>6, FirstAnswered

LEMMA DispatchAnswersProper ==
  ASSUME IInv, DispatchAnswers
  PROVE  Proper
<1>. USE DEF IInv
<1>. DEFINE verdict == Verdict(Running.kind)
<1>1. /\ At("dispatch") /\ verdict # "none" /\ reqs' = Answered(verdict)
      /\ worker' = [worker EXCEPT !.phase = "finish"]
      /\ initialized' = (initialized \/ Running.kind = "initialize")
      /\ shutdownReceived' = (shutdownReceived \/ <<verdict, Running.kind>> = <<"ok", "shutdown">>)
      /\ UNCHANGED <<reader, stopper, registry, queue, closed, shutdownRead, exitCode, client>>
  BY DEF DispatchAnswers
<1>2. Owing
  BY <1>1 DEF At, Owing
<1>3. /\ verdict \in {"notReady", "invalid", "methodNotFound", "ok", "none"}
      /\ Running.kind = "formatting" => verdict \in {"none", "notReady", "invalid"}
  BY DEF Verdict
<1>. HIDE DEF verdict
<1>4. initialized' \in BOOLEAN /\ shutdownReceived' \in BOOLEAN
  BY <1>1 DEF TypeOK
<1>5. verdict \in Answers \ {"none", "dropped"} /\ verdict # "cancelled"
  BY <1>1, <1>3 DEF Answers
<1>. QED BY <1>1, <1>2, <1>3, <1>4, <1>5, WorkerAnswers

LEMMA ReplyProper ==
  ASSUME IInv, Reply
  PROVE  Proper
<1>. USE DEF IInv
<1>. DEFINE answer == IF Running.state = "stopped" THEN "cancelled" ELSE worker.outcome
<1>1. /\ At("reply") /\ reqs' = Answered(answer) /\ worker' = [worker EXCEPT !.phase = "finish"]
      /\ UNCHANGED <<reader, stopper, registry, queue, closed, shutdownRead, session, client>>
  BY DEF Reply, Turn, client
<1>2. Owing
  BY <1>1 DEF At, Owing
<1>3. answer \in Answers \ {"none", "dropped"}
  BY <1>1 DEF TypeOK, WorkerType, Answers, Stops
<1>4. answer = "cancelled" => Running.state # "settled"
  BY <1>1 DEF Stops
<1>5. Running.state = "stopped" => answer = "cancelled"
  OBVIOUS
<1>. HIDE DEF answer
<1>6. initialized' \in BOOLEAN /\ shutdownReceived' \in BOOLEAN
  BY <1>1 DEF TypeOK, session
<1>. QED BY <1>1, <1>2, <1>3, <1>4, <1>5, <1>6, WorkerAnswers DEF session

(***************************************************************************)
(* A format goes on.                                                       *)
(***************************************************************************)

\* The worker stays with its request, to which a step may be counted against a
\* stop, or which it settles.
LEMMA Onward ==
  ASSUME IInv, Owing, Owing', worker' \in WorkerType, worker'.req = worker.req,
         reqs' \in Seq(RequestType), Len(reqs') = Len(reqs), DOMAIN reqs' = DOMAIN reqs,
         \A n \in DOMAIN reqs :
           /\ Same(reqs[n], reqs'[n]) /\ reqs'[n].answer = reqs[n].answer
           /\ n # worker.req => reqs'[n].state = reqs[n].state /\ reqs'[n].late = reqs[n].late,
         LET before == reqs[worker.req]
             after  == reqs'[worker.req]
         IN  /\ after.state = before.state \/ (before.state = "live" /\ after.state = "settled")
             /\ after.late <= 1 /\ (after.late > 0 => after.state = "stopped")
             /\ At("do")' => after.late = 0
             /\ At("reply")' => worker'.outcome # "none"
             /\ At("reply")' /\ worker'.outcome = "cancelled" => after.state = "stopped",
         disk' = disk \/ (At("do") /\ disk' = worker.text),
         worker'.phase \in {"check", "do"} => disk' <= worker'.text /\ worker'.text \in {disk', Running.snap},
         worker'.phase \in {"dispatch", "check", "do"} => worker'.ran < Groups,
         UNCHANGED <<reader, stopper, registry, queue, closed, shutdownRead, session, docs, leaving, sent>>
  PROVE  Proper
<1>. USE DEF IInv
<1>. DEFINE n == worker.req
<1>1. n \in DOMAIN reqs /\ n \in Awaited /\ n \in Nat /\ ~Between(n)
  BY WorkerReq, Sequences DEF Line
<1>2. /\ disk \in Nat /\ disk' \in Nat /\ disk <= disk' /\ sent["changes"] \in Nat
      /\ disk' = disk \/ (At("do") /\ disk' \in {disk, Running.snap})
  BY <1>1, Sequences DEF TypeOK, WorkerType, Texts, At, Counters
<1>3. TypeOK'
  <2>1. queue \in Seq(0 .. Len(reqs)) /\ initialized \in BOOLEAN /\ shutdownReceived \in BOOLEAN
    BY DEF TypeOK
  <2>. QED BY <1>2, <2>1, WorkerTyped DEF session, WorkerType
<1>4. Awaited' = Awaited
  BY DEF Awaited
<1>5. Line'
  <2>1. \A m \in DOMAIN reqs : Between(m)' <=> Between(m)
    BY DEF Between
  <2>2. ~At("finish")'
    BY DEF Owing, At
  <2>. QED BY <1>1, <1>4, <2>1, <2>2 DEF Line, InQueue, Awaited, Between
<1>6. Cancellable' /\ LeavingStops'
  BY <1>4 DEF Cancellable, LeavingStops, Same, Awaited
<1>7. Stops'
  <2>1. \A m \in DOMAIN reqs :
          /\ reqs'[m].late <= 1
          /\ reqs'[m].late > 0 => reqs'[m].state = "stopped"
          /\ reqs'[m].state = "settled" => reqs'[m].answer # "cancelled"
    <3>1. reqs[n].answer = "none"
      BY <1>1 DEF Awaited
    <3>. QED BY <1>1, <3>1 DEF Stops
  <2>. QED BY <1>1, <2>1 DEF Stops, At, Running
<1>8. Texts'
  <2>1. \A m \in Awaited : m \in DOMAIN reqs /\ reqs[m].snap \in Nat /\ reqs'[m].snap = reqs[m].snap
                           /\ (n < m \/ m = n)
    <3>1. \A m \in Awaited : m \in DOMAIN reqs /\ reqs[m].snap \in Nat /\ reqs'[m].snap = reqs[m].snap
      BY Sequences DEF Awaited, Same, RequestType
    <3>2. \A m \in Awaited : m = Len(reqs) \/ m = n \/ n < m
      BY DEF Line, Awaited, Between
    <3>. QED BY <1>1, <3>1, <3>2, Sequences
  <2>2. disk' <= sent["changes"]
    BY <1>1, <1>2, Sequences DEF Texts, Running
  <2>3. \A m \in Awaited : reqs[m].snap = 0 \/ disk' <= reqs[m].snap
    <3>1. CASE disk' = disk
      BY <3>1 DEF Texts
    <3>2. CASE disk' = Running.snap
      BY <1>1, <2>1, <3>2 DEF Texts, Running
    <3>. QED BY <1>2, <3>1, <3>2
  <2>4. Running' = reqs'[n] /\ Running'.snap = Running.snap
    BY <1>1 DEF Running, Same
  <2>. QED BY <1>1, <1>4, <2>1, <2>2, <2>3, <2>4 DEF Texts, Same
<1>9. Decided
  BY <1>1, <1>2 DEF Decided, Sticks, Final, Stops
<1>10. UNCHANGED <<Standing, Served>>
  BY DEF Standing, Served, Queued
<1>. QED BY <1>3, <1>5, <1>6, <1>7, <1>8, <1>9, <1>10 DEF Proper

\* The same without a mark on the request.
LEMMA OnwardUnmarked ==
  ASSUME IInv, Owing, Owing', worker' \in WorkerType, worker'.req = worker.req, UNCHANGED <<reqs, disk>>,
         At("do")' => Running.late = 0,
         At("reply")' => worker'.outcome # "none",
         At("reply")' /\ worker'.outcome = "cancelled" => Running.state = "stopped",
         worker'.phase \in {"check", "do"} => disk <= worker'.text /\ worker'.text \in {disk, Running.snap},
         worker'.phase \in {"dispatch", "check", "do"} => worker'.ran < Groups,
         UNCHANGED <<reader, stopper, registry, queue, closed, shutdownRead, session, docs, leaving, sent>>
  PROVE  Proper
<1>. USE DEF IInv
<1>1. worker.req \in DOMAIN reqs
  BY WorkerReq
<1>2. \A n \in DOMAIN reqs : Same(reqs[n], reqs[n]) /\ reqs[n].late \in Nat
  BY Sequences DEF Same, RequestType
<1>3. reqs \in Seq(RequestType)
  BY DEF TypeOK
<1>. QED BY <1>1, <1>2, <1>3, Onward DEF Stops, Running

\* A step of the format is done: one more that is late, if the format is stopped.
LEMMA OnwardDone ==
  ASSUME IInv, At("do"), Owing', ~At("do")', worker' \in WorkerType, worker'.req = worker.req,
         reqs' = DoneBy(Running) \/ reqs' = DoneBy([Running EXCEPT !.wrote = TRUE]),
         At("reply")' => worker'.outcome \notin {"none", "cancelled"},
         disk' = disk \/ disk' = worker.text,
         worker'.phase \in {"check", "do"} => worker'.text = worker.text,
         worker'.phase \in {"dispatch", "check", "do"} => worker'.ran < Groups,
         UNCHANGED <<reader, stopper, registry, queue, closed, shutdownRead, session, docs, leaving, sent>>
  PROVE  Proper
<1>. USE DEF IInv
<1>1. worker.req \in DOMAIN reqs /\ Owing
  BY WorkerReq DEF At, Owing
<1>2. PICK effect \in RequestType : /\ effect = Running \/ effect = [Running EXCEPT !.wrote = TRUE]
                                    /\ reqs' = DoneBy(effect)
  BY <1>1, EffectTyped
<1>3. /\ reqs' \in Seq(RequestType) /\ Len(reqs') = Len(reqs) /\ DOMAIN reqs' = DOMAIN reqs
      /\ \A n \in DOMAIN reqs :
           /\ Same(reqs[n], reqs'[n]) /\ reqs'[n].answer = reqs[n].answer /\ reqs'[n].state = reqs[n].state
           /\ reqs'[n].late = IF n = worker.req /\ Running.state = "stopped" THEN reqs[n].late + 1
                                                                             ELSE reqs[n].late
  BY <1>1, <1>2, DoneByDone
<1>4. Running.late = 0 /\ Running = reqs[worker.req]
  BY DEF Stops, Running
<1>5. /\ reqs'[worker.req].state = reqs[worker.req].state
      /\ reqs'[worker.req].late <= 1 /\ (reqs'[worker.req].late > 0 => reqs'[worker.req].state = "stopped")
  BY <1>1, <1>3, <1>4
<1>6. worker'.phase \in {"check", "do"} => disk' <= worker'.text /\ worker'.text \in {disk', Running.snap}
  <2>1. disk <= worker.text /\ worker.text \in {disk, Running.snap} /\ disk \in Nat /\ worker.text \in Nat
    BY DEF Texts, At, TypeOK, WorkerType
  <2>2. CASE disk' = disk
    BY <2>1, <2>2
  <2>3. CASE disk' = worker.text
    BY <2>1, <2>3
  <2>. QED BY <2>2, <2>3
<1>. QED BY <1>1, <1>3, <1>4, <1>5, <1>6, Onward

\* Taken from, and applied to, the worker's own record.
LEMMA WorkerTypes ==
  ASSUME TypeOK
  PROVE  /\ worker \in WorkerType
         /\ \A outcome \in {"cancelled", "edits", "failed"} :
              /\ Replying(outcome) \in WorkerType
              /\ Replying(outcome).phase = "reply" /\ Replying(outcome).req = worker.req
              /\ Replying(outcome).outcome = outcome
         /\ \A step \in DOMAIN NextStep :
              /\ Then(step) \in WorkerType
              /\ Then(step).phase = "check" /\ Then(step).req = worker.req
              /\ Then(step).text = worker.text /\ Then(step).ran = worker.ran
<1>1. worker \in WorkerType /\ "reply" \in Phases /\ "check" \in Phases
  BY DEF TypeOK, WorkerType, Phases
<1>. HIDE DEF NextStep, Phases
<1>. QED BY <1>1 DEF WorkerType, Replying, Then

LEMMA DispatchFormattingProper ==
  ASSUME IInv, DispatchFormatting
  PROVE  Proper
<1>. USE DEF IInv
<1>. DEFINE text == IF Running.snap = 0 THEN disk ELSE Running.snap
<1>1. /\ At("dispatch") /\ UNCHANGED <<reqs, disk>>
      /\ UNCHANGED <<reader, stopper, registry, queue, closed, shutdownRead, session, docs, leaving, sent>>
      /\ \/ \E outcome \in {"failed", "edits"} : worker' = Replying(outcome)
         \/ worker' = [worker EXCEPT !.phase = "check", !.text = text]
  BY DEF DispatchFormatting, Turn
<1>2. worker.req \in Awaited /\ worker.req \in DOMAIN reqs /\ Owing
  BY <1>1, WorkerReq DEF At, Owing, Line
<1>3. text \in Nat /\ disk <= text /\ text \in {disk, Running.snap}
  <2>1. disk \in Nat /\ Running.snap \in Nat
    BY <1>2, Sequences DEF TypeOK, Running, RequestType
  <2>2. Running.snap = 0 \/ disk <= Running.snap
    BY <1>2 DEF Texts, Running
  <2>. QED BY <2>1, <2>2
<1>. HIDE DEF text
<1>4. CASE \E outcome \in {"failed", "edits"} : worker' = Replying(outcome)
  BY <1>1, <1>2, <1>4, WorkerTypes, OnwardUnmarked DEF Owing, At
<1>5. CASE worker' = [worker EXCEPT !.phase = "check", !.text = text]
  <2>1. /\ worker' \in WorkerType /\ worker'.phase = "check" /\ worker'.req = worker.req
        /\ worker'.text = text /\ worker'.ran < Groups
    BY <1>1, <1>3, <1>5, WorkerTypes DEF WorkerType, Phases, Stops, At
  <2>. QED BY <1>1, <1>2, <1>3, <2>1, OnwardUnmarked DEF Owing, At
<1>. QED BY <1>1, <1>4, <1>5

LEMMA CheckpointProper ==
  ASSUME IInv, Checkpoint
  PROVE  Proper
<1>. USE DEF IInv
<1>1. /\ At("check") /\ UNCHANGED <<reqs, disk>>
      /\ UNCHANGED <<reader, stopper, registry, queue, closed, shutdownRead, session, docs, leaving, sent>>
      /\ \/ Running.state = "stopped" /\ worker' = Replying("cancelled")
         \/ Running.state # "stopped" /\ worker' = [worker EXCEPT !.phase = "do"]
         \/ worker' = [worker EXCEPT !.phase = "settle"]
  BY DEF Checkpoint, Turn
<1>2. worker.req \in DOMAIN reqs /\ Owing
  BY <1>1, WorkerReq DEF At, Owing
<1>3. disk <= worker.text /\ worker.text \in {disk, Running.snap}
  BY <1>1 DEF Texts, At
<1>4. CASE Running.state = "stopped" /\ worker' = Replying("cancelled")
  BY <1>1, <1>2, <1>4, WorkerTypes, OnwardUnmarked DEF Owing, At
<1>5. CASE Running.state # "stopped" /\ worker' = [worker EXCEPT !.phase = "do"]
  <2>1. /\ worker' \in WorkerType /\ worker'.phase = "do" /\ worker'.req = worker.req
        /\ worker'.text = worker.text /\ worker'.ran < Groups
    BY <1>1, <1>5, WorkerTypes DEF WorkerType, Phases, Stops, At
  <2>2. Running.late = 0
    <3>1. Running.late \in Nat /\ (Running.late > 0 => Running.state = "stopped")
      BY <1>2, Sequences DEF Stops, Running, RequestType
    <3>. QED BY <1>5, <3>1
  <2>. QED BY <1>1, <1>2, <1>3, <2>1, <2>2, OnwardUnmarked DEF Owing, At
<1>6. CASE worker' = [worker EXCEPT !.phase = "settle"]
  <2>1. worker' \in WorkerType /\ worker'.phase = "settle" /\ worker'.req = worker.req
    BY <1>6, WorkerTypes DEF WorkerType, Phases
  <2>. QED BY <1>1, <1>2, <2>1, OnwardUnmarked DEF Owing, At
<1>. QED BY <1>1, <1>4, <1>5, <1>6

\* Planning, the preflight, the installs, the comparison with the disk; or what fails there.
LEMMA PrepareProper ==
  ASSUME IInv, StepFails \/ Prepare
  PROVE  Proper
<1>. USE DEF IInv
<1>1. /\ At("do") /\ reqs' = DoneBy(Running) /\ disk' = disk
      /\ UNCHANGED <<reader, stopper, registry, queue, closed, shutdownRead, session, docs, leaving, sent>>
      /\ worker' = Replying("failed") \/ \E step \in DOMAIN NextStep : worker' = Then(step)
  <2>1. NextStep[worker.step] \in DOMAIN NextStep /\ "group" \in DOMAIN NextStep
    BY DEF TypeOK, WorkerType, NextStep
  <2>. HIDE DEF NextStep
  <2>. QED BY <2>1 DEF StepFails, Prepare, Turn
<1>2. CASE worker' = Replying("failed")
  BY <1>1, <1>2, WorkerTypes, OnwardDone DEF Owing, At
<1>3. CASE \E step \in DOMAIN NextStep : worker' = Then(step)
  <2>1. worker.ran < Groups
    BY <1>1 DEF Stops, At
  <2>. QED BY <1>1, <1>3, <2>1, WorkerTypes, OnwardDone DEF Owing, At
<1>. QED BY <1>1, <1>2, <1>3

LEMMA PersistBufferProper ==
  ASSUME IInv, PersistBuffer
  PROVE  Proper
<1>. USE DEF IInv
<1>1. /\ At("do") /\ reqs' = DoneBy([Running EXCEPT !.wrote = TRUE]) /\ disk' = worker.text
      /\ UNCHANGED <<reader, stopper, registry, queue, closed, shutdownRead, session, docs, leaving, sent>>
      /\ worker' = Then("group")
  BY DEF PersistBuffer, Turn
<1>2. "group" \in DOMAIN NextStep /\ worker.ran < Groups
  BY <1>1 DEF NextStep, Stops, At
<1>. QED BY <1>1, <1>2, WorkerTypes, OnwardDone DEF Owing, At

LEMMA RanTyped ==
  ASSUME TypeOK, NEW phase \in Phases, NEW ran \in 0 .. Groups
  PROVE  LET next == [worker EXCEPT !.phase = phase, !.ran = ran]
         IN  /\ next \in WorkerType /\ next.phase = phase /\ next.req = worker.req
             /\ next.text = worker.text /\ next.ran = ran
<1>1. worker \in WorkerType
  BY WorkerTypes
<1>. HIDE DEF NextStep, Phases
<1>. QED BY <1>1 DEF WorkerType

LEMMA RunGroupProper ==
  ASSUME IInv, RunGroup
  PROVE  Proper
<1>. USE DEF IInv
<1>. DEFINE ran == worker.ran + 1
<1>1. /\ At("do") /\ reqs' = DoneBy(Running) /\ disk' = disk
      /\ UNCHANGED <<reader, stopper, registry, queue, closed, shutdownRead, session, docs, leaving, sent>>
      /\ \E phase \in {"check", "settle"} :
           /\ worker' = [worker EXCEPT !.phase = phase, !.ran = ran]
           /\ phase = "check" => ran < Groups
  BY DEF RunGroup, Turn, MoreGroups
<1>2. ran \in 0 .. Groups
  <2>1. worker.ran \in 0 .. Groups /\ worker.ran < Groups
    BY <1>1 DEF TypeOK, WorkerType, Stops, At
  <2>. QED BY <2>1, LspAssumption
<1>3. PICK phase \in {"check", "settle"} :
        /\ worker' = [worker EXCEPT !.phase = phase, !.ran = ran]
        /\ phase = "check" => ran < Groups
  BY <1>1
<1>4. /\ worker' \in WorkerType /\ worker'.phase = phase /\ worker'.req = worker.req
      /\ worker'.text = worker.text /\ worker'.ran = ran
  <2>1. phase \in Phases
    BY DEF Phases
  <2>. QED BY <1>2, <1>3, <2>1, RanTyped
<1>. HIDE DEF ran
<1>5. Owing' /\ ~At("do")' /\ ~At("reply")'
  BY <1>4 DEF Owing, At
<1>6. worker'.phase \in {"dispatch", "check", "do"} => worker'.ran < Groups
  BY <1>3, <1>4
<1>. QED BY <1>1, <1>4, <1>5, <1>6, OnwardDone

\* Of a stop and a settlement, the first one holds.
LEMMA SettleProper ==
  ASSUME IInv, Settle
  PROVE  Proper
<1>. USE DEF IInv
<1>1. /\ At("settle") /\ disk' = disk
      /\ UNCHANGED <<reader, stopper, registry, queue, closed, shutdownRead, session, docs, leaving, sent>>
  BY DEF Settle, Turn
<1>2. worker.req \in DOMAIN reqs /\ Owing
  BY <1>1, WorkerReq DEF At, Owing
<1>3. CASE Running.state = "stopped"
  <2>1. worker' = Replying("cancelled") /\ reqs' = reqs
    BY <1>3 DEF Settle, Turn
  <2>. QED BY <1>1, <1>2, <1>3, <2>1, WorkerTypes, OnwardUnmarked DEF Owing, At
<1>4. CASE Running.state # "stopped"
  <2>1. PICK outcome \in {"edits", "failed"} : worker' = Replying(outcome)
    BY <1>4 DEF Settle, Turn
  <2>2. reqs' = [reqs EXCEPT ![worker.req].state = "settled"]
    BY <1>4 DEF Settle
  <2>3. /\ reqs' \in Seq(RequestType) /\ Len(reqs') = Len(reqs) /\ DOMAIN reqs' = DOMAIN reqs
        /\ \A n \in DOMAIN reqs :
             /\ Same(reqs[n], reqs'[n]) /\ reqs'[n].late = reqs[n].late /\ reqs'[n].answer = reqs[n].answer
             /\ reqs'[n].state = IF n = worker.req THEN "settled" ELSE reqs[n].state
    BY <1>2, <2>2, Settled
  <2>4. /\ reqs[worker.req].state \in {"live", "settled"} /\ reqs[worker.req].late = 0
    <3>1. /\ reqs[worker.req].state \in {"live", "stopped", "settled"} /\ reqs[worker.req].late \in Nat
      BY <1>2, Sequences DEF RequestType
    <3>. QED BY <1>2, <1>4, <3>1 DEF Stops, Running
  <2>5. /\ worker' \in WorkerType /\ worker'.phase = "reply" /\ worker'.req = worker.req
        /\ worker'.outcome \notin {"none", "cancelled"}
    BY <2>1, WorkerTypes
  <2>. QED BY <1>1, <1>2, <2>3, <2>4, <2>5, Onward DEF Owing, At
<1>. QED BY <1>3, <1>4

(***************************************************************************)
(* Every step.                                                             *)
(***************************************************************************)

LEMMA ReaderProper ==
  ASSUME IInv, Read \/ Reader
  PROVE  Proper
<1>. USE DEF IInv
<1>1. ASSUME NEW id \in Ids, NEW kind \in Kinds, ReadRequest(id, kind)
      PROVE  Proper
  BY <1>1, ReadRequestProper
<1>2. ASSUME NEW id \in Ids, ReadCancel(id)
      PROVE  Proper
  <2>1. /\ Sends("cancels") /\ reqs' = StopAll({registry[id]})
        /\ UNCHANGED <<reader, stopper, registry, queue, closed, shutdownRead, worker, session,
                       docs, disk, leaving>>
    BY <1>2 DEF ReadCancel
  <2>2. /\ sent' \in [Counters -> Nat] /\ sent'["changes"] = sent["changes"] /\ Total(sent') = Total(sent)
    BY <2>1, Sent DEF Counters, Kinds, Total
  <2>3. reqs' \in Seq(RequestType) /\ Len(reqs') = Len(reqs)
    BY <2>1, StopAllStops
  <2>4. TypeOK'
    BY <2>1, <2>2, <2>3 DEF TypeOK, WorkerType, session
  <2>. QED BY <2>1, <2>2, <2>4, Marked
<1>3. ASSUME NEW open \in BOOLEAN, ReadChange(open)
      PROVE  Proper
  <2>1. /\ reader = "read" /\ Sends("changes") /\ docs' = IF open THEN sent'["changes"] ELSE 0
        /\ UNCHANGED <<reader, stopper, reqs, registry, queue, closed, shutdownRead, worker,
                       session, disk, leaving>>
    BY <1>3 DEF ReadChange, Reading
  <2>2. /\ sent' \in [Counters -> Nat] /\ sent'["changes"] = sent["changes"] + 1
        /\ Total(sent') = Total(sent) /\ sent["changes"] \in Nat
    BY <2>1, Sent DEF Counters, Kinds, Total, TypeOK
  <2>3. docs' \in {0, sent'["changes"]} /\ sent'["changes"] >= sent["changes"] /\ docs' \in Nat
    BY <2>1, <2>2
  <2>4. TypeOK'
    BY <2>1, <2>2, <2>3 DEF TypeOK, WorkerType, session
  <2>. QED BY <2>1, <2>3, <2>4, Aside
<1>4. CASE ReadExit
  <2>. DEFINE who == IF shutdownRead THEN {} ELSE {n \in Registered : reqs[n].kind = "formatting"}
  <2>1. /\ reader = "read" /\ reader' = "exit"
        /\ leaving' = leaving \/ (leaving' = Len(reqs) /\ ~shutdownRead)
        /\ UNCHANGED <<stopper, registry, queue, closed, shutdownRead, worker, session, docs, disk, sent>>
    BY <1>4 DEF ReadExit, Reading
  <2>2. reqs' = StopAll(who)
    <3>1. reqs = StopAll({})
      <4>1. reqs = [m \in 1 .. Len(reqs) |-> reqs[m]]
        BY DEF TypeOK
      <4>. QED BY <4>1, Sequences DEF StopAll
    <3>. QED BY <1>4, <3>1 DEF ReadExit, StopFormatting
  <2>3. reqs' \in Seq(RequestType) /\ Len(reqs') = Len(reqs)
    BY <2>2, StopAllStops
  <2>4. TypeOK'
    BY <2>1, <2>3, Sequences DEF TypeOK, WorkerType, session
  <2>5. ~shutdownRead => \A n \in Registered : reqs[n].kind = "formatting" => n \in who
    OBVIOUS
  <2>. HIDE DEF who
  <2>. QED BY <2>1, <2>2, <2>4, <2>5, Marked
<1>5. CASE ReadEnd \/ ReaderLeaves
  <2>1. /\ reader = "read" /\ reader' \in {"stopAll", "gone"}
        /\ UNCHANGED <<stopper, reqs, registry, queue, closed, shutdownRead, worker, session, client>>
    BY <1>5 DEF ReadEnd, ReaderLeaves, Reading
  <2>2. TypeOK'
    BY <2>1 DEF TypeOK, WorkerType, session, client
  <2>. QED BY <2>1, <2>2, Aside DEF client
<1>. QED BY <1>1, <1>2, <1>3, <1>4, <1>5, PushQueues, PushDrops, PushExitProper DEF Read, Reader

LEMMA AbortProper ==
  ASSUME IInv, StopCalled \/ Abort
  PROVE  Proper
<1>. USE DEF IInv
<1>1. CASE StopCalled
  <2>1. /\ Sends("stops") /\ stopper' = "stopAll"
        /\ UNCHANGED <<reader, reqs, registry, queue, closed, shutdownRead, worker, session,
                       docs, disk, leaving>>
    BY <1>1 DEF StopCalled
  <2>2. /\ sent' \in [Counters -> Nat] /\ sent'["changes"] = sent["changes"] /\ Total(sent') = Total(sent)
    BY <2>1, Sent DEF Counters, Kinds, Total
  <2>3. TypeOK'
    BY <2>1, <2>2 DEF TypeOK, WorkerType, session
  <2>4. reqs' = StopAll({})
    <3>1. reqs = [m \in 1 .. Len(reqs) |-> reqs[m]]
      BY DEF TypeOK
    <3>. QED BY <2>1, <3>1, Sequences DEF StopAll
  <2>. QED BY <2>1, <2>2, <2>3, <2>4, Marked
<1>2. CASE AbortStops
  <2>1. /\ reader' = "push" <=> reader = "push"
        /\ reader' \in {"read", "push", "exit", "stopAll", "drain", "gone"}
        /\ stopper' \in {"idle", "stopAll", "drain", "done"}
        /\ reqs' = StopAll(Registered)
        /\ UNCHANGED <<registry, queue, closed, shutdownRead, worker, session, client>>
    BY <1>2 DEF AbortStops, TypeOK
  <2>2. reqs' \in Seq(RequestType) /\ Len(reqs') = Len(reqs)
    BY <2>1, StopAllStops
  <2>3. TypeOK'
    BY <2>1, <2>2 DEF TypeOK, WorkerType, session, client
  <2>. QED BY <2>1, <2>3, Marked DEF client
<1>. QED BY <1>1, <1>2, AbortDrainsProper DEF Abort

LEMMA WorkerProper ==
  ASSUME IInv, Worker
  PROVE  Proper
<1>. QED
  BY PopDispatches, PopCancels, PopExitProper, DispatchAnswersProper, DispatchFormattingProper,
     CheckpointProper, PrepareProper, PersistBufferProper, RunGroupProper, SettleProper, ReplyProper,
     FinishProper DEF Worker

LEMMA StepProper ==
  ASSUME IInv, [Next]_vars
  PROVE  Proper
<1>1. CASE UNCHANGED vars
  <2>. USE <1>1 DEF vars, session, client
  <2>1. Line'
    BY DEF IInv, Line, InQueue, Between, Owing, At, Awaited
  <2>2. TypeOK' /\ Cancellable' /\ LeavingStops'
    BY DEF IInv, TypeOK, WorkerType, Cancellable, LeavingStops, Awaited
  <2>3. Stops' /\ Texts'
    BY DEF IInv, Stops, Texts, At, Awaited, Running
  <2>4. Decided
    BY DEF IInv, TypeOK, Stops, Decided, Sticks, Final
  <2>5. UNCHANGED <<Standing, Served>>
    BY DEF Standing, Served, Queued
  <2>. QED BY <2>1, <2>2, <2>3, <2>4, <2>5 DEF Proper, IInv
<1>. QED BY <1>1, ReaderProper, AbortProper, WorkerProper DEF Next

LEMMA InitKeeps == Init => IInv /\ Standing = {} /\ Served = {}
<1>. SUFFICES ASSUME Init PROVE IInv /\ Standing = {} /\ Served = {}
  OBVIOUS
<1>. USE DEF Init
<1>1. DOMAIN reqs = {} /\ Len(reqs) = 0 /\ DOMAIN queue = {}
  OBVIOUS
<1>2. Awaited = {}
  BY <1>1 DEF Awaited
<1>3. TypeOK
  <2>1. /\ worker \in WorkerType
    <3>1. "plan" \in DOMAIN NextStep /\ 0 \in 0 .. Groups /\ 0 \in Nat /\ "pop" \in Phases /\ 0 \in 0 .. Len(reqs)
      BY <1>1, LspAssumption DEF NextStep, Phases
    <3>. HIDE DEF NextStep, Phases
    <3>. QED BY <3>1 DEF Idle, WorkerType
  <2>2. Total(sent) = 0 /\ sent \in [Counters -> Nat]
    BY DEF Total, Counters, Kinds
  <2>3. registry \in [Ids -> 0 .. Len(reqs)] /\ reqs \in Seq(RequestType) /\ queue \in Seq(0 .. Len(reqs))
    BY <1>1
  <2>4. 0 \in Nat /\ FALSE \in BOOLEAN
    OBVIOUS
  <2>. HIDE DEF Init
  <2>5. Init
    OBVIOUS
  <2>. QED BY <1>1, <2>1, <2>2, <2>3, <2>4, <2>5 DEF TypeOK, WorkerType, Init
<1>4. Line
  BY <1>1, <1>2 DEF Line, InQueue, Between, Owing, At, Idle
<1>5. Cancellable /\ LeavingStops
  BY <1>2 DEF Cancellable, LeavingStops
<1>6. Stops
  BY <1>1 DEF Stops, At, Idle
<1>7. Texts
  BY <1>1, <1>2 DEF Texts, Idle, Counters
<1>8. Standing = {} /\ Served = {}
  BY <1>1 DEF Standing, Served
<1>. QED BY <1>3, <1>4, <1>5, <1>6, <1>7, <1>8 DEF IInv

(***************************************************************************)
(* The theorems.                                                           *)
(***************************************************************************)

\* The invariant holds in every state the server can reach.
THEOREM Invariant == Spec => []IInv
<1>1. Init => IInv
  BY InitKeeps
<1>2. IInv /\ [Next]_vars => IInv'
  BY StepProper DEF Proper
<1>. QED BY <1>1, <1>2, PTL DEF Spec

\* A stop is heard, for any number of requests and priority groups: whoever the
\* client still waits for is found under its id, also when the id was used
\* before; a stopped format does at most the step it was in; and of the formats
\* sent before the client left none that is owed is live.
THEOREM StopsHeardHolds == Spec => []StopsHeard
<1>1. IInv => StopsHeard
  BY DEF IInv, StopsHeard, StopsAtNextCheckpoint, Stops
<1>. QED BY <1>1, Invariant, PTL

\* Of a stop and a settlement the first one stands, an answer is given once and
\* agrees with it, and no older text of the buffer is put over a newer one.
THEOREM OneOutcomeHolds == Spec => OneOutcome
<1>1. IInv /\ [Next]_vars => [\A n \in DOMAIN reqs : Sticks(n)]_vars
  BY StepProper DEF Proper, Decided
<1>2. IInv /\ [Next]_vars => [\A n \in DOMAIN reqs : Final(n)]_vars
  BY StepProper DEF Proper, Decided
<1>3. IInv /\ [Next]_vars => [disk' >= disk]_vars
  BY StepProper DEF Proper, Decided
<1>. QED BY <1>1, <1>2, <1>3, Invariant, PTL DEF Spec, OneOutcome, StopSticks, AnsweredOnce, DiskMovesForward

\* The transport implements RequestLine: requests are answered in the order in
\* which they came, and only the end of the line is ever dropped.
THEOREM InOrderHolds == Spec => InOrder
<1>1. Init => Client!Init
  BY InitKeeps DEF Client!Init, Standing, Served
<1>2. IInv /\ [Next]_vars => [Client!Next]_<<Standing, Served>>
  BY StepProper DEF Proper
<1>. QED BY <1>1, <1>2, Invariant, PTL DEF Spec, InOrder, Client!Spec, Standing, Served
=============================================================================
