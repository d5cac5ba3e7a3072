---------------------------- MODULE LspTransport ----------------------------
(***************************************************************************)
(* The language server's transport and its format request (internal/lsp).  *)
(* A reader goroutine owns stdin and the open document, registers requests *)
(* and queues them; one worker runs them in order; a signal handler may    *)
(* call Stop.  A cancel, shutdown, exit or the end of the session stops a  *)
(* request, which notices at its next checkpoint unless it has settled.    *)
(***************************************************************************)
EXTENDS Naturals, Sequences, FiniteSets, SequencesExt

CONSTANTS
  Ids,          \* request ids the client uses, 1 .. n
  Groups,       \* how many priority groups a plan can have; a plan without any ends at the preflight
  Bounds        \* bounds of the model: how many, together, of what is sent

Kinds    == {"initialize", "formatting", "shutdown", "other"}
Counters == Kinds \cup {"cancels", "changes", "stops"}

ASSUME LspAssumption ==
  /\ Ids \subseteq Nat \ {0}
  /\ Groups \in Nat \ {0}
  /\ Bounds \subseteq [Counters -> Nat]

VARIABLES
  reader,       \* "read", between registering and queueing, aborting, or gone
  stopper,      \* what the goroutine that called Stop is doing
  reqs,         \* every request read, in order; answer, asked and late are history
  registry,     \* the request registered under each id, 0 for none
  queue,        \* request numbers, 0 for exit
  closed,       \* the queue takes nothing more
  shutdownRead,
  worker,       \* what the worker is doing, and to which request
  initialized, shutdownReceived, exitCode,
  docs,         \* the text of the open document, 0 when it is not open
  disk,         \* the text last written from a buffer
  leaving,      \* history: how many requests had been read when the client left
  sent          \* how many of each have been sent

session == <<initialized, shutdownReceived, exitCode>>
client  == <<docs, disk, leaving, sent>>
vars    == <<reader, stopper, reqs, registry, queue, closed, shutdownRead, worker,
             session, client>>

Sends(c) == /\ sent' = [sent EXCEPT ![c] = @ + 1]
            /\ \E bound \in Bounds : \A x \in Counters : sent'[x] <= bound[x]

\* FormatFile's steps, each after a checkpoint; a clean buffer skips the write.
NextStep == [plan |-> "preflight", preflight |-> "ensure", ensure |-> "compare",
             compare |-> "write", write |-> "group", group |-> "group"]

Idle == [phase |-> "pop", req |-> 0, step |-> "plan", ran |-> 0, text |-> 0,
         outcome |-> "none"]

Request(id, kind) == [id |-> id, kind |-> kind, state |-> "live", snap |-> docs,
                      wrote |-> FALSE, late |-> 0, answer |-> "none"]

Init ==
  /\ reader = "read"
  /\ stopper = "idle"
  /\ reqs = <<>>
  /\ registry = [id \in Ids |-> 0]
  /\ queue = <<>>
  /\ closed = FALSE
  /\ shutdownRead = FALSE
  /\ worker = Idle
  /\ initialized = FALSE /\ shutdownReceived = FALSE /\ exitCode = 0
  /\ docs = 0 /\ disk = 0 /\ leaving = 0
  /\ sent = [c \in Counters |-> 0]

Registered == {registry[id] : id \in Ids} \ {0}
Awaited    == {n \in DOMAIN reqs : reqs[n].answer = "none"}

\* request.stop: a settled request is no longer stopped.
Stopped(r) == IF r.state = "live" THEN [r EXCEPT !.state = "stopped"] ELSE r
StopAll(who) == [n \in DOMAIN reqs |-> IF n \in who THEN Stopped(reqs[n]) ELSE reqs[n]]

StopFormatting == StopAll({n \in Registered : reqs[n].kind = "formatting"})

(***************************************************************************)
(* The reader.                                                             *)
(***************************************************************************)
Reading == reader = "read" /\ ~closed

\* A client does not use an id again before it has seen the answer; ids are numbered
\* by their first use.
ReadRequest(id, kind) ==
  LET leaves == kind = "shutdown"
      held   == IF leaves THEN StopFormatting ELSE reqs
      n      == Len(reqs) + 1
  IN  /\ Reading
      /\ Sends(kind)
      /\ \A m \in Awaited : reqs[m].id # id
      /\ 1 .. id - 1 \subseteq {r.id : r \in ToSet(reqs)}
      /\ reqs' = Append(held, Request(id, kind))
      /\ registry' = [registry EXCEPT ![id] = n]
      /\ shutdownRead' = (shutdownRead \/ leaves)
      /\ leaving' = IF leaves THEN Len(reqs) ELSE leaving
      /\ reader' = "push"
      /\ UNCHANGED <<stopper, queue, closed, worker, session, docs, disk>>

\* Mutant of Enqueued: the newest request goes first.
EnqueuedFirst(n) == <<n>> \o queue

Enqueued(n) == Append(queue, n)

\* Mutant of Push: the queue takes a request also after it was closed.
PushAlways ==
  /\ reader = "push"
  /\ reader' = "read"
  /\ queue' = Enqueued(Len(reqs))
  /\ UNCHANGED <<stopper, reqs, registry, closed, shutdownRead, worker, session, client>>

\* push: a queue that was closed meanwhile drops the request.
Push ==
  LET n == Len(reqs)
  IN  /\ reader = "push"
      /\ reader' = "read"
      /\ IF closed THEN /\ reqs' = [reqs EXCEPT ![n].answer = "dropped"]
                        /\ UNCHANGED queue
                   ELSE /\ queue' = Enqueued(n)
                        /\ UNCHANGED reqs
      /\ UNCHANGED <<stopper, registry, closed, shutdownRead, worker, session, client>>

ReadCancel(id) ==
  /\ Reading
  /\ Sends("cancels")
  /\ reqs' = StopAll({registry[id]})
  /\ UNCHANGED <<reader, stopper, registry, queue, closed, shutdownRead, worker, session,
                 docs, disk, leaving>>

\* didOpen and didChange carry the whole new text, didClose forgets it.
ReadChange(open) ==
  /\ Reading
  /\ Sends("changes")
  /\ docs' = IF open THEN sent'["changes"] ELSE 0
  /\ UNCHANGED <<reader, stopper, reqs, registry, queue, closed, shutdownRead, worker,
                 session, disk, leaving>>

ReadExit ==
  /\ Reading
  /\ reqs' = IF shutdownRead THEN reqs ELSE StopFormatting
  /\ leaving' = IF shutdownRead THEN leaving ELSE Len(reqs)
  /\ reader' = "exit"
  /\ UNCHANGED <<stopper, registry, queue, closed, shutdownRead, worker, session, docs,
                 disk, sent>>

PushExit ==
  /\ reader = "exit"
  /\ reader' = "gone"
  /\ queue' = IF closed THEN queue ELSE Append(queue, 0)
  /\ closed' = TRUE
  /\ UNCHANGED <<stopper, reqs, registry, shutdownRead, worker, session, client>>

\* stdin ends or its framing breaks.
ReadEnd ==
  /\ Reading
  /\ reader' = "stopAll"
  /\ UNCHANGED <<stopper, reqs, registry, queue, closed, shutdownRead, worker, session,
                 client>>

ReaderLeaves ==
  /\ reader = "read" /\ closed
  /\ reader' = "gone"
  /\ UNCHANGED <<stopper, reqs, registry, queue, closed, shutdownRead, worker, session,
                 client>>

(***************************************************************************)
(* abort, by the reader or by Stop: stop what is registered, then close    *)
(* the queue and drop what is in it.                                       *)
(***************************************************************************)
StopCalled ==
  /\ stopper = "idle"
  /\ Sends("stops")
  /\ stopper' = "stopAll"
  /\ UNCHANGED <<reader, reqs, registry, queue, closed, shutdownRead, worker, session,
                 docs, disk, leaving>>

AbortStops ==
  /\ \/ reader = "stopAll" /\ reader' = "drain" /\ UNCHANGED stopper
     \/ stopper = "stopAll" /\ stopper' = "drain" /\ UNCHANGED reader
  /\ reqs' = StopAll(Registered)
  /\ UNCHANGED <<registry, queue, closed, shutdownRead, worker, session, client>>

AbortDrains ==
  LET dropped == ToSet(queue)
  IN  /\ \/ reader = "drain" /\ reader' = "gone" /\ UNCHANGED stopper
         \/ stopper = "drain" /\ stopper' = "done" /\ UNCHANGED reader
      /\ closed' = TRUE
      /\ queue' = <<>>
      /\ reqs' = [n \in DOMAIN reqs |->
                    IF n \in dropped THEN [reqs[n] EXCEPT !.answer = "dropped"] ELSE reqs[n]]
      /\ registry' = [id \in Ids |-> IF registry[id] \in dropped THEN 0 ELSE registry[id]]
      /\ UNCHANGED <<shutdownRead, worker, session, client>>

(***************************************************************************)
(* The worker.                                                             *)
(***************************************************************************)
Running   == reqs[worker.req]
At(phase) == worker.phase = phase
Answered(answer) == [reqs EXCEPT ![worker.req].answer = answer]

Pop ==
  /\ At("pop") /\ queue # <<>> /\ Head(queue) # 0
  /\ queue' = Tail(queue)
  /\ LET n == Head(queue)
     IN  IF reqs[n].state = "stopped"
         THEN /\ reqs' = [reqs EXCEPT ![n].answer = "cancelled"]
              /\ worker' = [Idle EXCEPT !.phase = "finish", !.req = n]
         ELSE /\ worker' = [Idle EXCEPT !.phase = "dispatch", !.req = n]
              /\ UNCHANGED reqs
  /\ UNCHANGED <<reader, stopper, registry, closed, shutdownRead, session, client>>

PopExit ==
  /\ At("pop") /\ queue # <<>> /\ Head(queue) = 0
  /\ queue' = Tail(queue)
  /\ exitCode' = IF shutdownReceived THEN 0 ELSE 1
  /\ worker' = [Idle EXCEPT !.phase = "done"]
  /\ UNCHANGED <<reader, stopper, reqs, registry, closed, shutdownRead, initialized,
                 shutdownReceived, client>>

PopClosed ==
  /\ At("pop") /\ queue = <<>> /\ closed
  /\ worker' = [Idle EXCEPT !.phase = "done"]
  /\ UNCHANGED <<reader, stopper, reqs, registry, queue, closed, shutdownRead, session,
                 client>>

\* What dispatch answers on the spot.
Verdict(kind) ==
  IF ~initialized /\ kind # "initialize" THEN "notReady"
  ELSE IF shutdownReceived THEN "invalid"
  ELSE IF kind = "other" THEN "methodNotFound"
  ELSE IF kind \in {"initialize", "shutdown"} THEN "ok"
  ELSE "none"

DispatchAnswers ==
  LET verdict == Verdict(Running.kind)
  IN  /\ At("dispatch") /\ verdict # "none"
      /\ reqs' = Answered(verdict)
      /\ worker' = [worker EXCEPT !.phase = "finish"]
      /\ initialized' = (initialized \/ Running.kind = "initialize")
      /\ shutdownReceived' = (shutdownReceived \/ <<verdict, Running.kind>> = <<"ok", "shutdown">>)
      /\ UNCHANGED <<reader, stopper, registry, queue, closed, shutdownRead, exitCode,
                     client>>

Turn(next) ==
  /\ worker' = next
  /\ UNCHANGED <<reader, stopper, registry, queue, closed, shutdownRead, session, docs,
                 leaving, sent>>

Replying(outcome) == [worker EXCEPT !.phase = "reply", !.outcome = outcome]

\* onFormatting: parameters that do not parse, a document outside the root, no
\* session, or nothing to read; else FormatFile on the text the request carries.
DispatchFormatting ==
  /\ At("dispatch") /\ Verdict(Running.kind) = "none"
  /\ LET text == IF Running.snap = 0 THEN disk ELSE Running.snap
     IN  \/ \E outcome \in {"failed", "edits"} : Turn(Replying(outcome))
         \/ Turn([worker EXCEPT !.phase = "check", !.text = text])
  /\ UNCHANGED <<reqs, disk>>

\* Mutant of Checkpoint: no checkpoint before a priority group.
CheckpointNotGroups ==
  /\ At("check")
  /\ IF Running.state = "stopped" /\ worker.step # "group"
     THEN Turn(Replying("cancelled"))
     ELSE \/ Turn([worker EXCEPT !.phase = "do"])
          \/ /\ worker.step = "preflight" \/ (worker.step = "group" /\ worker.ran > 0)
             /\ Turn([worker EXCEPT !.phase = "settle"])
  /\ UNCHANGED <<reqs, disk>>

\* A checkpoint: stop, or end early (no tool applies; the watchdog), or go on.
Checkpoint ==
  /\ At("check")
  /\ IF Running.state = "stopped"
     THEN Turn(Replying("cancelled"))
     ELSE \/ Turn([worker EXCEPT !.phase = "do"])
          \/ /\ worker.step = "preflight" \/ (worker.step = "group" /\ worker.ran > 0)
             /\ Turn([worker EXCEPT !.phase = "settle"])
  /\ UNCHANGED <<reqs, disk>>

Late(r) == IF r.state = "stopped" THEN [r EXCEPT !.late = @ + 1] ELSE r
DoneBy(effect) == [reqs EXCEPT ![worker.req] = Late(effect)]
Then(step) == [worker EXCEPT !.phase = "check", !.step = step]

StepFails ==
  /\ At("do") /\ worker.step # "compare"
  /\ Turn(Replying("failed"))
  /\ reqs' = DoneBy(Running)
  /\ UNCHANGED disk

\* Planning, the preflight, the tool installs, the comparison with the disk.
Prepare ==
  /\ At("do") /\ worker.step \notin {"write", "group"}
  /\ \/ Turn(Then(NextStep[worker.step]))
     \/ worker.step = "compare" /\ Turn(Then("group"))
  /\ reqs' = DoneBy(Running)
  /\ UNCHANGED disk

PersistBuffer ==
  /\ At("do") /\ worker.step = "write"
  /\ Turn(Then("group"))
  /\ disk' = worker.text
  /\ reqs' = DoneBy([Running EXCEPT !.wrote = TRUE])

MoreGroups(ran) == ran < Groups

\* One priority group runs its tools to completion; after the last, settle.
RunGroup ==
  LET ran == worker.ran + 1
  IN  /\ At("do") /\ worker.step = "group"
      /\ \/ MoreGroups(ran) /\ Turn([worker EXCEPT !.phase = "check", !.ran = ran])
         \/ Turn([worker EXCEPT !.phase = "settle", !.ran = ran])
      /\ reqs' = DoneBy(Running)
      /\ UNCHANGED disk

\* Mutant of Settle: a plain store.
SettleStores ==
  /\ At("settle")
  /\ Turn(Replying("edits"))
  /\ reqs' = [reqs EXCEPT ![worker.req].state = "settled"]
  /\ UNCHANGED disk

\* settle is a compare-and-swap; after it the fixed file may be unreadable.
Settle ==
  /\ At("settle")
  /\ IF Running.state = "stopped"
     THEN Turn(Replying("cancelled")) /\ UNCHANGED reqs
     ELSE /\ \E outcome \in {"edits", "failed"} : Turn(Replying(outcome))
          /\ reqs' = [reqs EXCEPT ![worker.req].state = "settled"]
  /\ UNCHANGED disk

Reply ==
  /\ At("reply")
  /\ Turn([worker EXCEPT !.phase = "finish"])
  /\ reqs' = Answered(IF Running.state = "stopped" THEN "cancelled" ELSE worker.outcome)
  /\ UNCHANGED disk

\* Mutant of FinishedWith: whatever stands under the id is forgotten.
FinishedById(n) == [registry EXCEPT ![reqs[n].id] = 0]

\* finish forgets the request unless its id is already another's.
FinishedWith(n) == IF registry[reqs[n].id] = n THEN [registry EXCEPT ![reqs[n].id] = 0]
                                               ELSE registry

Finish ==
  /\ At("finish")
  /\ registry' = FinishedWith(worker.req)
  /\ worker' = Idle
  /\ UNCHANGED <<reader, stopper, reqs, queue, closed, shutdownRead, session, client>>

Read == \/ \E id \in Ids, kind \in Kinds : ReadRequest(id, kind)
        \/ \E id \in Ids : ReadCancel(id)
        \/ \E open \in BOOLEAN : ReadChange(open)
        \/ ReadExit
        \/ ReadEnd

Reader == Push \/ PushExit \/ ReaderLeaves
Abort  == AbortStops \/ AbortDrains
Worker == \/ Pop \/ PopExit \/ PopClosed
          \/ DispatchAnswers \/ DispatchFormatting
          \/ Checkpoint \/ StepFails \/ Prepare \/ PersistBuffer \/ RunGroup
          \/ Settle \/ Reply \/ Finish

Next == Read \/ Reader \/ StopCalled \/ Abort \/ Worker

Spec     == Init /\ [][Next]_vars
FairSpec == Spec /\ WF_vars(Reader) /\ WF_vars(Abort) /\ WF_vars(Worker)

(***************************************************************************)
(* Properties.                                                             *)
(***************************************************************************)
Total(counts) == counts["initialize"] + counts["formatting"] + counts["shutdown"] + counts["other"]

Answers == {"none", "dropped", "cancelled", "notReady", "invalid", "methodNotFound",
            "ok", "edits", "failed"}

RequestType == [id : Ids, kind : Kinds, state : {"live", "stopped", "settled"},
                snap : Nat, wrote : BOOLEAN, late : Nat, answer : Answers]
Phases      == {"pop", "dispatch", "check", "do", "settle", "reply", "finish", "done"}
WorkerType  == [phase : Phases, req : 0 .. Len(reqs), step : DOMAIN NextStep, ran : 0 .. Groups,
                text : Nat, outcome : {"none", "cancelled", "edits", "failed"}]

\* The state has its type.
TypeOK ==
  /\ reader \in {"read", "push", "exit", "stopAll", "drain", "gone"}
  /\ stopper \in {"idle", "stopAll", "drain", "done"}
  /\ reqs \in Seq(RequestType)
  /\ Len(reqs) = Total(sent)
  /\ registry \in [Ids -> 0 .. Len(reqs)]
  /\ queue \in Seq(0 .. Len(reqs))
  /\ worker \in WorkerType
  /\ {closed, shutdownRead, initialized, shutdownReceived} \subseteq BOOLEAN
  /\ exitCode \in {0, 1}
  /\ {docs, disk, leaving} \subseteq Nat
  /\ sent \in [Counters -> Nat]

\* A request the client still waits for is found under its id, so a cancel, a
\* shutdown or the end of the session reaches it; also when the id was used
\* before and that request's finish comes after the new one was registered.
Cancellable == \A n \in Awaited : registry[reqs[n].id] = n

\* A stopped format goes no further than its next checkpoint: it does at most
\* the one step it was in, wherever the stop fell.
StopsAtNextCheckpoint == \A n \in DOMAIN reqs : reqs[n].late <= 1

\* A client that leaves does not wait for its formats: of those it sent before
\* shutdown or exit, none the server still owes is live.
LeavingStops ==
  \A n \in Awaited : n <= leaving /\ reqs[n].kind = "formatting" => reqs[n].state # "live"

\* A stop and a settlement exclude each other: a stopped request is never
\* settled, and a format that reached its handler is answered as cancelled,
\* whatever it had come to; a settled one keeps its answer under any later stop.
Sticks(n) ==
  /\ reqs[n].state # "live" => reqs'[n].state = reqs[n].state
  /\ reqs[n].state = "settled" => reqs'[n].answer # "cancelled"
  /\ reqs[n].state = "stopped" /\ reqs[n].kind = "formatting" /\ reqs'[n].answer # reqs[n].answer
       => reqs'[n].answer \in {"cancelled", "dropped", "notReady", "invalid"}
StopSticks == [][\A n \in DOMAIN reqs : Sticks(n)]_vars

\* No request is answered twice, and none that was dropped is answered.
Final(n)     == reqs[n].answer # "none" => reqs'[n].answer = reqs[n].answer
AnsweredOnce == [][\A n \in DOMAIN reqs : Final(n)]_vars

\* The disk never goes back: a format does not put the buffer's text of one
\* moment over a later one an earlier format wrote.
DiskMovesForward == [][disk' >= disk]_vars

\* Requests are answered in the order they came, and only the end of the line
\* is ever dropped: the transport implements RequestLine.
Queued(n) == reqs[n].answer = "none" /\ ~(reader = "push" /\ n = Len(reqs))
Client == INSTANCE RequestLine WITH
  line     <- {n \in DOMAIN reqs : Queued(n)},
  answered <- {n \in DOMAIN reqs : reqs[n].answer \notin {"none", "dropped"}}
InOrder == Client!Spec

Requests == Max({Total(bound) : bound \in Bounds})

\* Every request is answered or dropped with the session.
EveryRequestAnswered ==
  \A n \in 1 .. Requests : n \in DOMAIN reqs ~> (n \in DOMAIN reqs /\ reqs[n].answer # "none")

\* Once the session has ended the worker comes to rest, so Run returns.
RunReturns == closed ~> At("done")

\* As they are checked.
\* A stop is heard: it finds the request it is for, under an id that was used
\* before too; a stopped format goes no further than its next checkpoint; and a
\* client that leaves has stopped all the formats it sent.
StopsHeard == TypeOK /\ Cancellable /\ StopsAtNextCheckpoint /\ LeavingStops

\* Nothing is taken back: of stopped and settled the one that won stands, and the
\* answer that agrees with it; and no older text of the buffer replaces a newer.
OneOutcome == StopSticks /\ AnsweredOnce /\ DiskMovesForward

\* Nobody is left waiting: neither a client for an answer nor Run for its worker.
NobodyWaits == EveryRequestAnswered /\ RunReturns
=============================================================================
