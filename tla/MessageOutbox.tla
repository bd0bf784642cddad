--------------------------- MODULE MessageOutbox ---------------------------
(***************************************************************************)
(* The durable intake queue of the bridge                                  *)
(* (backend/app/application/services/message_outbox_service.py).           *)
(*                                                                         *)
(* A phone posts a turn under an id it chose.  The row is written to       *)
(* SQLite, a pool thread prepares it (stage gate, transcription) and hands *)
(* it to MessageService.submit_message, which starts an execution and only *)
(* then saves the turn in another database, the chat store.  The process   *)
(* may stop between any two commits.                                       *)
(*                                                                         *)
(* Every critical section of the service's RLock is one action.  The       *)
(* fingerprint of a row is not modelled: an id stands for its first        *)
(* content, and a second content under the same id is refused with no      *)
(* effect.  So is a repeated POST of the same content, which only reads.   *)
(***************************************************************************)
EXTENDS Naturals, FiniteSets

CONSTANTS
  Intake,     \* submission ids the clients may use
  Lane,       \* conversations: session_id, or conversation_key before one exists
  LaneOf,     \* the lane in the payload posted under each id
  Worker,     \* the pool's threads; _limit is their number
  Capacity,   \* open rows the server keeps (1000 in the code)
  NoIntake    \* what a thread without a task is processing

ASSUME IntakeAssumption == IsFiniteSet(Intake) /\ NoIntake \notin Intake
ASSUME LaneAssumption == LaneOf \in [Intake -> Lane]
ASSUME WorkerAssumption == IsFiniteSet(Worker) /\ Worker # {}
ASSUME CapacityAssumption == Capacity \in Nat \ {0}

VARIABLES
  phase,      \* the process: "down", "starting", "serving", "closing"
  state,      \* message_intake.state, durable; "absent" when there is no row
  seq,        \* message_intake.sequence, durable; 0 when there is no row
  lastSeq,    \* the AUTOINCREMENT counter, durable
  active,     \* _active
  pool,       \* tasks submitted to the executor and not yet started
  pc,         \* what each pool thread is doing in _process
  row,        \* the intake each pool thread is processing
  executed,   \* how often the service began to execute the intake
  saved       \* the chat store holds the intake's turn, durable

vars == <<phase, state, seq, lastSeq, active, pool, pc, row, executed, saved>>

Limit == Cardinality(Worker)

Settled == {"accepted", "discarded"}
Held == {"queued", "transcribing", "submitting", "failed", "uncertain"}
States == {"absent"} \cup Held \cup Settled
PCs == {"idle", "preparing", "calling", "executing", "returned", "raised", "finishing", "waking"}
InHandler == {"preparing", "calling", "executing", "returned", "raised", "finishing"}

Busy == {w \in Worker : pc[w] \in InHandler}
Open(st) == {i \in Intake : st[i] \in Held}
Before(i, j, sq) == LaneOf[i] = LaneOf[j] /\ 0 < sq[i] /\ sq[i] < sq[j]

-----------------------------------------------------------------------------
(* wake(): hand the heads of the free lanes to the pool, oldest first.      *)

Runnable(st, sq) ==
  {i \in Intake : /\ st[i] = "queued"
                  /\ \A j \in Intake : Before(j, i, sq) => st[j] \notin Held}

\* (Faulty forms of a definition, here and below, carry the name of their
\* fault.  No action uses them: they are what the properties must notice.)
FitsOffByOne(tasks) == tasks <= Limit + 1
Fits(tasks) == tasks <= Limit

\* One call of wake() on rows st numbered by sq, with act tasks counted.  The
\* loop runs under the lock: T is the set of rows it takes.
Wake(st, sq, act) ==
  IF phase = "closing"
  THEN state' = st /\ active' = act /\ UNCHANGED pool
  ELSE \E T \in SUBSET Runnable(st, sq) :
         /\ Fits(act + Cardinality(T))
         /\ T = Runnable(st, sq) \/ ~Fits(act + Cardinality(T) + 1)
         /\ \A i \in T, j \in Runnable(st, sq) \ T : sq[i] < sq[j]
         /\ state' = [i \in Intake |-> IF i \in T THEN "transcribing" ELSE st[i]]
         /\ active' = act + Cardinality(T)
         /\ pool' = pool \cup T

-----------------------------------------------------------------------------
(* The requests.  Each one ends with wake(), after it released the lock; as *)
(* any wake() in between does what this one would, the two are one step.    *)

Requests == phase \in {"serving", "closing"}

HasRoom(st) == Cardinality(Open(st)) < Capacity

\* POST /message-outbox/{id} with an id that has no row.  A turn the chat
\* store already holds is acknowledged and never queued.
Accept(i) ==
  /\ Requests
  /\ state[i] = "absent"
  /\ HasRoom(state)
  /\ lastSeq' = lastSeq + 1
  /\ seq' = [seq EXCEPT ![i] = lastSeq + 1]
  /\ Wake([state EXCEPT ![i] = IF saved[i] THEN "accepted" ELSE "queued"], seq', active)
  /\ UNCHANGED <<phase, pc, row, executed, saved>>

Retried(s) == IF s = "failed" THEN "queued" ELSE s

\* POST .../retry: refused for an uncertain row; a row that has not failed
\* keeps its state.
Retry(i) ==
  /\ Requests
  /\ state[i] \notin {"absent", "uncertain"}
  /\ Wake([state EXCEPT ![i] = Retried(@)], seq, active)
  /\ UNCHANGED <<phase, seq, lastSeq, pc, row, executed, saved>>

Discardable(s) == s \in {"failed", "uncertain", "queued", "discarded"}

\* POST .../discard.
Discard(i) ==
  /\ Requests
  /\ Discardable(state[i])
  /\ Wake([state EXCEPT ![i] = "discarded"], seq, active)
  /\ UNCHANGED <<phase, seq, lastSeq, pc, row, executed, saved>>

-----------------------------------------------------------------------------
(* _process, run by a pool thread.                                          *)

\* A pool thread takes a task.  The executor is first in first out; at most
\* Limit tasks are counted, so the order between them is left open.
StartTask(w, i) ==
  /\ pc[w] = "idle"
  /\ i \in pool
  /\ pool' = pool \ {i}
  /\ row' = [row EXCEPT ![w] = i]
  /\ pc' = [pc EXCEPT ![w] = "preparing"]
  /\ UNCHANGED <<phase, state, seq, lastSeq, active, executed, saved>>

\* The gate, the drain check or the transcription raised: the handler finds
\* that submission had not begun.
PrepareFails(w) ==
  /\ pc[w] = "preparing"
  /\ state' = [state EXCEPT ![row[w]] = "failed"]
  /\ pc' = [pc EXCEPT ![w] = "finishing"]
  /\ UNCHANGED <<phase, seq, lastSeq, active, pool, row, executed, saved>>

\* The mark that makes a crash recognisable is committed before the call.
MarkSubmitting(w) ==
  /\ pc[w] = "preparing"
  /\ state' = [state EXCEPT ![row[w]] = "submitting"]
  /\ pc' = [pc EXCEPT ![w] = "calling"]
  /\ UNCHANGED <<phase, seq, lastSeq, active, pool, row, executed, saved>>

\* submit_message raised before it started anything (drain, unknown session).
SubmitRefused(w) ==
  /\ pc[w] = "calling"
  /\ pc' = [pc EXCEPT ![w] = "raised"]
  /\ UNCHANGED <<phase, state, seq, lastSeq, active, pool, row, executed, saved>>

\* _start_job: the provider runs the turn, which no database knows yet.
Execute(w) ==
  /\ pc[w] = "calling"
  /\ executed' = [executed EXCEPT ![row[w]] = @ + 1]
  /\ pc' = [pc EXCEPT ![w] = "executing"]
  /\ UNCHANGED <<phase, state, seq, lastSeq, active, pool, row, saved>>

\* save_turn, then the return.  The turn may go unsaved (save_turn reports an
\* integrity error by a result nobody reads), and what follows it may raise.
SaveTurn(w) ==
  /\ pc[w] = "executing"
  /\ \E stored \in BOOLEAN : saved' = [saved EXCEPT ![row[w]] = @ \/ stored]
  /\ \E next \in {"returned", "raised"} : pc' = [pc EXCEPT ![w] = next]
  /\ UNCHANGED <<phase, state, seq, lastSeq, active, pool, row, executed>>

\* _complete after a normal return.
Complete(w) ==
  /\ pc[w] = "returned"
  /\ state' = [state EXCEPT ![row[w]] = "accepted"]
  /\ pc' = [pc EXCEPT ![w] = "finishing"]
  /\ UNCHANGED <<phase, seq, lastSeq, active, pool, row, executed, saved>>

OutcomeAssumingDelivery(found) == "accepted"
OutcomeAssumingRefusal(found) == IF found THEN "accepted" ELSE "failed"

\* What is known of a submission that began, given what the lookup found.
Outcome(found) == IF found THEN "accepted" ELSE "uncertain"

\* The handler after submission began.  The lookup finds a saved turn unless
\* it raises, which _recover_submission turns into "not found".
Reconcile(w) ==
  /\ pc[w] = "raised"
  /\ \E found \in BOOLEAN : /\ found => saved[row[w]]
                           /\ state' = [state EXCEPT ![row[w]] = Outcome(found)]
  /\ pc' = [pc EXCEPT ![w] = "finishing"]
  /\ UNCHANGED <<phase, seq, lastSeq, active, pool, row, executed, saved>>

\* finally: the slot is given back ...
ReleaseSlot(w) ==
  /\ pc[w] = "finishing"
  /\ active' = active - 1
  /\ pc' = [pc EXCEPT ![w] = "waking"]
  /\ row' = [row EXCEPT ![w] = NoIntake]
  /\ UNCHANGED <<phase, state, seq, lastSeq, pool, executed, saved>>

WakeSkipped(w) ==
  /\ pc[w] = "waking"
  /\ pc' = [pc EXCEPT ![w] = "idle"]
  /\ UNCHANGED <<phase, state, seq, lastSeq, active, pool, row, executed, saved>>

\* ... and then offered.
WakeNext(w) ==
  /\ pc[w] = "waking"
  /\ pc' = [pc EXCEPT ![w] = "idle"]
  /\ Wake(state, seq, active)
  /\ UNCHANGED <<phase, seq, lastSeq, row, executed, saved>>

-----------------------------------------------------------------------------
(* The process.                                                             *)

NoThreads ==
  /\ active' = 0
  /\ pool' = {}
  /\ pc' = [w \in Worker |-> "idle"]
  /\ row' = [w \in Worker |-> NoIntake]

\* The process dies: what it held in memory is gone, the databases stay.
Crash ==
  /\ phase # "down"
  /\ phase' = "down"
  /\ NoThreads
  /\ UNCHANGED <<state, seq, lastSeq, executed, saved>>

RecoveredByResubmitting(s, found) ==
  IF s \in {"transcribing", "submitting"} THEN "queued" ELSE s

\* What __init__ makes of a row: transcription is repeated, a submission is
\* looked up and never repeated.
Recovered(s, found) ==
  CASE s = "transcribing" -> "queued"
    [] s = "submitting" -> Outcome(found)
    [] OTHER -> s

\* __init__, one transaction.  found are the rows whose lookup succeeded.
Restart ==
  /\ phase = "down"
  /\ phase' = "starting"
  /\ \E found \in SUBSET {i \in Intake : saved[i]} :
       state' = [i \in Intake |-> Recovered(state[i], i \in found)]
  /\ UNCHANGED <<seq, lastSeq, active, pool, pc, row, executed, saved>>

\* resume_message_outbox: the first wake(), before any request is served.
Resume ==
  /\ phase = "starting"
  /\ phase' = "serving"
  /\ Wake(state, seq, active)
  /\ UNCHANGED <<seq, lastSeq, pc, row, executed, saved>>

\* close() forbids new tasks, then waits for the threads.
Close ==
  /\ phase = "serving"
  /\ phase' = "closing"
  /\ UNCHANGED <<state, seq, lastSeq, active, pool, pc, row, executed, saved>>

Stop ==
  /\ phase = "closing"
  /\ pool = {}
  /\ \A w \in Worker : pc[w] = "idle"
  /\ phase' = "down"
  /\ UNCHANGED <<state, seq, lastSeq, active, pool, pc, row, executed, saved>>

-----------------------------------------------------------------------------
\* The chat store may already hold turns of an earlier outbox file.
Init ==
  /\ phase = "down"
  /\ state = [i \in Intake |-> "absent"]
  /\ seq = [i \in Intake |-> 0]
  /\ lastSeq = 0
  /\ active = 0
  /\ pool = {}
  /\ pc = [w \in Worker |-> "idle"]
  /\ row = [w \in Worker |-> NoIntake]
  /\ saved \in [Intake -> BOOLEAN]
  /\ executed = [i \in Intake |-> IF saved[i] THEN 1 ELSE 0]

Process(w) ==
  \/ \E i \in Intake : StartTask(w, i)
  \/ PrepareFails(w) \/ MarkSubmitting(w)
  \/ SubmitRefused(w) \/ Execute(w) \/ SaveTurn(w)
  \/ Complete(w) \/ Reconcile(w)
  \/ ReleaseSlot(w) \/ WakeNext(w)

Next ==
  \/ \E i \in Intake : Accept(i) \/ Retry(i) \/ Discard(i)
  \/ \E w \in Worker : Process(w)
  \/ Crash \/ Restart \/ Resume \/ Close \/ Stop

Spec == Init /\ [][Next]_vars

\* The executor runs every task it was given, in order, and _process always
\* returns (a transcription and a submission end or raise); a process that is
\* down is started again.
Fairness ==
  /\ \A w \in Worker : WF_vars(Process(w))
  /\ \A i \in Intake : SF_vars(\E w \in Worker : StartTask(w, i))
  /\ WF_vars(Restart) /\ WF_vars(Resume) /\ WF_vars(Stop)

FairSpec == Spec /\ Fairness

-----------------------------------------------------------------------------
(* Properties.                                                              *)

\* Every variable has its type.
TypeOK ==
  /\ phase \in {"down", "starting", "serving", "closing"}
  /\ state \in [Intake -> States]
  /\ seq \in [Intake -> Nat]
  /\ lastSeq \in Nat
  /\ active \in Nat
  /\ pool \in SUBSET Intake
  /\ pc \in [Worker -> PCs]
  /\ row \in [Worker -> Intake \cup {NoIntake}]
  /\ executed \in [Intake -> Nat]
  /\ saved \in [Intake -> BOOLEAN]

\* An intake is executed at most once, whatever crashes, retries, lookups that
\* fail and repeated posts happen on the way.
AtMostOneExecution == \A i \in Intake : executed[i] <= 1

\* A row that a retry or a restart may still run has never been executed:
\* "before submission, retrying is safe".
RetryIsSafe ==
  \A i \in Intake : state[i] \in {"queued", "transcribing", "failed"} => executed[i] = 0

\* An acknowledged turn was really executed, and is reported accepted to the
\* client only then.
AcceptedWasExecuted ==
  \A i \in Intake : state[i] = "accepted" => executed[i] = 1

\* One pending intake per conversation is processed at a time: two pool
\* threads, or a thread and a waiting task, are never in the same lane.
OneInFlightPerLane ==
  \A i, j \in Intake :
    (i # j /\ LaneOf[i] = LaneOf[j]) =>
      ~(state[i] \in {"transcribing", "submitting"} /\ state[j] \in {"transcribing", "submitting"})

\* The counter that bounds the pool counts exactly the tasks that are waiting
\* or running; a slot is neither leaked nor given back twice.
ActiveCountsTasks ==
  /\ active = Cardinality(pool) + Cardinality(Busy)
  /\ active <= Limit

\* The table never holds more than Capacity open rows.
OpenRowsBounded == Cardinality(Open(state)) <= Capacity

\* No wake-up is lost: a row that could run while a slot is free is about to be
\* noticed by a thread on its way out, which has yet to call wake().
NoLostWakeup ==
  (phase = "serving" /\ active < Limit /\ Runnable(state, seq) # {})
    => \E w \in Worker : pc[w] \in {"finishing", "waking"}

\* Turns of a conversation are executed in the order they were accepted, and
\* only past turns that ended: a failed or uncertain turn holds the later ones.
ExecutesInLaneOrder ==
  [][\A i \in Intake : executed'[i] # executed[i] =>
       \A j \in Intake : Before(j, i, seq) => state[j] \in Settled]_vars

\* A discarded turn is never executed afterwards, and a turn that ended keeps
\* its end.
SettledForGood ==
  [][\A i \in Intake : state[i] \in Settled =>
       state'[i] = state[i] /\ executed'[i] = executed[i]]_vars

\* While the process stays up and the clients have stopped retrying failed
\* turns, a turn at the head of its lane does not stay queued.  (A failed turn
\* keeps its place in the table, so endless retries of older turns can keep a
\* younger one waiting for a slot.)
NoMoreRetries == [][\A i \in Intake : Retry(i) => state[i] # "failed"]_vars

HeadProgresses ==
  (<>[](phase = "serving") /\ <>NoMoreRetries) =>
    \A i \in Intake : i \in Runnable(state, seq) ~> i \notin Runnable(state, seq)

-----------------------------------------------------------------------------
(* What the service promises.                                               *)

\* What a row means to the phone.
Receipt(s) ==
  CASE s = "absent" -> "none"
    [] s \in Settled -> s
    [] OTHER -> "pending"

TD == INSTANCE TurnDelivery WITH
        receipt <- [i \in Intake |-> Receipt(state[i])],
        earlier <- [i \in Intake |-> {j \in Intake : Before(j, i, seq)}]

\* Rows, threads, crashes and lookups together deliver turns as TurnDelivery
\* says: each step of the service is one of its steps, or changes nothing a
\* phone could see.
Delivers == TD!Spec

-----------------------------------------------------------------------------
(* What makes the safety properties inductive.                              *)

Running(w) == pc[w] \in InHandler \ {"finishing"}

\* A row exists exactly from its insertion, and sequence numbers are distinct.
RowsNumbered ==
  /\ \A i \in Intake : state[i] = "absent" <=> seq[i] = 0
  /\ \A i \in Intake : seq[i] <= lastSeq
  /\ \A i, j \in Intake : (seq[i] = seq[j] /\ seq[i] # 0) => i = j

\* A task in memory has the row of its progress to itself.
TasksOwnRows ==
  /\ \A w \in Worker : row[w] \in Intake <=> pc[w] \in InHandler
  /\ \A i \in pool : state[i] = "transcribing"
  /\ \A w \in Worker : pc[w] = "preparing" =>
       state[row[w]] = "transcribing" /\ row[w] \notin pool
  /\ \A w \in Worker : pc[w] \in {"calling", "executing", "returned", "raised"} =>
       state[row[w]] = "submitting"
  /\ \A v, w \in Worker : (Running(v) /\ Running(w) /\ row[v] = row[w]) => v = w

\* A process that is down holds no task.
NoTasksWhenDown ==
  phase = "down" => pool = {} /\ active = 0 /\ \A w \in Worker : pc[w] = "idle"

\* Where the one execution of an intake may be.
ExecutionsAccounted ==
  /\ \A i \in Intake : executed[i] <= 1 /\ (saved[i] => executed[i] = 1)
  /\ \A i \in Intake : state[i] = "absent" => (executed[i] = 1 => saved[i])
  /\ \A i \in Intake : state[i] \in {"queued", "transcribing", "failed"} => executed[i] = 0
  /\ \A i \in Intake : state[i] = "accepted" => executed[i] = 1
  /\ \A w \in Worker : pc[w] = "calling" => executed[row[w]] = 0
  /\ \A w \in Worker : pc[w] \in {"executing", "returned"} => executed[row[w]] = 1

\* A row in flight is the oldest unsettled one of its lane.
InFlightIsHead ==
  \A i, j \in Intake :
    (state[i] \in {"transcribing", "submitting"} /\ Before(j, i, seq)) => state[j] \in Settled

\* The inductive invariant: every part is needed by the step of another one.
IInv ==
  /\ TypeOK
  /\ ActiveCountsTasks
  /\ RowsNumbered
  /\ TasksOwnRows
  /\ NoTasksWhenDown
  /\ ExecutionsAccounted
  /\ InFlightIsHead
=============================================================================
