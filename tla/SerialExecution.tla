-------------------------- MODULE SerialExecution --------------------------
(***************************************************************************)
(* LocalExecutionProvider: the turns of a chat share a serial key and run  *)
(* one CLI process after the other.                                        *)
(* (backend/app/infrastructure/execution/local_provider.py)                *)
(*                                                                         *)
(* The dictionaries of the provider change under its lock; everything      *)
(* between two critical sections may interleave: the calls of execute()    *)
(* and cancel_job(), one worker thread per job, one reader thread per      *)
(* process.  Each action is one critical section with the work up to the   *)
(* next one.  The model follows the "codex exec" path.                     *)
(***************************************************************************)
EXTENDS Naturals, FiniteSets

CONSTANTS
  Job,          \* jobs that may be submitted (fresh uuids in the code)
  NoJob,
  Key,          \* serial keys: a chat, or an agent of a chat
  KeyOf,        \* the key each job is submitted with
  Guard,        \* locks held around execute(): the maintenance lock of
                \* submit_message, the recovery guard of a follow-up
  GuardOf,      \* the lock the submitter of each job holds
  Cancellable,  \* the jobs somebody may ask to cancel, each one once
  LateOutput,   \* the jobs whose output may outlive the join of the reader
  Hanging       \* the jobs whose CLI may never end: no timeout is configured
                \* (execution_timeout_seconds is 0 unless an operator sets it)

ASSUME JobAssumption == NoJob \notin Job
ASSUME KeyAssumption == KeyOf \in [Job -> Key]
ASSUME GuardAssumption == GuardOf \in [Job -> Guard]
ASSUME ScopeAssumption ==
  Cancellable \subseteq Job /\ LateOutput \subseteq Job /\ Hanging \subseteq Job

VARIABLES
  status,       \* _states[j].status, "none" while the job is unknown
  queued,       \* _queued_executions
  keyed,        \* the jobs with an entry in _job_serial_keys
  tail,         \* _serial_tails
  succ,         \* _serial_successors
  pred,         \* _serial_predecessors
  submit,       \* the caller of execute()
  worker,       \* the thread of the job
  process,      \* its CLI process
  reading,      \* the reader thread still has output to deliver
  cancel,       \* the request to cancel the job
  sawProcess    \* what that request read from _processes

vars == <<status, queued, keyed, tail, succ, pred, submit, worker, process, reading, cancel, sawProcess>>
links == <<queued, keyed, tail, succ, pred>>

Terminal == {"completed", "failed", "cancelled"}
Statuses == {"none", "pending", "running"} \cup Terminal
SubmitPCs == {"new", "registered", "announced", "waiting", "done"}
WorkerPCs == {"none", "spawned", "preparing", "launching", "launched", "waiting",
              "reaped", "deciding", "handing", "cleaning", "done"}
CancelPCs == {"none", "checked", "handing", "acting", "done"}
Processes == {"none", "live", "registered", "exited"}

\* The lock of a submitter is free when no other call of execute() under it
\* is between its critical sections.
GuardFree(g) == \A j \in Job : GuardOf[j] = g => submit[j] \in {"new", "done"}

-----------------------------------------------------------------------------
(* _set_state, _start_serial_successor, _remove_queued_job.                 *)

\* A cancelled job keeps its state whatever its worker reports.
SetStatus(j, s) ==
  status' = IF status[j] = "cancelled" THEN status ELSE [status EXCEPT ![j] = s]

\* should_start_successor: the job has just become terminal and is not itself
\* waiting for another one.
HandsOver(j) == status[j] \notin Terminal /\ pred[j] = NoJob

\* The successor loses its link and gets a thread, if it is still queued.
\* Without a successor the chat's tail is forgotten.  threads is what the step
\* has made of worker.  (Between the two critical sections of the code only
\* the removal of the successor could matter, and it has been cancelled then:
\* its thread would end at once, in Begin.)
StartSuccessor(j, threads) ==
  LET s == succ[j] IN
  /\ queued' = queued \ {j}
  /\ keyed' = keyed \ {j}
  /\ succ' = [succ EXCEPT ![j] = NoJob]
  /\ pred' = [x \in Job |-> IF x \in {j, s} THEN NoJob ELSE pred[x]]
  /\ tail' = IF s = NoJob /\ j \in keyed /\ tail[KeyOf[j]] = j
             THEN [tail EXCEPT ![KeyOf[j]] = NoJob] ELSE tail
  /\ worker' = IF s \in queued THEN [threads EXCEPT ![s] = "spawned"] ELSE threads

\* (Definitions that carry the name of a fault, as this one, are used by no
\* action: they are what the properties must notice.)
RemoveWithoutRelink(j) ==
  /\ queued' = queued \ {j}
  /\ keyed' = keyed \ {j}
  /\ succ' = [succ EXCEPT ![j] = NoJob]
  /\ pred' = [pred EXCEPT ![j] = NoJob]
  /\ UNCHANGED tail

\* Takes a job out of its chat's list and closes the gap.
RemoveQueued(j) ==
  LET p == pred[j]
      s == succ[j] IN
  /\ queued' = queued \ {j}
  /\ keyed' = keyed \ {j}
  /\ succ' = [x \in Job |-> IF x = j THEN NoJob ELSE IF x = p THEN s ELSE succ[x]]
  /\ pred' = [x \in Job |-> IF x = j THEN NoJob ELSE IF x = s THEN p ELSE pred[x]]
  /\ tail' = IF j \in keyed /\ tail[KeyOf[j]] = j
             THEN [tail EXCEPT ![KeyOf[j]] = IF s # NoJob THEN s ELSE p] ELSE tail

-----------------------------------------------------------------------------
(* execute()                                                                *)

ActiveOnceRunning(p) == p # NoJob /\ status[p] = "running"

\* A tail whose state is not known yet does not count as active.
Active(p) == p # NoJob /\ status[p] \notin Terminal \cup {"none"}

\* The job becomes its chat's tail, behind a tail that is known to be active.
Register(j) ==
  LET p == tail[KeyOf[j]]
      behind == Active(p) IN
  /\ submit[j] = "new"
  /\ GuardFree(GuardOf[j])
  /\ queued' = queued \cup {j}
  /\ keyed' = keyed \cup {j}
  /\ tail' = [tail EXCEPT ![KeyOf[j]] = j]
  /\ IF behind
     THEN succ' = [succ EXCEPT ![p] = j] /\ pred' = [pred EXCEPT ![j] = p]
     ELSE UNCHANGED <<succ, pred>>
  /\ submit' = [submit EXCEPT ![j] = IF behind THEN "waiting" ELSE "registered"]
  /\ UNCHANGED <<status, worker, process, reading, cancel, sawProcess>>

AnnounceForStart(j) ==
  /\ submit[j] \in {"registered", "waiting"}
  /\ SetStatus(j, "pending")
  /\ submit' = [submit EXCEPT ![j] = "announced"]
  /\ UNCHANGED <<links, worker, process, reading, cancel, sawProcess>>

\* The first _set_state, outside the lock.  A job that does not wait is
\* started next.
Announce(j) ==
  /\ submit[j] \in {"registered", "waiting"}
  /\ SetStatus(j, "pending")
  /\ submit' = [submit EXCEPT ![j] = IF @ = "waiting" THEN "done" ELSE "announced"]
  /\ UNCHANGED <<links, worker, process, reading, cancel, sawProcess>>

\* _start_execution: a thread, unless a cancel has removed the job.
Start(j) ==
  /\ submit[j] = "announced"
  /\ submit' = [submit EXCEPT ![j] = "done"]
  /\ worker' = IF j \in queued THEN [worker EXCEPT ![j] = "spawned"] ELSE worker
  /\ UNCHANGED <<status, links, process, reading, cancel, sawProcess>>

-----------------------------------------------------------------------------
(* _run_job and _run_job_with_exec                                          *)

WorkerGoesTo(j, next) == worker' = [worker EXCEPT ![j] = next]

\* _run_job: nothing runs for a job cancelled before its thread began.
Begin(j) ==
  /\ worker[j] = "spawned"
  /\ IF status[j] = "cancelled"
     THEN WorkerGoesTo(j, "done") /\ UNCHANGED status
     ELSE WorkerGoesTo(j, "preparing") /\ SetStatus(j, "running")
  /\ UNCHANGED <<links, submit, process, reading, cancel, sawProcess>>

\* The last look at the state before the process is created.
Prepare(j) ==
  /\ worker[j] = "preparing"
  /\ WorkerGoesTo(j, IF status[j] = "cancelled" THEN "cleaning" ELSE "launching")
  /\ UNCHANGED <<status, links, submit, process, reading, cancel, sawProcess>>

\* An exception that nobody catches ends the thread: the skills cannot be copied
\* or no output file created, the prompt not be encoded, the last message not be
\* decoded.  The job keeps its state, and its place in the queue.
Raise(j) ==
  /\ worker[j] \in {"preparing", "waiting", "deciding"}
  /\ worker[j] = "deciding" => process[j] # "none"
  /\ WorkerGoesTo(j, "cleaning")
  /\ UNCHANGED <<status, links, submit, process, reading, cancel, sawProcess>>

\* Popen, which may fail.
Launch(j) ==
  /\ worker[j] = "launching"
  /\ \/ process' = [process EXCEPT ![j] = "live"] /\ WorkerGoesTo(j, "launched")
     \/ UNCHANGED process /\ WorkerGoesTo(j, "reaped")
  /\ UNCHANGED <<status, links, submit, reading, cancel, sawProcess>>

\* The process becomes visible to cancel_job, and its output is read.
RegisterProcess(j) ==
  /\ worker[j] = "launched"
  /\ process' = [process EXCEPT ![j] = IF @ = "live" THEN "registered" ELSE @]
  /\ reading' = [reading EXCEPT ![j] = TRUE]
  /\ WorkerGoesTo(j, "waiting")
  /\ UNCHANGED <<status, links, submit, cancel, sawProcess>>

\* The reader hands one line to _handle_stdout_line.
ReadLine(j) ==
  /\ reading[j]
  /\ SetStatus(j, "running")
  /\ UNCHANGED <<links, submit, worker, process, reading, cancel, sawProcess>>

\* The CLI ends by itself, or is killed after a timeout if one is configured.
Exit(j) ==
  /\ process[j] = "registered"
  /\ process' = [process EXCEPT ![j] = "exited"]
  /\ UNCHANGED <<status, links, submit, worker, reading, cancel, sawProcess>>

\* The reader reaches the end of the output of a process that ended.
EndOfOutput(j) ==
  /\ reading[j] /\ process[j] = "exited"
  /\ reading' = [reading EXCEPT ![j] = FALSE]
  /\ UNCHANGED <<status, links, submit, worker, process, cancel, sawProcess>>

\* wait() returned and the reader was joined, for one second at most.
Reap(j) ==
  /\ worker[j] = "waiting" /\ process[j] = "exited"
  /\ j \in LateOutput \/ ~reading[j]
  /\ WorkerGoesTo(j, "reaped")
  /\ UNCHANGED <<status, links, submit, process, reading, cancel, sawProcess>>

\* A cancelled job is not completed.
Judge(j) ==
  /\ worker[j] = "reaped"
  /\ WorkerGoesTo(j, IF status[j] = "cancelled" THEN "cleaning" ELSE "deciding")
  /\ UNCHANGED <<status, links, submit, process, reading, cancel, sawProcess>>

DecideHandingOverSuccess(j) ==
  /\ worker[j] = "deciding"
  /\ \E s \in {"completed", "failed"} :
       /\ process[j] = "none" => s = "failed"
       /\ SetStatus(j, s)
       /\ WorkerGoesTo(j, IF s = "completed" /\ HandsOver(j) THEN "handing" ELSE "cleaning")
  /\ UNCHANGED <<links, submit, process, reading, cancel, sawProcess>>

\* The final _set_state of the worker.
Decide(j) ==
  /\ worker[j] = "deciding"
  /\ \E s \in {"completed", "failed"} :
       /\ process[j] = "none" => s = "failed"
       /\ SetStatus(j, s)
  /\ WorkerGoesTo(j, IF HandsOver(j) THEN "handing" ELSE "cleaning")
  /\ UNCHANGED <<links, submit, process, reading, cancel, sawProcess>>

\* _set_state goes on to the successor after it has called the listeners.
HandOver(j) ==
  /\ worker[j] = "handing"
  /\ StartSuccessor(j, [worker EXCEPT ![j] = "cleaning"])
  /\ UNCHANGED <<status, submit, process, reading, cancel, sawProcess>>

\* finally: the process is forgotten.
Clean(j) ==
  /\ worker[j] = "cleaning"
  /\ WorkerGoesTo(j, "done")
  /\ UNCHANGED <<status, links, submit, process, reading, cancel, sawProcess>>

-----------------------------------------------------------------------------
(* cancel_job()                                                             *)

\* _processes has the job's process from its registration to the clean-up.
InTable(j) == process[j] \in {"registered", "exited"} /\ worker[j] # "done"

\* One look at the state and the process, under the lock.
CancelCheck(j) ==
  /\ j \in Cancellable /\ cancel[j] = "none"
  /\ status[j] \notin Terminal \cup {"none"}
  /\ cancel' = [cancel EXCEPT ![j] = "checked"]
  /\ sawProcess' = [sawProcess EXCEPT ![j] = InTable(j)]
  /\ UNCHANGED <<status, links, submit, worker, process, reading>>

\* The job becomes cancelled, whatever it has become in between.
CancelSet(j) ==
  /\ cancel[j] = "checked"
  /\ SetStatus(j, "cancelled")
  /\ cancel' = [cancel EXCEPT ![j] = IF HandsOver(j) THEN "handing" ELSE "acting"]
  /\ UNCHANGED <<links, submit, worker, process, reading, sawProcess>>

CancelHandOver(j) ==
  /\ cancel[j] = "handing"
  /\ StartSuccessor(j, worker)
  /\ cancel' = [cancel EXCEPT ![j] = "acting"]
  /\ UNCHANGED <<status, submit, process, reading, sawProcess>>

\* Last, the process that was seen is killed; if none was seen the job is taken
\* out of the queue.
CancelAct(j) ==
  /\ cancel[j] = "acting"
  /\ IF sawProcess[j]
     THEN process' = [process EXCEPT ![j] = "exited"] /\ UNCHANGED links
     ELSE RemoveQueued(j) /\ UNCHANGED process
  /\ cancel' = [cancel EXCEPT ![j] = "done"]
  /\ UNCHANGED <<status, submit, worker, reading, sawProcess>>

-----------------------------------------------------------------------------
Init ==
  /\ status = [j \in Job |-> "none"]
  /\ queued = {} /\ keyed = {}
  /\ tail = [k \in Key |-> NoJob]
  /\ succ = [j \in Job |-> NoJob]
  /\ pred = [j \in Job |-> NoJob]
  /\ submit = [j \in Job |-> "new"]
  /\ worker = [j \in Job |-> "none"]
  /\ process = [j \in Job |-> "none"]
  /\ reading = [j \in Job |-> FALSE]
  /\ cancel = [j \in Job |-> "none"]
  /\ sawProcess = [j \in Job |-> FALSE]

Submitter(j) == Announce(j) \/ Start(j)

Work(j) ==
  \/ Begin(j) \/ Prepare(j) \/ Raise(j) \/ Launch(j) \/ RegisterProcess(j)
  \/ Reap(j) \/ Judge(j) \/ Decide(j) \/ HandOver(j) \/ Clean(j)

CancelRequest(j) == CancelSet(j) \/ CancelHandOver(j) \/ CancelAct(j)

Finished ==
  /\ \A j \in Job : submit[j] = "done" /\ worker[j] \in {"none", "done"}
  /\ UNCHANGED vars

Next ==
  \/ \E j \in Job :
       \/ Register(j) \/ Submitter(j)
       \/ Work(j) \/ ReadLine(j) \/ Exit(j) \/ EndOfOutput(j)
       \/ CancelCheck(j) \/ CancelRequest(j)
  \/ Finished

Spec == Init /\ [][Next]_vars

\* A call in progress returns, a thread runs, a CLI ends unless it hangs, and a
\* pipe without a writer reaches its end; nobody has to submit or cancel.
Fairness ==
  \A j \in Job : /\ WF_vars(Submitter(j)) /\ WF_vars(Work(j)) /\ WF_vars(CancelRequest(j))
                 /\ WF_vars(EndOfOutput(j))
                 /\ j \notin Hanging => WF_vars(Exit(j))

FairSpec == Spec /\ Fairness

-----------------------------------------------------------------------------
(* Properties.                                                              *)

\* Every variable has its type.
TypeOK ==
  /\ status \in [Job -> Statuses]
  /\ queued \subseteq Job /\ keyed \subseteq Job
  /\ tail \in [Key -> Job \cup {NoJob}]
  /\ succ \in [Job -> Job \cup {NoJob}]
  /\ pred \in [Job -> Job \cup {NoJob}]
  /\ submit \in [Job -> SubmitPCs]
  /\ worker \in [Job -> WorkerPCs]
  /\ process \in [Job -> Processes]
  /\ reading \in [Job -> BOOLEAN]
  /\ cancel \in [Job -> CancelPCs]
  /\ sawProcess \in [Job -> BOOLEAN]

Live(j) == process[j] \in {"live", "registered"}

\* Overlapping turns of a chat are serialized: two jobs of a key never have a
\* CLI process at the same time.
RunsAlone ==
  \A i, j \in Job : (i # j /\ KeyOf[i] = KeyOf[j]) => ~(Live(i) /\ Live(j))

\* The two link dictionaries describe the same lists, each of one chat.
LinksAgree ==
  \A i, j \in Job : /\ succ[i] = j <=> pred[j] = i
                    /\ succ[i] = j => i # j /\ KeyOf[i] = KeyOf[j]

\* A job that has a predecessor has no thread.
WaitingHasNoThread == \A j \in Job : pred[j] # NoJob => worker[j] = "none"

\* The tail under which the next turn will queue is the end of its list.
TailIsLast ==
  \A k \in Key : tail[k] # NoJob => KeyOf[tail[k]] = k /\ succ[tail[k]] = NoJob

\* A job that says it is waiting for the previous turn of its chat has such a
\* turn: one that has not finished, or has not yet handed over.
Unfinished(i) ==
  \/ status[i] \notin Terminal
  \/ worker[i] = "handing" \/ cancel[i] \in {"checked", "handing", "acting"}

WaitsForSomething ==
  \A j \in Job :
    (submit[j] = "done" /\ status[j] = "pending" /\ worker[j] = "none")
      => \E i \in Job \ {j} : KeyOf[i] = KeyOf[j] /\ Unfinished(i)

\* A job gets one thread in its life.
StartedOnce ==
  [][\A j \in Job : (worker'[j] = "spawned" /\ worker[j] # "spawned") => worker[j] = "none"]_vars

\* A job with a thread was taken out of the queue: whoever cancelled it saw no
\* process, because the turn was just handed to it, or just passed on.
TakenOutRunning(i) == cancel[i] = "done" /\ ~sawProcess[i] /\ worker[i] # "none"

\* With cancellations, and with submissions under different locks, the same
\* holds unless the cancellation of another turn took a running one for a
\* waiting one.
WaitsUnlessTakenOut ==
  \A j \in Job :
    (submit[j] = "done" /\ status[j] = "pending" /\ worker[j] = "none")
      => \E i \in Job \ {j} : KeyOf[i] = KeyOf[j] /\ (Unfinished(i) \/ TakenOutRunning(i))

\* The turn that a chat waits for will not end: its thread is gone without a
\* report, or its CLI hangs.
Stuck(j) ==
  \/ worker[j] = "done" /\ j \in queued /\ status[j] \notin Terminal
  \/ j \in Hanging /\ Live(j)

\* Every submitted turn runs to its end, unless the chat is stuck for good.
EveryTurnRuns ==
  \A j \in Job :
    \/ submit[j] \in {"registered", "waiting"} ~> worker[j] = "done"
    \/ \E i \in Job : KeyOf[i] = KeyOf[j] /\ <>[]Stuck(i)

\* Without that reservation it does not.
EveryTurnEnds ==
  \A j \in Job : submit[j] \in {"registered", "waiting"} ~> status[j] \in Terminal

-----------------------------------------------------------------------------
(* What makes the safety properties inductive.                              *)

\* Before execute() registers it, nothing refers to a job.
NewIsUnknown ==
  \A j \in Job : submit[j] = "new" =>
    /\ status[j] = "none" /\ worker[j] = "none" /\ cancel[j] = "none"
    /\ ~reading[j] /\ pred[j] = NoJob /\ succ[j] = NoJob
    /\ \A k \in Key : tail[k] # j

\* A job that did not have to wait is not linked behind another one later.
DirectIsUnlinked ==
  \A j \in Job :
    /\ submit[j] \in {"registered", "announced"} => pred[j] = NoJob /\ worker[j] = "none"
    /\ cancel[j] = "handing" => pred[j] = NoJob

\* No list of jobs bites its tail: every set of jobs has one whose predecessor
\* is outside.
NoCycle == \A S \in (SUBSET Job) \ {{}} : \E j \in S : pred[j] \notin S

\* The invariant of the lists, in every interleaving.
ListInv ==
  /\ TypeOK
  /\ LinksAgree
  /\ WaitingHasNoThread
  /\ TailIsLast
  /\ NewIsUnknown
  /\ DirectIsUnlinked
  /\ NoCycle

\* A job is cancelled once its request says so, and has a thread once it has a
\* process.
CancelSaid ==
  \A j \in Job : /\ cancel[j] \in {"handing", "acting", "done"} => status[j] = "cancelled"
                 /\ process[j] # "none" \/ sawProcess[j] => worker[j] # "none"

\* Who waits is queued; who left the queue had a thread or is cancelled.
InLine ==
  \A j \in Job : /\ pred[j] # NoJob => j \in queued
                 /\ submit[j] # "new" /\ j \notin queued => worker[j] # "none" \/ status[j] = "cancelled"

\* The job, or the request that cancels it, will still look at its successor.
PassesOn(i) ==
  \/ status[i] \notin Terminal
  \/ worker[i] = "handing" \/ cancel[i] = "handing"
  \/ cancel[i] = "acting" /\ ~sawProcess[i]

Excused(k) == \E i \in Job : KeyOf[i] = k /\ TakenOutRunning(i)

\* Unless a cancellation took a running job for a waiting one: who waits has a
\* predecessor, and that one passes on; a job that leaves the queue while it
\* waits closes the gap.
WaitsInLine ==
  \A j \in Job : Excused(KeyOf[j]) \/
    /\ submit[j] \in {"waiting", "done"} /\ worker[j] = "none" /\ status[j] # "cancelled"
         => pred[j] # NoJob
    /\ pred[j] # NoJob => PassesOn(pred[j])
    /\ cancel[j] = "acting" /\ worker[j] = "none" /\ succ[j] # NoJob => pred[j] # NoJob

\* The invariant of the turns that wait, in every interleaving.
WaitInv == CancelSaid /\ InLine /\ WaitsInLine

\* The thread of a job that has not passed the turn on is gone.
Dead(j) == worker[j] \in {"cleaning", "done"} /\ j \in keyed

\* The job whose turn it is: it was let through and has not reported its end,
\* or it has and still has to pass the turn on.
HasTurn(j) ==
  \/ submit[j] \in {"registered", "announced"}
  \/ worker[j] \in {"spawned", "preparing", "launching", "launched", "waiting", "reaped", "deciding"}
  \/ Dead(j)

Owns(j) == HasTurn(j) \/ (worker[j] = "handing" /\ succ[j] # NoJob)

\* One job of a chat owns the turn.
OneOwner ==
  \A i, j \in Job : (KeyOf[i] = KeyOf[j] /\ Owns(i) /\ Owns(j)) => i = j

\* The next turn of the chat would queue behind the owner or behind a job that
\* waits.
TailFollowsOwner ==
  \A j \in Job : Owns(j) => LET t == tail[KeyOf[j]] IN t # NoJob /\ (t = j \/ pred[t] # NoJob)

\* The tail and the predecessors have not passed their turn on.
LinksAreActive ==
  /\ \A k \in Key : tail[k] # NoJob => tail[k] \in keyed
  /\ \A j \in Job : pred[j] # NoJob => pred[j] \in keyed

\* A job is open while it waits or has the turn, and its process belongs to
\* its thread.
OpenUntilDecided ==
  \A j \in Job : /\ HasTurn(j) \/ pred[j] # NoJob => status[j] \notin Terminal
                 /\ Live(j) => worker[j] \in {"launched", "waiting"} \/ Dead(j)

\* A job is in the tables until it has passed the turn on; without a thread it
\* is linked behind another one, unless execute() is about to start it.
StaysInLine ==
  \A j \in Job : submit[j] # "new" =>
    /\ worker[j] \notin {"cleaning", "done"} => j \in keyed
    /\ j \in keyed => j \in queued
    /\ submit[j] \in {"waiting", "done"} /\ worker[j] = "none" => pred[j] # NoJob
    /\ status[j] = "none" => submit[j] \in {"registered", "waiting"}

\* Calls of execute() follow each other and nothing is cancelled.
OrderlyCalls ==
  /\ \A i, j \in Job : {submit[i], submit[j]} \cap {"new", "done"} = {} => i = j
  /\ \A j \in Job : cancel[j] = "none" /\ status[j] # "cancelled"

\* The invariant of a chat whose turns are submitted under one lock and not
\* cancelled: one job owns the turn, and whoever queues next queues behind it.
TurnInv ==
  /\ OneOwner
  /\ TailFollowsOwner
  /\ LinksAreActive
  /\ OpenUntilDecided
  /\ StaysInLine
  /\ OrderlyCalls
=============================================================================
