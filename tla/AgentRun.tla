------------------------------ MODULE AgentRun ------------------------------
(***************************************************************************)
(* MessageService: a human turn of a chat starts a run, in which a         *)
(* reviewer and a generator follow each other up automatically.            *)
(* (backend/app/application/services/message_service.py)                   *)
(*                                                                         *)
(* The chat, its messages and its jobs are rows of SQLite: a call of the   *)
(* repository is atomic, and a thread works on copies between two calls.   *)
(* Four kinds of threads meet here: the request that submits a turn, the   *)
(* callback that a job has ended (one per job), requests that ask for a    *)
(* job, and the background reconciler.  The modelled preset is "review";   *)
(* turn summaries and title refresh have no influence on it.               *)
(***************************************************************************)
EXTENDS Naturals, FiniteSets

CONSTANTS
  Runs,         \* number of human turns, submitted one after the other
  RevTurns,     \* max_turns of the reviewer
  GenTurns,     \* max_turns of the generator
  Poller,       \* threads of GET /jobs/{id}
  Reconciler,   \* the background reconciler, if an interval is configured
  Submitter,    \* the request that submits the turns
  MaxFaults     \* bound on crashes of the backend and failed saves

ASSUME RunsAssumption == Runs \in Nat /\ MaxFaults \in Nat
ASSUME TurnsAssumption == RevTurns \in Nat /\ GenTurns \in Nat \ {0}

NoRun == 0
Run == 1 .. Runs

\* A message of the run that a job answers: the one of the human turn, and the
\* follow-ups, which are named by their dedupe key run:<run>:<agent>:<turn>.
Entry(r) == <<r, "entry", 1>>
FollowUp == (Run \X {"reviewer"} \X (1 .. RevTurns)) \cup (Run \X {"generator"} \X (1 .. GenTurns))
Slot == {Entry(r) : r \in Run} \cup FollowUp
NoSlot == <<NoRun, "none", 0>>

RunOf(s) == s[1]
ByReviewer(s) == s[2] = "reviewer"

Thread == Slot \cup Poller \cup Reconciler \cup {Submitter}

ASSUME ThreadAssumption ==
  /\ Submitter \notin Slot \cup Poller \cup Reconciler
  /\ Slot \cap Poller = {} /\ Slot \cap Reconciler = {} /\ Poller \cap Reconciler = {}

VARIABLES
  active,       \* sessions.active_agent_run_id
  msg,          \* messages: status, and whether job_id is set
  job,          \* jobs: status and auto_chain_processed
  exec,         \* what the execution provider knows of the job of a message
  watched,      \* jobs with a registered background watch
  pc,           \* the next step of each thread
  host,         \* the thread on whose stack it runs
  serving,      \* the message whose job the thread looks at
  seen,         \* its copy of the job
  view,         \* its copy of active
  target,       \* the follow-up it launches
  direct,       \* the launch continues a chain, and does not recover it
  todo,         \* copies of the messages it is about to save, with their new status
  submitted,    \* number of runs submitted
  calls,        \* how often each message was sent to a CLI
  faults

rows == <<active, msg, job>>
provider == <<exec, watched, calls>>
local == <<serving, seen, view, target, direct, todo>>
rest == <<host, submitted, faults>>
vars == <<rows, provider, pc, local, rest>>

Terminal == {"completed", "failed"}    \* a cancelled job behaves like a failed one
JobStatuses == {"none", "pending"} \cup Terminal
MsgStatuses == {"none", "reserved", "submission_pending", "pending", "completed",
                "failed", "cancelled", "submission_unknown"}
Waiting == {"reserved", "submission_pending", "pending"}
Unsent == {"none", "reserved"}

MsgRow == [status : MsgStatuses, attached : BOOLEAN]
JobRow == [status : JobStatuses, processed : BOOLEAN]

\* Threads that hold the terminal lock of the job they serve, and the threads
\* that hold the recovery guard.
Launching == {"check", "claim", "execute", "save"}
Guarded == Launching \cup {"watch", "nested", "reread", "resync", "finalize"}
Locked == {"session", "learn", "message", "touch", "chain", "recover", "choose",
           "reserve", "acquire", "resave", "complete", "mark"} \cup Guarded
PCs == {"idle", "store", "lock", "list", "cancel", "supersede", "drop", "start"} \cup Locked

Holds(t, s) == pc[t] \in Locked /\ serving[t] = s /\ seen[t].status \in Terminal

\* The guard is reentrant: a callback has it that runs on the stack of its holder.
HasGuard(u, t) == pc[u] \in Guarded /\ ~(pc[u] = "nested" /\ host[u] = host[t])
GuardFree(t) == \A u \in Thread : ~HasGuard(u, t)

Goes(t, next) == pc' = [pc EXCEPT ![t] = next]

-----------------------------------------------------------------------------
(* get_job and _sync_job_side_effects                                       *)

\* What get_job makes of a stored job: a terminal one is kept, one that the
\* provider does not know has failed.
Observed(s) ==
  IF job[s].status \in Terminal THEN job[s]
  ELSE [job[s] EXCEPT !.status = IF exec[s] = "none" THEN "failed" ELSE exec[s]]

FirstStep(s) == IF job[s].status \in Terminal THEN "lock" ELSE "store"

\* A request asks for a stored job.
\* (The row and the snapshot are read in one step: if the row is read earlier,
\* its copy is as stale as it is here.)
Poll(t, s) ==
  /\ t \in Poller /\ pc[t] = "idle" /\ job[s].status # "none"
  /\ serving' = [serving EXCEPT ![t] = s]
  /\ seen' = [seen EXCEPT ![t] = Observed(s)]
  /\ Goes(t, FirstStep(s))
  /\ UNCHANGED <<rows, provider, view, target, direct, todo, rest>>

\* The callback about the end of a job, on the stack of thread h.
CallsBack(s, h) ==
  /\ serving' = [serving EXCEPT ![s] = s]
  /\ seen' = [seen EXCEPT ![s] = Observed(s)]
  /\ host' = [host EXCEPT ![s] = h]

\* The provider calls back once, when the job has ended.
Callback(s) ==
  /\ s \in watched /\ exec[s] \in Terminal /\ pc[s] = "idle"
  /\ watched' = watched \ {s}
  /\ CallsBack(s, s)
  /\ Goes(s, FirstStep(s))
  /\ UNCHANGED <<rows, exec, calls, view, target, direct, todo, submitted, faults>>

\* The copy is saved, with the auto_chain_processed it was read with.
StoreJob(t) ==
  /\ pc[t] = "store"
  /\ job' = [job EXCEPT ![serving[t]] = seen[t]]
  /\ Goes(t, IF seen[t].status \in Terminal THEN "lock" ELSE "session")
  /\ UNCHANGED <<active, msg, provider, local, rest>>

\* _sync_terminal_job_side_effects works on the row as it is under the lock.
TakeLock(t) ==
  /\ pc[t] = "lock"
  /\ \A u \in Thread : ~Holds(u, serving[t])
  /\ seen' = [seen EXCEPT ![t] = job[serving[t]]]
  /\ Goes(t, "session")
  /\ UNCHANGED <<rows, provider, serving, view, target, direct, todo, rest>>

\* The session is read; it is saved at once if the job has told a new
\* provider_session_id.
ReadSession(t) ==
  /\ pc[t] = "session"
  /\ view' = [view EXCEPT ![t] = active]
  /\ \/ ~seen[t].processed /\ Goes(t, "learn")
     \/ Goes(t, "message")
  /\ UNCHANGED <<rows, provider, serving, seen, target, direct, todo, rest>>

SaveView(t) == active' = view[t]

LearnSession(t) ==
  /\ pc[t] = "learn"
  /\ SaveView(t)
  /\ Goes(t, "message")
  /\ UNCHANGED <<msg, job, provider, local, rest>>

SyncMessage(t) ==
  /\ pc[t] = "message"
  /\ msg' = [msg EXCEPT ![serving[t]] = [status |-> seen[t].status, attached |-> TRUE]]
  /\ Goes(t, IF seen[t].status \in Terminal THEN "touch" ELSE "idle")
  /\ UNCHANGED <<active, job, provider, local, rest>>

TouchSession(t) ==
  /\ pc[t] = "touch"
  /\ SaveView(t)
  /\ Goes(t, IF seen[t].processed THEN "idle" ELSE "chain")
  /\ UNCHANGED <<msg, job, provider, local, rest>>

-----------------------------------------------------------------------------
(* _maybe_continue_agent_chain                                              *)

\* Only the active run goes on; a job that failed ends it.
ReadForChain(t) ==
  /\ pc[t] = "chain"
  /\ view' = [view EXCEPT ![t] = active]
  /\ Goes(t, IF active # RunOf(serving[t]) THEN "mark"
             ELSE IF seen[t].status = "completed" THEN "recover" ELSE "complete")
  /\ UNCHANGED <<rows, provider, serving, seen, target, direct, todo, rest>>

Turns(r, reviewer) ==
  Cardinality({s \in Slot : RunOf(s) = r /\ ByReviewer(s) = reviewer /\ msg[s].status = "completed"})

\* Faulty form: the next turn of the generator has the number of its last one.
NextTurnRepeated(s) ==
  LET r == RunOf(s) IN
  IF ByReviewer(s)
  THEN IF Turns(r, FALSE) \in 1 .. GenTurns /\ Turns(r, TRUE) > 0 THEN <<r, "generator", Turns(r, FALSE)>> ELSE NoSlot
  ELSE IF Turns(r, TRUE) < RevTurns THEN <<r, "reviewer", Turns(r, TRUE) + 1>> ELSE NoSlot

\* The follow-up of the job, by the number of completed turns, if the agents
\* may still take one.
NextTurn(s) ==
  LET r == RunOf(s)
      turn == Turns(r, ~ByReviewer(s)) + 1 IN
  IF ByReviewer(s)
  THEN IF turn <= GenTurns /\ Turns(r, TRUE) > 0 THEN <<r, "generator", turn>> ELSE NoSlot
  ELSE IF turn <= RevTurns THEN <<r, "reviewer", turn>> ELSE NoSlot

\* The run is complete when there is no next turn, when the next turn has
\* failed, or when the reviewer says so.  Without any completed answer of the
\* generator a reviewer turn is silently not started.
Choose(t) ==
  LET s == serving[t]
      next == NextTurn(s) IN
  /\ pc[t] = "choose"
  /\ target' = [target EXCEPT ![t] = next]
  /\ direct' = [direct EXCEPT ![t] = TRUE]
  /\ \/ ByReviewer(s) /\ Goes(t, "complete")
     \/ next = NoSlot /\ Goes(t, "complete")
     \/ /\ next # NoSlot
        /\ Goes(t, IF msg[next].status = "none"
                   THEN IF ByReviewer(s) \/ Turns(RunOf(s), FALSE) > 0 THEN "reserve" ELSE "mark"
                   ELSE IF msg[next].status \in Waiting THEN "mark" ELSE "complete")
  /\ UNCHANGED <<rows, provider, serving, seen, view, todo, rest>>

\* After a launch the reviewer's job saves the session once more.
AfterLaunch(t) ==
  IF t \in Reconciler THEN "idle"
  ELSE IF direct[t] /\ ByReviewer(serving[t]) THEN "resave" ELSE "mark"

Reserved == [status |-> "reserved", attached |-> FALSE]

\* reserve_message: the first one to use the dedupe key creates the message.
Reserve(t) ==
  /\ pc[t] = "reserve"
  /\ msg' = IF msg[target[t]].status = "none" THEN [msg EXCEPT ![target[t]] = Reserved] ELSE msg
  /\ Goes(t, IF msg'[target[t]] = Reserved THEN "acquire" ELSE AfterLaunch(t))
  /\ UNCHANGED <<active, job, provider, local, rest>>

ResaveSession(t) ==
  /\ pc[t] = "resave"
  /\ SaveView(t)
  /\ Goes(t, IF t \in Reconciler THEN "idle" ELSE "mark")
  /\ UNCHANGED <<msg, job, provider, local, rest>>

\* _complete_agent_run, on the copy of the session.
CompleteRun(t) ==
  /\ pc[t] \in {"complete", "finalize"}
  /\ active' = IF view[t] = RunOf(target[t]) \/ pc[t] = "complete" THEN NoRun ELSE active
  /\ Goes(t, IF t \in Reconciler THEN "idle" ELSE "mark")
  /\ UNCHANGED <<msg, job, provider, local, rest>>

MarkProcessed(t) ==
  /\ pc[t] = "mark"
  /\ job' = [job EXCEPT ![serving[t]] = [seen[t] EXCEPT !.processed = TRUE]]
  /\ Goes(t, "idle")
  /\ UNCHANGED <<active, msg, provider, local, rest>>

-----------------------------------------------------------------------------
(* _launch_reserved_follow_up, under the recovery guard                     *)

\* Faulty form: the copy in hand is trusted.
CanLaunchByNow(s) == TRUE

\* can_launch_reserved_follow_up
CanLaunch(s) == msg[s] = Reserved

\* The message is read again; only a reserved one is launched.
Recheck(t) ==
  /\ \/ pc[t] = "check"
     \/ pc[t] = "acquire" /\ GuardFree(t)
  /\ Goes(t, IF CanLaunch(target[t]) THEN "claim" ELSE AfterLaunch(t))
  /\ UNCHANGED <<rows, provider, local, rest>>

\* The copy is saved as submission_pending before the provider is called.
Claim(t) ==
  /\ pc[t] = "claim"
  /\ msg' = [msg EXCEPT ![target[t]] = [status |-> "submission_pending", attached |-> FALSE]]
  /\ Goes(t, "execute")
  /\ UNCHANGED <<active, job, provider, local, rest>>

Execute(t) ==
  /\ pc[t] = "execute"
  /\ exec' = [exec EXCEPT ![target[t]] = "pending"]
  /\ calls' = [calls EXCEPT ![target[t]] = @ + 1]
  /\ Goes(t, "save")
  /\ UNCHANGED <<rows, watched, local, rest>>

\* save_turn: the session, the message and the job in one transaction.
SaveTurn(t) ==
  /\ pc[t] = "save"
  /\ SaveView(t)
  /\ msg' = [msg EXCEPT ![target[t]] = [status |-> "pending", attached |-> TRUE]]
  /\ job' = [job EXCEPT ![target[t]] = [status |-> "pending", processed |-> FALSE]]
  /\ Goes(t, "watch")
  /\ UNCHANGED <<provider, local, rest>>

\* What follows when the launched or attached job is being watched.
AfterWatch(t) == IF todo[t] = {} THEN AfterLaunch(t) ELSE "reread"

\* _register_background_job_watch: watch_job reports the state of the job at
\* once, so that the end of a short job is dealt with by the registering thread,
\* which still has the guard.
Watch(t) ==
  LET s == target[t] IN
  /\ pc[t] = "watch"
  /\ \/ /\ exec[s] \notin Terminal
        /\ watched' = watched \cup {s}
        /\ Goes(t, AfterWatch(t))
        /\ UNCHANGED <<host, serving, seen>>
     \/ /\ exec[s] \in Terminal /\ pc[s] = "idle"
        /\ CallsBack(s, host[t])
        /\ pc' = [pc EXCEPT ![t] = "nested", ![s] = FirstStep(s)]
        /\ UNCHANGED watched
  /\ UNCHANGED <<rows, exec, calls, view, target, direct, todo, submitted, faults>>

NestedReturns(t) ==
  /\ pc[t] = "nested" /\ pc[target[t]] = "idle"
  /\ Goes(t, AfterWatch(t))
  /\ UNCHANGED <<rows, provider, local, rest>>

\* The database refuses: the exception ends what the thread is doing.
SaveTurnFails(t) ==
  /\ pc[t] = "save"
  /\ faults < MaxFaults
  /\ faults' = faults + 1
  /\ Goes(t, "idle")
  /\ UNCHANGED <<rows, provider, host, local, submitted>>

-----------------------------------------------------------------------------
(* _recover_waiting_follow_up_for_run, under the recovery guard             *)

\* Messages without a job are recovered in the order of their creation; in a
\* run there is at most one, save for races, and then any may be the first.
Unattached(r, status) ==
  {s \in FollowUp : RunOf(s) = r /\ msg[s] = [status |-> status, attached |-> FALSE]}

\* _build_follow_up_context: a follow-up needs an answer of the other agent (a
\* reserved generator turn answers a review that did not end the run).
HasContext(s) == Turns(RunOf(s), ~ByReviewer(s)) > 0

\* The provider knows the job by its token: it is saved with the message, and
\* watched; then its side effects are synchronised from the copy in hand.
Attach(t, s) ==
  /\ exec[s] # "none" /\ HasContext(s)
  /\ SaveView(t)
  /\ msg' = [msg EXCEPT ![s] = [status |-> "pending", attached |-> TRUE]]
  /\ job' = [job EXCEPT ![s] = [status |-> exec[s], processed |-> FALSE]]
  /\ todo' = [todo EXCEPT ![t] = {<<s, exec[s]>>}]
  /\ Goes(t, "watch")

\* _finalize_reserved_follow_up: the message will not be launched, and the run
\* ends.  If nobody knows whether the CLI ran, the message says so.
GiveUp(t, s, status) ==
  /\ msg' = [msg EXCEPT ![s] = [status |-> status, attached |-> FALSE]]
  /\ Goes(t, "finalize")
  /\ UNCHANGED <<active, job, todo>>

\* Faulty form: a message whose job the provider does not know is left as it is.
RecoverPendingIfKnown(t, s) ==
  \/ Attach(t, s)
  \/ exec[s] = "none" /\ Goes(t, IF t \in Reconciler THEN "idle" ELSE "mark") /\ UNCHANGED <<rows, todo>>

\* The first of the unattached messages is dealt with, if there is one.
RecoverPending(t, s) ==
  \/ Attach(t, s)
  \/ (exec[s] = "none" \/ ~HasContext(s)) /\ GiveUp(t, s, "submission_unknown")

RecoverReserved(t, s) ==
  \/ HasContext(s) /\ Goes(t, "check") /\ UNCHANGED <<rows, todo>>
  \/ ~HasContext(s) /\ GiveUp(t, s, "failed")

Recover(t) ==
  LET r == IF t \in Reconciler THEN view[t] ELSE RunOf(serving[t])
      uncertain == Unattached(r, "submission_pending")
      reserved == Unattached(r, "reserved") IN
  /\ pc[t] = "recover"
  /\ GuardFree(t)
  /\ direct' = [direct EXCEPT ![t] = FALSE]
  /\ \/ \E s \in uncertain :
           RecoverPending(t, s) /\ target' = [target EXCEPT ![t] = s]
     \/ \E s \in reserved :
           uncertain = {} /\ RecoverReserved(t, s) /\ target' = [target EXCEPT ![t] = s]
     \/ /\ uncertain = {} /\ reserved = {}
        /\ Goes(t, IF t \in Reconciler THEN "idle" ELSE "choose")
        /\ UNCHANGED <<rows, target, todo>>
  /\ UNCHANGED <<provider, serving, seen, view, rest>>

\* _sync_job_side_effects of an attached job.
RereadSession(t) ==
  /\ pc[t] = "reread"
  /\ view' = [view EXCEPT ![t] = active]
  /\ Goes(t, "resync")
  /\ UNCHANGED <<rows, provider, serving, seen, target, direct, todo, rest>>

\* The session is saved if the job has ended or told a provider_session_id.
SyncAttached(t) ==
  /\ pc[t] = "resync"
  /\ \E o \in todo[t] :
       /\ msg' = [msg EXCEPT ![o[1]] = [status |-> o[2], attached |-> TRUE]]
       /\ \/ Goes(t, "resave")
          \/ o[2] \notin Terminal /\ Goes(t, AfterLaunch(t))
  /\ todo' = [todo EXCEPT ![t] = {}]
  /\ UNCHANGED <<active, job, provider, serving, seen, view, target, direct, rest>>

-----------------------------------------------------------------------------
(* _cancel_reserved_follow_ups_...                                          *)

\* orphaned_follow_up_resolution_status
Resolution == [reserved |-> "cancelled", submission_pending |-> "submission_unknown"]

\* The messages without a job of the runs in rs, as they are now.
Orphans(rs) ==
  {<<s, Resolution[msg[s].status]>> :
     s \in {x \in FollowUp : RunOf(x) \in rs /\ msg[x].status \in DOMAIN Resolution /\ ~msg[x].attached}}

\* The pc after the messages of the inactive runs have been dealt with.
AfterCancel(t) ==
  IF t \in Reconciler THEN IF view[t] = NoRun THEN "idle" ELSE "recover"
  ELSE IF view[t] = NoRun THEN "start" ELSE "supersede"

\* The messages are listed: those of inactive runs, or, for a new human turn,
\* those of the run it supersedes.
List(t) ==
  LET inactive == pc[t] = "list"
      found == Orphans(IF inactive THEN Run \ {view[t]} ELSE {view[t]}) IN
  /\ pc[t] \in {"list", "supersede"}
  /\ todo' = [todo EXCEPT ![t] = found]
  /\ Goes(t, IF inactive THEN IF found = {} THEN AfterCancel(t) ELSE "cancel"
             ELSE IF found = {} THEN "start" ELSE "drop")
  /\ UNCHANGED <<rows, provider, serving, seen, view, target, direct, rest>>

\* One copy after the other is saved, and at last the session.
Cancel(t) ==
  /\ pc[t] \in {"cancel", "drop"}
  /\ \E o \in todo[t] :
       /\ msg' = [msg EXCEPT ![o[1]] = [status |-> o[2], attached |-> FALSE]]
       /\ todo' = [todo EXCEPT ![t] = @ \ {o}]
       /\ IF todo[t] = {o}
          THEN SaveView(t) /\ Goes(t, IF pc[t] = "cancel" THEN AfterCancel(t) ELSE "start")
          ELSE UNCHANGED <<active, pc>>
  /\ UNCHANGED <<job, provider, serving, seen, view, target, direct, rest>>

\* One round of the reconciler.
Reconcile(t) ==
  /\ t \in Reconciler /\ pc[t] = "idle"
  /\ view' = [view EXCEPT ![t] = active]
  /\ Goes(t, "list")
  /\ UNCHANGED <<rows, provider, serving, seen, target, direct, todo, rest>>

-----------------------------------------------------------------------------
(* submit_message of a human turn                                           *)

Submit ==
  /\ pc[Submitter] = "idle" /\ submitted < Runs
  /\ submitted' = submitted + 1
  /\ view' = [view EXCEPT ![Submitter] = active]
  /\ Goes(Submitter, "list")
  /\ UNCHANGED <<rows, provider, serving, seen, target, direct, todo, host, faults>>

\* execute() and save_turn.  Nobody can see the job before it is saved.
StartRun ==
  LET s == Entry(submitted) IN
  /\ pc[Submitter] = "start"
  /\ active' = submitted
  /\ msg' = [msg EXCEPT ![s] = [status |-> "pending", attached |-> TRUE]]
  /\ job' = [job EXCEPT ![s] = [status |-> "pending", processed |-> FALSE]]
  /\ exec' = [exec EXCEPT ![s] = "pending"]
  /\ calls' = [calls EXCEPT ![s] = @ + 1]
  /\ watched' = watched \cup {s}
  /\ Goes(Submitter, "idle")
  /\ UNCHANGED <<local, rest>>

-----------------------------------------------------------------------------
\* A CLI ends.
Finish(s) ==
  /\ exec[s] = "pending"
  /\ \E outcome \in Terminal : exec' = [exec EXCEPT ![s] = outcome]
  /\ UNCHANGED <<rows, watched, calls, pc, local, rest>>

\* A value in every thread, and in every row.
Everywhere(v) == [t \in Thread |-> v]
EverySlot(v) == [s \in Slot |-> v]
NoJob == [status |-> "none", processed |-> FALSE]

\* The backend restarts: only the rows survive.
Crash ==
  /\ faults < MaxFaults
  /\ faults' = faults + 1
  /\ exec' = EverySlot("none")
  /\ watched' = {}
  /\ pc' = Everywhere("idle")
  /\ host' = [t \in Thread |-> t]
  /\ serving' = Everywhere(NoSlot)
  /\ seen' = Everywhere(NoJob)
  /\ view' = Everywhere(NoRun)
  /\ target' = Everywhere(NoSlot)
  /\ direct' = Everywhere(FALSE)
  /\ todo' = Everywhere({})
  /\ UNCHANGED <<rows, submitted, calls>>

Init ==
  /\ active = NoRun
  /\ msg = EverySlot([status |-> "none", attached |-> FALSE])
  /\ job = EverySlot(NoJob)
  /\ exec = EverySlot("none")
  /\ watched = {}
  /\ pc = Everywhere("idle")
  /\ host = [t \in Thread |-> t]
  /\ serving = Everywhere(NoSlot)
  /\ seen = Everywhere(NoJob)
  /\ view = Everywhere(NoRun)
  /\ target = Everywhere(NoSlot)
  /\ direct = Everywhere(FALSE)
  /\ todo = Everywhere({})
  /\ submitted = 0
  /\ calls = EverySlot(0)
  /\ faults = 0

\* A thread goes on with what it has begun.
Step(t) ==
  \/ StoreJob(t) \/ TakeLock(t) \/ ReadSession(t) \/ LearnSession(t) \/ SyncMessage(t)
  \/ TouchSession(t) \/ ReadForChain(t) \/ Choose(t) \/ Reserve(t) \/ ResaveSession(t)
  \/ CompleteRun(t) \/ MarkProcessed(t) \/ Recheck(t) \/ Claim(t) \/ Execute(t)
  \/ SaveTurn(t) \/ Watch(t) \/ NestedReturns(t) \/ Recover(t) \/ RereadSession(t)
  \/ SyncAttached(t) \/ List(t) \/ Cancel(t)

Next ==
  \/ \E t \in Thread : Step(t) \/ SaveTurnFails(t)
  \/ \E t \in Poller, s \in Slot : Poll(t, s)
  \/ \E s \in Slot : Callback(s) \/ Finish(s)
  \/ \E t \in Reconciler : Reconcile(t)
  \/ Submit \/ StartRun
  \/ Crash

Spec == Init /\ [][Next]_vars

\* Threads run, the CLI ends or times out, the provider calls back and the
\* reconciler sleeps for an interval only.  Nobody has to poll or to submit.
Fairness ==
  /\ \A t \in Thread : WF_vars(Step(t))
  /\ \A s \in Slot : WF_vars(Callback(s)) /\ WF_vars(Finish(s))
  /\ \A t \in Reconciler : WF_vars(Reconcile(t))
  /\ WF_vars(StartRun)

FairSpec == Spec /\ Fairness

-----------------------------------------------------------------------------
(* Properties.                                                              *)

\* Every variable has its type.
TypeOK ==
  /\ active \in Run \cup {NoRun}
  /\ msg \in [Slot -> MsgRow]
  /\ job \in [Slot -> JobRow]
  /\ exec \in [Slot -> JobStatuses]
  /\ watched \subseteq {s \in Slot : job[s].status # "none"}
  /\ pc \in [Thread -> PCs]
  /\ host \in [Thread -> Thread]
  /\ serving \in [Thread -> Slot \cup {NoSlot}]
  /\ seen \in [Thread -> JobRow]
  /\ view \in [Thread -> Run \cup {NoRun}]
  /\ target \in [Thread -> FollowUp \cup {NoSlot}]
  /\ direct \in [Thread -> BOOLEAN]
  /\ todo \in [Thread -> SUBSET (FollowUp \X (MsgStatuses \ Unsent))]
  /\ submitted \in 0 .. Runs
  /\ calls \in [Slot -> Nat]
  /\ faults \in 0 .. MaxFaults

\* A follow-up is never sent to a CLI twice.
OncePerFollowUp == \A s \in Slot : calls[s] <= 1

\* A message that waits to be launched has never been sent to a CLI.
ReservedIsUnsent == \A s \in Slot : msg[s].status \in Unsent => calls[s] = 0

\* Why a follow-up is sent once.  Each kind of thread has its own steps; ...
Roles ==
  /\ \A t \in Reconciler : pc[t] \in {"idle", "list", "cancel", "recover", "resave"} \cup Guarded
  /\ \A t \in Slot \cup Poller : pc[t] \in {"idle", "store", "lock"} \cup Locked
  /\ pc[Submitter] \in {"idle", "list", "cancel", "supersede", "drop", "start"}

\* ... a thread that serves a job has a copy of a job that was really saved; ...
Copies ==
  \A t \in Slot \cup Poller : pc[t] # "idle" =>
    /\ serving[t] \in Slot /\ job[serving[t]].status # "none"
    /\ seen[t].status # "none"

\* ... what it launches is a follow-up, whose job it watches when it is saved; ...
Aims ==
  \A t \in Thread :
    /\ pc[t] \in {"reserve", "acquire", "watch"} \cup Launching => target[t] \in FollowUp
    /\ pc[t] = "watch" => job[target[t]].status # "none"

\* ... one thread launches at a time; ...
OneLauncher ==
  \A t, u \in Thread : pc[t] \in Launching /\ pc[u] \in Launching => t = u

\* ... it launches what has not been launched, having said so before; ...
LaunchesFresh ==
  \A t \in Thread :
    /\ pc[t] \in {"claim", "execute"} => calls[target[t]] = 0
    /\ pc[t] = "execute" => msg[target[t]].status \notin Unsent

\* ... and the job of a human turn has not been started before its submission.
EntriesFresh ==
  /\ pc[Submitter] # "idle" => submitted \in Run
  /\ \A r \in Run : r > submitted \/ (r = submitted /\ pc[Submitter] # "idle") => calls[Entry(r)] = 0

LaunchInv ==
  TypeOK /\ OncePerFollowUp /\ ReservedIsUnsent /\ Roles /\ Copies /\ Aims /\ OneLauncher
    /\ LaunchesFresh /\ EntriesFresh

\* The turn that a follow-up answers.
Answers(s) ==
  IF ByReviewer(s)
  THEN IF s[3] = 1 THEN Entry(RunOf(s)) ELSE <<RunOf(s), "generator", s[3]>>
  ELSE <<RunOf(s), "reviewer", s[3] - 1>>

\* Reviewer and generator take turns: a follow-up is sent to a CLI only when
\* the job it answers has completed.
TakeTurns ==
  \A s \in FollowUp : calls[s] > 0 =>
    Answers(s) \in Slot /\ "completed" \in {exec[Answers(s)], job[Answers(s)].status}

\* Why agents take turns, when nobody polls.  A job is stored after it was sent,
\* and then its message is not about to be submitted; what is launched, or saved
\* from a list, is a message that exists, and so is the message of a turn of the
\* user only when that was sent; ...
Exists(s) == msg[s].status # "none"

StoredInv ==
  /\ \A s \in Slot :
       /\ calls[s] = 0 => job[s].status = "none" /\ exec[s] = "none"
       /\ msg[s].status = "submission_pending" => job[s].status = "none"
  /\ \A r \in Run : calls[Entry(r)] = 0 => ~Exists(Entry(r))
  /\ \A t \in Thread :
       /\ pc[t] \in {"claim", "execute", "save"} => Exists(target[t])
       /\ pc[t] = "save" => calls[target[t]] # 0 /\ job[target[t]].status = "none"
       /\ \A o \in todo[t] : Exists(o[1]) /\ o[2] # "submission_pending"

\* ... the end of a job is told once, to the thread of the job; ...
ToldOnce ==
  /\ \A s \in Slot : pc[s] # "idle" => serving[s] = s /\ s \notin watched
  /\ \A t \in Thread : pc[t] = "watch" =>
       /\ target[t] \notin watched /\ pc[target[t]] = "idle"
       /\ \A u \in Thread : pc[u] = "watch" /\ target[u] = target[t] => u = t

\* ... which has the status of its job, and saves it with the message of its turn; ...
OwnCopies ==
  /\ \A s \in Slot : pc[s] \in Locked => seen[s].status = job[s].status
  /\ \A s \in Slot : pc[s] \in {"recover", "choose", "reserve"} => seen[s].status = "completed"
  /\ \A r \in Run : pc[Entry(r)] \in {"touch", "chain", "recover", "choose", "reserve"} =>
       msg[Entry(r)].status = seen[Entry(r)].status

\* ... until that thread reserves the follow-up, nothing answers the job; ...
Unanswered(s) == \A q \in FollowUp : Exists(q) => Answers(q) # s

BeforeAnswer == {"store", "lock", "session", "learn", "message", "touch", "chain", "recover", "choose", "reserve"}

AnsweredLast ==
  /\ \A s \in watched : Unanswered(s)
  /\ \A s \in Slot : pc[s] \in BeforeAnswer => Unanswered(s)
  /\ \A t \in Thread : pc[t] = "watch" => Unanswered(target[t])

\* ... and a follow-up comes after the completed job that it answers, after the
\* earlier ones of its agent, and after the turn of the user.
InTurn(q) ==
  /\ Answers(q) \in Slot /\ Exists(Answers(q)) /\ job[Answers(q)].status = "completed"
  /\ msg[Entry(RunOf(q))].status = "completed"
  /\ \A i \in 1 .. (q[3] - 1) : ByReviewer(q) \/ i > 1 => Exists(<<q[1], q[2], i>>)

TurnOrder ==
  /\ \A q \in FollowUp : Exists(q) => InTurn(q)
  /\ \A t \in Thread : pc[t] = "reserve" => InTurn(target[t]) /\ Answers(target[t]) = t

TurnsInv == LaunchInv /\ StoredInv /\ ToldOnce /\ OwnCopies /\ AnsweredLast /\ TurnOrder

\* Threads do not wait for each other in a circle: for the lock of a job, for the
\* recovery guard, or for the callback they have on their own stack.
WaitsFor(t, u) ==
  \/ pc[t] = "lock" /\ Holds(u, serving[t])
  \/ pc[t] \in {"recover", "acquire"} /\ HasGuard(u, t)
  \/ pc[t] = "nested" /\ u = target[t]

NoCircularWait ==
  \A T \in (SUBSET Thread) \ {{}} : \E t \in T : \A u \in T : ~WaitsFor(t, u)

\* Only a human turn makes a run the active one: a run that has ended or has been
\* superseded does not come back.
OnlyTurnsActivate ==
  [][active' \notin {active, NoRun} => pc[Submitter] = "start" /\ pc'[Submitter] = "idle"]_vars

\* A follow-up that waits without a job is taken care of.
FollowUpsResolve ==
  \A s \in FollowUp :
    msg[s].status \in {"reserved", "submission_pending"} ~> msg[s].status \notin {"reserved", "submission_pending"}
=============================================================================
