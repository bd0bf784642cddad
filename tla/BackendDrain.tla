---------------------------- MODULE BackendDrain ----------------------------
(***************************************************************************)
(* Backend drain of MessageService: before a restart, turns of users are   *)
(* refused and the status is asked for until it says ready_to_restart.     *)
(* (backend/app/application/services/message_service.py)                   *)
(*                                                                         *)
(* A status is not a snapshot: _drain_blocking_work asks for every job,    *)
(* reconciles the chat and reads jobs, sessions and messages one after the *)
(* other, while the chain of AgentRun goes on.  It holds the maintenance   *)
(* lock, which turns of users take and follow-ups do not.  Its thread has  *)
(* two names here, Asker while it asks for a job and Resolver while it     *)
(* reconciles the chat; it is never both.                                  *)
(***************************************************************************)
EXTENDS AgentRun

CONSTANTS
  Asker,        \* the thread of the status, inside get_job
  Resolver,     \* the same thread, inside _reconcile_reserved_follow_ups
  MaxStatus     \* bound on the requests to the maintenance API

ASSUME DrainAssumption == Asker \in Poller /\ Resolver \in Reconciler /\ MaxStatus \in Nat

VARIABLES
  draining,     \* _drain_requested
  entering,     \* the turn of a user holds the maintenance lock
  phase,        \* where the status is; it holds the maintenance lock unless "off"
  left,         \* the stored jobs that it has listed and not asked for yet
  listed,       \* active_agent_run_id in its first copy of the session
  busy,         \* it has found work that blocks a restart
  ready,        \* ready_to_restart in the last answer
  asked,        \* number of requests to the maintenance API
  overtaken     \* history: a row was changed behind a copy that may be saved later

status == <<phase, left, listed, busy, ready, asked>>
drainVars == <<draining, entering, status, overtaken>>
allVars == <<vars, drainVars>>

Phases == {"off", "requested", "jobs", "ended", "follow", "staleJobs", "staleMessages", "stale",
           "active", "sessions", "messages"}

MaintenanceFree == phase \in {"off", "requested"} /\ ~entering

\* A thread at one of these steps may still save its copy of the session.
Copying == {"learn", "message", "touch", "list", "cancel", "supersede", "drop", "recover", "choose",
            "reserve", "acquire", "resave", "complete", "resync"} \cup Launching \cup {"watch", "nested", "finalize"}

\* The active run, or a message that will be cancelled, is not what it was.
Overtakes ==
  overtaken' = \/ overtaken
               \/ active' # active /\ \E t \in Thread : pc'[t] \in Copying /\ view'[t] = active
               \/ \E t \in Thread : pc'[t] \in {"cancel", "drop"} /\ \E o \in todo'[t] : msg'[o[1]] # msg[o[1]]

-----------------------------------------------------------------------------
(* Turns of users                                                           *)

\* The drain is looked at before anything is done, ...
BeginTurn ==
  /\ MaintenanceFree /\ ~draining
  /\ Submit
  /\ UNCHANGED drainVars

\* Faulty form: it is not looked at again under the lock.
EnterTurnUnchecked ==
  /\ pc[Submitter] = "start" /\ MaintenanceFree
  /\ entering' = TRUE
  /\ UNCHANGED <<vars, draining, status, overtaken>>

\* ... and again under the lock.
EnterTurn ==
  /\ pc[Submitter] = "start" /\ MaintenanceFree /\ ~draining
  /\ entering' = TRUE
  /\ UNCHANGED <<vars, draining, status, overtaken>>

RefuseTurn ==
  /\ pc[Submitter] = "start" /\ MaintenanceFree /\ draining
  /\ Goes(Submitter, "idle")
  /\ UNCHANGED <<rows, provider, local, rest, drainVars>>

StartTurn ==
  /\ entering
  /\ StartRun
  /\ entering' = FALSE
  /\ Overtakes
  /\ UNCHANGED <<draining, status>>

-----------------------------------------------------------------------------
(* The maintenance API                                                      *)

\* set_backend_drain, or a mere request for the status: what the last answer
\* said is true for a drain that still goes on.
Request ==
  /\ phase = "off" /\ ~entering /\ asked < MaxStatus
  /\ asked' = asked + 1
  /\ phase' = "requested"
  /\ \E flag \in BOOLEAN : draining' = flag /\ ready' = (ready /\ flag)
  /\ UNCHANGED <<vars, entering, left, listed, busy, overtaken>>

\* backend_drain_status takes the lock, and lists the jobs that are not over.
BeginStatus ==
  /\ phase = "requested" /\ ~entering
  /\ phase' = "jobs"
  /\ left' = {s \in Slot : job[s].status = "pending"}
  /\ busy' = FALSE
  /\ UNCHANGED <<vars, draining, entering, listed, ready, asked, overtaken>>

\* get_job of the next one.  In the second round a job that is not over blocks
\* the restart.
AskJob(s) ==
  /\ phase \in {"jobs", "active"} /\ s \in left
  /\ Poll(Asker, s)
  /\ left' = left \ {s}
  /\ busy' = (busy \/ (phase = "active" /\ seen'[Asker].status \notin Terminal))
  /\ UNCHANGED <<draining, entering, phase, listed, ready, asked, overtaken>>

Asked == left = {} /\ pc[Asker] = "idle"

\* Jobs that are over, and whose side effects are not, ...
ListEnded ==
  /\ phase = "jobs" /\ Asked
  /\ phase' = "ended"
  /\ left' = {s \in Slot : job[s].status \in Terminal /\ ~job[s].processed}
  /\ UNCHANGED <<vars, draining, entering, listed, busy, ready, asked, overtaken>>

\* ... get them from _sync_terminal_job_side_effects.
SyncEnded(s) ==
  /\ phase = "ended" /\ s \in left /\ pc[Asker] = "idle"
  /\ left' = left \ {s}
  /\ serving' = [serving EXCEPT ![Asker] = s]
  /\ seen' = [seen EXCEPT ![Asker] = job[s]]
  /\ Goes(Asker, "lock")
  /\ UNCHANGED <<rows, provider, view, target, direct, todo, rest>>
  /\ UNCHANGED <<draining, entering, phase, listed, busy, ready, asked, overtaken>>

\* The sessions are listed, and their follow-ups reconciled.
ListSessions ==
  /\ phase = "ended" /\ Asked
  /\ phase' = "follow"
  /\ listed' = active
  /\ Reconcile(Resolver)
  /\ UNCHANGED <<draining, entering, left, busy, ready, asked, overtaken>>

\* _reconcile_stale_active_agent_runs, on that copy of the session: a run
\* without a job and without a message in flight is over.
FindJobs ==
  /\ phase = "follow" /\ pc[Resolver] = "idle"
  /\ phase' = IF listed = NoRun \/ \E s \in Slot : RunOf(s) = listed /\ job[s].status = "pending"
              THEN "staleJobs" ELSE "staleMessages"
  /\ UNCHANGED <<vars, draining, entering, left, listed, busy, ready, asked, overtaken>>

FindMessages ==
  /\ phase = "staleMessages"
  /\ phase' = IF \E s \in Slot : RunOf(s) = listed /\ msg[s].status \in Waiting
              THEN "staleJobs" ELSE "stale"
  /\ UNCHANGED <<vars, draining, entering, left, listed, busy, ready, asked, overtaken>>

EndStaleRun ==
  /\ phase = "stale"
  /\ phase' = "staleJobs"
  /\ active' = NoRun
  /\ UNCHANGED <<msg, job, provider, pc, local, rest>>
  /\ Overtakes
  /\ UNCHANGED <<draining, entering, left, listed, busy, ready, asked>>

\* The jobs that are not over are listed again.
ListActive ==
  /\ phase = "staleJobs"
  /\ phase' = "active"
  /\ left' = {s \in Slot : job[s].status = "pending"}
  /\ UNCHANGED <<vars, draining, entering, listed, busy, ready, asked, overtaken>>

\* Faulty form: only jobs and messages count.
ReadSessionsNot ==
  /\ phase = "active" /\ Asked
  /\ phase' = "messages"
  /\ UNCHANGED <<vars, draining, entering, left, listed, busy, ready, asked, overtaken>>

\* A session with an active run blocks the restart, ...
ReadSessions ==
  /\ phase = "active" /\ Asked
  /\ phase' = "messages"
  /\ busy' = (busy \/ active # NoRun)
  /\ UNCHANGED <<vars, draining, entering, left, listed, ready, asked, overtaken>>

\* ... and so does a message in flight.
Report ==
  /\ phase = "messages"
  /\ phase' = "off"
  /\ ready' = (draining /\ ~busy /\ \A s \in Slot : msg[s].status \notin Waiting)
  /\ UNCHANGED <<vars, draining, entering, left, listed, busy, asked, overtaken>>

-----------------------------------------------------------------------------
\* The chain goes on meanwhile, on the stack of the status or on others.  If the
\* Resolver ends the run, it does so in the copy that the status has, too.
Chain ==
  /\ \/ \E t \in Thread : Step(t)
     \/ \E s \in Slot : Callback(s) \/ Finish(s)
  /\ listed' = IF pc[Resolver] = "finalize" /\ pc'[Resolver] = "idle" /\ view[Resolver] = RunOf(target[Resolver])
               THEN NoRun ELSE listed
  /\ Overtakes
  /\ UNCHANGED <<draining, entering, phase, left, busy, ready, asked>>

DrainInit ==
  /\ Init
  /\ draining = FALSE /\ entering = FALSE
  /\ phase = "off" /\ left = {} /\ listed = NoRun /\ busy = FALSE /\ ready = FALSE /\ asked = 0
  /\ overtaken = FALSE

DrainNext ==
  \/ BeginTurn \/ EnterTurn \/ RefuseTurn \/ StartTurn
  \/ Request \/ BeginStatus \/ ListEnded \/ ListSessions \/ FindJobs \/ FindMessages
  \/ EndStaleRun \/ ListActive \/ ReadSessions \/ Report
  \/ \E s \in Slot : AskJob(s) \/ SyncEnded(s)
  \/ Chain

DrainSpec == DrainInit /\ [][DrainNext]_allVars

-----------------------------------------------------------------------------
(* Properties.                                                              *)

\* Every variable has its type.
DrainTypeOK ==
  /\ draining \in BOOLEAN /\ entering \in BOOLEAN /\ busy \in BOOLEAN /\ ready \in BOOLEAN
  /\ overtaken \in BOOLEAN
  /\ phase \in Phases
  /\ left \subseteq Slot
  /\ listed \in Run \cup {NoRun}
  /\ asked \in 0 .. MaxStatus

\* When a drain is reported complete, no turn of a user executes.
HumanTurnsWait == ready => \A r \in Run : exec[Entry(r)] # "pending"

\* Why turns wait.  What is saved of a job says that it goes on while its CLI
\* runs, and no thread has another copy of it; the row of a turn is always there,
\* that of a follow-up is not before the thread that launches it has saved it; ...
JobInv ==
  /\ \A s \in Slot :
       /\ calls[s] = 0 => job[s].status = "none" /\ exec[s] = "none"
       /\ exec[s] = "pending" =>
            /\ job[s].status \in {"none", "pending"}
            /\ \A t \in Slot \cup Poller :
                 serving[t] = s /\ pc[t] \notin {"idle", "lock"} => seen[t].status \notin Terminal
  /\ \A r \in Run : exec[Entry(r)] = "pending" => job[Entry(r)].status # "none"
  /\ \A t \in Thread : pc[t] = "save" => calls[target[t]] # 0

\* ... no turn enters while a status is computed or a drain goes on, and the
\* status misses no turn that has entered before.
LockInv ==
  /\ entering => ~draining /\ phase \in {"off", "requested"}
  /\ \A s \in left : job[s].status # "none"
  /\ \A r \in Run : exec[Entry(r)] = "pending" =>
       /\ phase = "active" => busy \/ Entry(r) \in left
       /\ phase = "messages" => busy
  /\ ready => draining

DrainInv == LaunchInv /\ DrainTypeOK /\ JobInv /\ LockInv /\ HumanTurnsWait

\* Why ready means quiet.  Threads launch follow-ups of a run only; ...
LaunchSteps == {"recover", "choose", "reserve", "acquire"} \cup Launching
LaunchesForRun == \A t \in Thread : pc[t] \in LaunchSteps => view[t] # NoRun

\* ... what is to be saved of an attached job is what the provider says; ...
AttachedInv ==
  \A t \in Thread : pc[t] \notin {"cancel", "drop"} =>
    \A o \in todo[t] : calls[o[1]] # 0 /\ (exec[o[1]] = "pending" => o[2] = "pending")

\* ... the copies are what they are copies of, as long as nobody is overtaken; ...
InStep ==
  \A t \in Thread :
    /\ pc[t] \in Copying => view[t] = active
    /\ pc[t] \in {"cancel", "drop"} => \A o \in todo[t] : msg[o[1]].status # "pending"

\* ... the message of a CLI that runs is in flight, once it is saved; ...
MessageInv ==
  \A s \in Slot : exec[s] = "pending" =>
    msg[s].status = "pending" \/ \E t \in Thread : pc[t] = "save" /\ target[t] = s

\* ... and no run becomes active after the sessions have been read.
ReadyInv ==
  /\ (phase = "messages" /\ ~busy) \/ ready => active = NoRun
  /\ ready => \A s \in Slot : exec[s] # "pending"

QuietInv ==
  /\ LaunchesForRun /\ AttachedInv
  /\ ~overtaken => InStep /\ MessageInv /\ ReadyInv

\* No CLI runs, and no thread is about to start one.
Quiet ==
  /\ \A s \in Slot : exec[s] # "pending"
  /\ \A t \in Thread : pc[t] \notin {"claim", "execute"}

\* Ready means quiet, as long as nobody has changed the active run, or a message
\* that is to be cancelled, behind the back of a thread that works on a copy.
ReadyUnlessOvertaken == ready /\ ~overtaken => Quiet

\* Ready means quiet.
ReadyIsQuiet == ready => Quiet
=============================================================================
