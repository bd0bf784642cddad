# A verification project for Codex CLI Mobile Bridge

The bridge lets a phone drive a local coding agent: a FastAPI backend
(`backend/app`) takes chat turns, runs the `codex` CLI for each of them, keeps
the chats in SQLite and lets a reviewer and a generator agent continue a turn on
their own. Two such backends, PROD and DEV, work together in a pipeline that takes
a change of the bridge itself from a handoff to `dev/main`. This directory holds TLA+ models of the parts of the backend where
threads, crashes and stale copies meet, the TLC runs that check them, and TLAPS
proofs of what must hold for any number of turns, threads and crashes.

Line numbers refer to the repository's files; `PROJECT.json` maps every
definition of a model to the lines it stands for.

## 1. Inventory

| Component | State it keeps | Operations | Interacts with |
|---|---|---|---|
| Message outbox `application/services/message_outbox_service.py` | SQLite table `message_intake` (state, lane, sequence), counter `_active`, a thread pool, an RLock | `accept`, `retry`, `discard`, `get`, `wake`, `_process`, `close`, recovery in `__init__` | calls `MessageService.submit_message` and `find_client_submission` |
| `MessageService` `application/services/message_service.py` | the chat repository; in memory: terminal locks per job, recovery guard, maintenance lock, registered watches | `submit_message`, `get_job`, `retry_job`, `cancel_job`, side effects of a job, the agent chain, recovery and cancellation of reserved follow-ups, reconciler, drain | provider (`execute`, `get_snapshot`, `watch_job`), repository |
| Local provider `infrastructure/execution/local_provider.py` | dictionaries under one lock: states, processes, queued executions, serial tails, successors, predecessors, subscribers; one thread, one process and two readers per job | `execute`, `cancel_job`, `watch_job`, `_run_job`, `_set_state`, hand-over | calls the subscribers outside its lock |
| Chat repository `infrastructure/persistence/sqlite_chat_repository.py` | sessions, messages (unique dedupe key), jobs, runs | one transaction per call; `save_turn` and `reserve_message` are compound | everybody works on copies between two calls |
| Drain (in `MessageService`) | `_drain_requested` | `set_backend_drain`, `backend_drain_status` | restart scripts, `control_agent` |
| `JobStreamHub` `infrastructure/realtime/job_stream_hub.py` | a signal queue of length 1 per WebSocket | `stream_job` | `watch_job`, whose listeners it gives to the event loop; `get_job`, on the event loop |
| Feedback queue `feedback_queue_service.py` | one JSON file and media files | create, delete, clear, submit, batches | routes call it from a thread pool |
| DEV pipeline `dev_pipeline_service.py`, `api/routes.py`, the auto-runner of `main.py` | one JSON file: handoffs, backlog, specs, stages, chat bindings, runs, merge queue, promotions; git worktrees and branches | enqueue, claim, materialize, bind, start, pause, resume, cancel, retry, project a run, queue and apply a merge, promote | PROD enqueues, DEV works; `MessageService` for the chats and jobs of stages; git |
| Pipeline quality and acceptance `acceptance_workflow.py`, `pipeline_quality_service.py`, `mcp_apps/mobile_pipeline/worker.py` | evidence packets in a database of their own | capture, validate, retry | gate of a merge |
| Generator/reviewer launches `generator_reviewer_launch_service.py` | ledger of launches, a database of its own, under a file lock | `launch`, `get`, reconciliation | `MessageService.create_session`, `update_agent_configuration`, `submit_message`, stored jobs |
| Factories, SDD services, previews, updates, secrets, assets | files and records | mostly sequential | `MessageService` for jobs |
| Control agent, WhatsApp and meeting ingest | own processes and stores | poll, submit, restart | HTTP API |
| Mobile app `frontend/mobile_app` | local chat state, a send queue | sends and polls | HTTP API |

What is hard here:

* **Stale copies.** `MessageService` reads a session, message or job, works on
  the object and saves it whole. Two threads that do this at once overwrite each
  other; locks cover parts of the way only (the terminal lock of *one job*, the
  recovery guard for launches, the maintenance lock for human turns).
* **Callbacks on foreign stacks.** `watch_job` calls back at once if the job has
  ended, on the stack of the caller and with the locks it holds.
* **At most once.** A CLI run changes files of a workspace. After a crash or a
  failed save nobody may run a turn again, yet none may be forgotten.
* **One turn at a time.** Two CLI processes in one provider session corrupt it;
  the provider keeps a doubly linked queue per chat that cancellations, late
  output and hand-overs change concurrently.
* **Crashes** between two commits, in several databases (outbox, chat store,
  ledger of launches) and a file, none of which share a transaction.
* **One file, three writers.** Every operation of the DEV pipeline reads the whole
  state, changes its copy and writes the whole file through one temporary name,
  without a lock; a torn or missing file reads as the empty state.
* **Long steps.** A merge takes minutes between its preflight and its last command,
  and agents, operators and developers commit meanwhile.

The single hazards, each with its line and the properties aimed at it, are in
`PROJECT.json`.

## 2. Modules

| Module | Models | Lines of code |
|---|---|---|
| `MessageOutbox` | the durable intake queue, its pool and its recovery | `message_outbox_service.py`, what it sees of `submit_message` |
| `SerialExecution` | queue, threads and processes of the local provider | `local_provider.py` 157-565, 1630-1945 |
| `AgentRun` | a chat's runs: submission, side effects of jobs, agent chain, follow-ups | `message_service.py` 1111-1298, 2081-2112, 2344-2657, 2914-3009, 3491-4055 |
| `BackendDrain` | the drain before a restart, on top of `AgentRun` | `message_service.py` 604-759, 1132, 1263-1296 |
| `JobStream` | a job watched over WebSockets: subscribers, signals, snapshots | `job_stream_hub.py`, `local_provider.py` 262-312, 1802-1864, `message_service.py` 2081-2112, 2415-2442 |
| `TurnDelivery` | what the outbox promises, without rows, threads and crashes | the receipts of `message_outbox_service.py` |
| `AgentLaunch` | the ledger of launches and their steps | `generator_reviewer_launch_service.py` 56-238 |
| `DevBacklog` | the state file of the DEV pipeline from a handoff to the first run of its stage | `dev_pipeline_service.py` 393-1430, 4362-4380, `routes.py` 790-1090, `main.py` 149-215 |
| `StageMerge` | runs of a stage and the merge queue to `dev/main` | `dev_pipeline_service.py` 1272-1842, 3450-3748, `routes.py` 500-560, 1200-1420 |
| `FeedbackQueue` | the file of feedback items and batches, and the requests on it | `feedback_queue_service.py` 14-36, 134-156, 337-472, 584-864, `routes.py` 4854-4960, 5160-5272, 5357-5543 |
| `MC*` | small instances of these for TLC | |
| `*Proofs` | theorems and their proofs | |

Some definitions have a *faulty form* beside them, named for its fault
(`FitsOffByOne`, `CanLaunchByNow`, ...). No action uses these; each is a
plausible bug, and TLC finds the property named in `PROJECT.json` violated when
the faulty form takes the place of the definition.

### MessageOutbox

*State.* `state` and `seq` are the columns of `message_intake`, `lastSeq` its
AUTOINCREMENT counter, `saved` the chat store's knowledge of a turn: these are
durable. `active`, `pool`, `pc` and `row` are the counter `_active`, the tasks of
the executor and its threads; `phase` tells whether the process is up. `executed`
counts how often an execution began.

*Actions.* `Accept`, `Retry`, `Discard` are the requests; each ends with `Wake`,
the loop of `wake()` as one step (it runs under the lock). A pool thread goes
through `StartTask`, `PrepareFails` or `MarkSubmitting`, then `submit_message` as
`SubmitRefused` or `Execute` and `SaveTurn`, then `Complete` or `Reconcile`, and
`ReleaseSlot` and `WakeNext`. `Crash`, `Restart`, `Resume`, `Close` and `Stop` are
the life of the process.

*What makes it correct.* A submission is executed once at most
(`AtMostOneExecution`); what may be retried was never executed (`RetryIsSafe`); a
receipt "accepted" is true (`AcceptedWasExecuted`); a lane runs in the order of
arrival and one turn at a time, parked turns included (`ExecutesInLaneOrder`,
`OneInFlightPerLane`); settled rows stay (`SettledForGood`); the slot counter is
exact (`ActiveCountsTasks`), the capacity holds (`OpenRowsBounded`), and if a row
could start and a slot is free then somebody is about to look (`NoLostWakeup`).
Under fairness the head of every lane leaves the queue (`HeadProgresses`).

`TurnDelivery` states the same from the phone's side: a receipt, the turns before
this one, and how often it was executed. `Delivers` is its specification under the
mapping `Receipt` (uncertain, failed, queued and submitting rows are "pending" to
the phone) and says that every step of the outbox is one of its steps. A row's
recovery after a crash is `Acknowledge` of several turns at once, everything else
inside the backend is a stutter.

### SerialExecution

*State.* `status` is `_states`, `queued` and `keyed` the keys of
`_queued_executions` and `_job_serial_keys`, `tail`, `succ` and `pred` the three
link tables, `submit`, `worker` and `cancel` the program counters of `execute()`,
of the job's thread and of `cancel_job()`, `process` and `reading` the CLI and its
output pipe, `sawProcess` what `cancel_job` has seen.

*Actions.* Every critical section of `_lock` is one action, so that `execute()` is
`Register`, `Announce`, `Start`; the thread is `Begin`, `Prepare`, `Launch`,
`RegisterProcess`, `Reap`, `Judge`, `Decide`, `HandOver`, `Clean`, or `Raise` where it
may die of an exception that nobody catches; `cancel_job` is
`CancelCheck`, `CancelSet`, `CancelHandOver`, `CancelAct`; and the CLI and its
reader are `ReadLine`, `Exit`, `EndOfOutput`. `GuardOf` says which lock of
`MessageService` the caller of `execute()` holds: the maintenance lock for human
turns, the recovery guard for follow-ups. `LateOutput` are the jobs whose reader
outlives the one second for which the thread waits, `Hanging` those whose CLI may never
end: the timeout of the settings is 0 unless somebody configures one, and the thread then
waits without any.

*What makes it correct.* In every interleaving: the two link tables agree, a
waiting job has no thread, the tail is the end of its list, no list has a cycle
(`ListInv` and its parts), a job gets one thread (`StartedOnce`), and who is told to
wait has somebody to wait for, unless a cancellation took a running turn of the chat for
a waiting one (`WaitsUnlessTakenOut`). For turns submitted under one lock and not
cancelled: processes of a chat never overlap (`RunsAlone`), a job that waits has
somebody to wait for (`WaitsForSomething`), and every turn runs, unless the chat waits
for a thread that has died or for a CLI that hangs (`EveryTurnRuns`). A thread that dies
keeps its place for ever, so that without this reservation turns do not end
(`EveryTurnEnds` is violated).

### AgentRun

*State.* `active`, `msg` and `job` are rows of the chat store (the session's
`active_agent_run_id`; status and `job_id` of a message; status and
`auto_chain_processed` of a job). `exec` and `watched` are the provider's.
Every thread has a program counter `pc` and its copies: `seen` of the job, `view`
of the session, `todo` of messages, and `target`, the follow-up it launches.
`host` is the thread whose stack a callback runs on, because the recovery guard is
reentrant for it. `calls` counts executions.

A message is named by its *slot* `<<run, agent, turn>>`, which is its dedupe key.

*Actions.* One per call of the repository or provider: `Poll`, `Callback`,
`StoreJob`, `TakeLock`, `ReadSession`, `LearnSession`, `SyncMessage`,
`TouchSession` are `get_job` and the side effects; `ReadForChain`, `Choose`,
`Reserve`, `ResaveSession`, `CompleteRun`, `MarkProcessed` the agent chain;
`Recheck`, `Claim`, `Execute`, `SaveTurn`, `Watch`, `NestedReturns` the launch of a
follow-up; `Recover`, `RereadSession`, `SyncAttached` the recovery; `List`,
`Cancel`, `Reconcile` the cancellation of follow-ups and the reconciler; `Submit`,
`StartRun` a human turn; `Finish`, `Crash`, `SaveTurnFails` the environment.

*What makes it correct.* A follow-up is sent to a CLI once at most, through races,
crashes and failing saves (`OncePerFollowUp`), and one that may still be launched
was not sent (`ReservedIsUnsent`); agents take turns (`TakeTurns`); a follow-up
without a job is always resolved (`FollowUpsResolve`). What the code does *not*
keep, and its tests and texts say, are the departures of section 3.

### BackendDrain

*State.* `AgentRun`'s, and `draining`, the flag `_drain_requested`; `entering`, whether
a turn of a user holds the maintenance lock; `phase`, where the computation of a status
is, which holds that lock otherwise; `left`, the jobs it has listed and not asked for,
`listed` the active run in its copy of the session, `busy` whether it has found work;
`ready`, the last answer. The thread of a status has two names: `Asker` while it is in
`get_job`, `Resolver` while it reconciles follow-ups. `overtaken` remembers, for a
property, that the active run changed while another thread had a copy of the session
that it may save, or a message while another thread had it on its list to be cancelled.

*Actions.* `Request` is a request, with a change of the flag or not. The status is
`BeginStatus`, `AskJob` for each job, `ListEnded` and `SyncEnded` for those without side
effects, `ListSessions`, `FindJobs`, `FindMessages` and `EndStaleRun`, `ListActive` and
again `AskJob`, `ReadSessions`, `Report`. A turn of a user looks at the flag before it
does anything (`BeginTurn`) and again under the lock (`EnterTurn`, or `RefuseTurn`,
which comes after follow-ups were cancelled), and is started (`StartTurn`). `Chain` is
every other step of `AgentRun`: follow-ups look neither at the flag nor at the lock.

*What makes it correct.* A drain that is reported complete has no turn of a user that
executes (`HumanTurnsWait`): the lock makes the second look at the flag and the save of
the turn one step, and a status that misses a turn does not exist. That no follow-up
executes either, or is about to, holds unless a copy of the session, or of a message, may
be saved over a newer one (`ReadyUnlessOvertaken`). Without the first reservation it does
not (`ReadyIsQuiet`): the status itself may end a run whose callback is between two saves,
and the callback brings the run back. The second one takes two turns: the second turn
lists a reserved follow-up of the first to cancel it, the follow-up is launched, and the
listed copy is saved, so that the message says "cancelled" while its CLI runs; when then
the first job is polled with a stale copy, its chain ends the run and nothing tells the
status of that CLI. The run of this module has one turn; that the reservations suffice
for any number of turns is the theorem `ReadyMeansQuiet`.

### JobStream

*State.* `state` is the provider's entry in `_states`, `toCall` the listeners that
a publisher copied under the lock and has still to call, `subscribers` those of the
job; `row` is the stored job, `scheduled` the callbacks that wait in the event loop
for a client, `signal` whether its queue is full, `sent` its last snapshot. `pc` and
`copy` are the next step and the copy of the job of each stream and of each other
thread in `get_job`. The content of a job is its status and the number of its last
change.

*Actions.* `Progress`, `End`, `CancelCheck`, `CancelSet` are the publishers, each
with `SetState`; `Notify` calls one listener. `get_job` is `StartGetJob`, `Store`,
then for a job that has ended `Lock`, `Mark`, `Return`; it runs for the streams on
the event loop, where nothing else happens meanwhile (`LoopFree`), and for `Poll`
beside it. A stream is `Connect`, `Send`, `Subscribe`, then `Wake` and `Send` again
for each signal, until `Close`; `Enqueue` is `_enqueue_signal`; a client may
`Disconnect`.

*What makes it correct.* A queue of one signal loses nothing, because the signal is
taken before the job is read and `watch_job` calls back at once (`NoLostUpdate`);
what a client is told as the result is what is stored (`ResultIsStored`); snapshots
never go back (`SnapshotsAdvance`); and the stream of a job that has ended ends
(`EndReported`). All four are stated for behaviours in which no thread saves an
older copy of the job over a newer one (`replaced`): `get_job` can do that, since
between its snapshot and its save it holds no lock. Then a stream may read a running
job after the end, and wait for a signal that nobody sends.

### AgentLaunch

*State.* `row` and `job` are the columns of `launches`, `chat`, `configured` and
`stored` the target chat, its agents' prompts and its stored jobs: these are
durable. `holder` is the file lock, `pc` and `call` the step and the launch of each
request. `executed` counts how often the provider started the kickoff.

*Actions.* `Ask` is a request; `Get` is `get()`, `Reuse` and `Reserve` the two ways
into `launch()`; then one action per commit or call: `CreateChat`, `CheckUnused`,
`Configure`, `MarkConfigured` or `PreparationFails`, `Start`, then `submit_message`
as `Refused` or `Send` and `SaveTurn`, and `Confirm` or `LookUp`. `UserTurn` is a
turn that the user sends in the target chat, `Die` the end of a process.

*What makes it correct.* The kickoff is sent once at most (`KickoffOnce`); a launch
that failed or may go on has sent none (`UnsentIsUnsent`), and where it is sent the
agents have their prompts (`SentToConfiguredChat`); a receipt is not taken back
(`ReceiptStands`) and names a job of the chat, the kickoff where it is known
(`ReceiptTrue`); nobody waits for ever for the ledger (`Answered`). What the texts
promise beyond it, `StartedMeansSent`, does not hold: a single turn of the user is
taken for a kickoff that was refused.

### DevBacklog

*State.* `file` is what the state file can be read as, `tmp` and `named` the
temporary file and whether it has its name, `fd` which of the two each actor writes
to. `todo`, `phase`, `copy` and `call` are the operation of each actor, how far its
read, change and write has come, the state it works on and what it was asked.
`worktree`, `owner` and `sent` are the world outside: worktrees, chats and kickoffs.
For the properties, `seen` remembers the worst disturbance so far (two writers that
overlap, or two starts of a chat that meet), `kickoffs` how many kickoffs a stage got
since an error last made its run be forgotten, and `stray` the stages of which such a run
goes on.

*Actions.* The actors are PROD (`Enqueue`, `EnqueueAgain`), the event loop of DEV
(`Notify`, `Pick`, `AskMaterialize`) and the auto-runner (`Tick`). A notification or a
tick goes on through `Claim`, `Materialize`, `Materialized` or `Blocked`, `FindChat` or
`CreateChat`, `Bind`, `Prepare`, `Submit`, `Record` and `Annotate`; each change ends
with `Open` and `Replace`, or `ReplaceFails` when another took the temporary file
away, or `WriteFails`. `SubmitFails` is a message that is refused, `SubmitRaises` an error
of `submit_message` after it has started the job; either, and an error in `Record`, leads
to the record that the stage is blocked, and to a retry (`Raises`, `Forgets`). `StopDev`
and `StopProd` are crashes at any step.

*What makes it correct.* However its versions mix and tear, what the file says
happened did happen (`ReportsTrue`). Acknowledged handoffs stay (`AcceptedKept`) and
are claimed once (`ClaimedOnce`) unless a read, change and write overlapped another,
and a stage gets one kickoff, and another only after an error that left the first run on
no record (`OneKickoff`), unless the process stopped, two starts met or a write was lost.
That claims are exclusive without this reservation, as the specification says, is violated
(`ClaimsExclusive`), and so is that no error leads to a second kickoff (`OnlyKickoff`).

### StageMerge

*State.* `record` is the part of the state file about runs and merges; `job` is the job
that each run names, `fresh` one that the request under way has started and no run names
yet, `strays` are the runs for which a job works that none will ever name, and `follow` the
stages in which an agent works on a follow-up. A branch is the set of commits that its tip
reaches: `head` and `main`. `pc` is how far the request has come that the event loop serves,
`asked` the run or `merge` the merge that it is about, and `target`, `source`, `tree` and
`outcome` what git has told of that merge. `landed`, `gated`, `smuggled`, `raced` and
`raised` remember what was merged, what a preflight saw, what came into the tree only,
whether the branch moved meanwhile, and of which runs a request failed after it had started
the job.

*Actions.* A request that starts or stops a job records that afterwards, step by step: a
start is `Submit`, `RecordStart` and `Project`, a retry `Retry`, `PlanRetry`, `NameRetry` and
`Project`, a cancellation `Cancel`, `RecordCancel` and `Project`. Between the steps jobs may
end, the process stop, or the request fail (`RequestFails`: the file cannot be written);
`Raises` is `submit_message` or `retry_job` that fails after it has started the job. `Report`,
`Pause` and `Resume` are requests of one step. `JobEnds`, `FollowUpEnds`, `AgentCommits`,
`Updates` and `DeveloperCommits` are the agents, operators and developers; `Queue`,
`ApplyBlocked` and `Apply` the requests about a merge, which goes on as `DoctorPasses`,
`ResolveTarget`, `ResolveSource`, `MergeTree`, `UpdateRef` and `RecordOutcome`, one action
for each process of git whose result is used. `Crash` ends all of it.

*What makes it correct.* `dev/main` only grows (`MainGrows`); what is reported as
merged is on it (`MergedLanded`); one merge at a time is reported to be applied, those
that a crash left included (`OneApplying`); only what a preflight saw gets in, unless
the branch moves while its merge is applied (`GatedOnly`); and no run is reported as
ended or unknown while a job works that it names, or that no request will name any more,
unless a request failed after it had started the job (`RunTold`). The texts say more than
the code keeps: `EveryRunTold`, without that reservation, `ReviewerDone` and
`OneActiveRun` are violated.

### FeedbackQueue

*State.* `file` is the JSON file: for each item whether it is there, its status and
whether it has its target; for each batch whether it is recorded, has a summary and a
notification, and whether that was read. `media` are the items whose screenshot is
stored. `sent`, `job` and `follow` are the world outside: items that an agent was given,
the first job of a batch, and the batches whose agents go on after that job. `plan` is
what a request has still to do, one operation after the other, `step` where it is in the
first of them, `copy` the items or batches it works on, `record` the batch it answers
about. `stale`, `overlapped`, `disturbed`, `stored`, `broken`, `bared` and `acked` remember,
for the properties, whose copy is older than the file, whether one operation has replaced
what another wrote, which batches share an item with another request, which items a batch
has stored, which batches an error ended that the code does not undo, which items an error
left while they were deleted, and what was acknowledged.

*Actions.* `Ask` is a request: to create, delete or submit an item, to clear the queue,
to start a batch, to look at one, to mark its notification as read or unread. An operation
on the file is `Load`, `Reload` and `Replace`, as each save reads the file a second time to
keep the parts it does not know; `StoreMedia` comes before it, `Unlink` in its middle.
`LoadFails` is the KeyError for what is not there, `Skip` an operation with nothing to do.
Between them come `Attach`, `Submit`, `Look` and `Respond`. Errors may come everywhere:
`StoreMediaFails` (a screenshot that is refused, or cannot be written), `SaveFails`,
`AttachFails`, `SubmitFails`, and `SubmitRaises`, when `submit_message` fails after it has
started the job. What a batch then does depends on where it is: `Undo` deletes all its items
and then raises the error, `UndoStored` those that it has stored so far, and an OSError while
they are stored undoes nothing. `JobEnds` and `FollowEnds` are the agents, and `Crash` may
come at any step.

*What makes it correct.* However its versions mix, what the file says happened did happen
(`FileTruthful`). Unless an operation replaces what another has written since it was
loaded, what was acknowledged stays until somebody deletes it (`Kept`), an item has its
screenshot (`Illustrated`), and a batch is recorded with all its items submitted or leaves
nothing that it stored (`BatchWhole`), whatever is refused, missing or undone on the way. The
last has exceptions: others create or delete its items; an error of the disk, or one
after the job was started, ends it (`broken`); or the batch names an item twice, since
the undo then ends where that is to be deleted a second time, and leaves the items after it.
What the texts promise without these reservations (`AcceptedStays`, `JobsRecorded`,
`AllOrNothing`), and two things more, that a batch is complete when its workflow is
(`CompleteIsDone`) and that an item keeps its target (`TargetStays`), do not hold. (The file
has the target: `to_dict` writes it and `from_dict` reads it; it is lost where
`mark_submitted` and `set_audio_transcript` build the item anew.)

## 3. Runs

| Run | Instance | Shows |
|---|---|---|
| `outbox_safety` | 3 submissions, 2 lanes, 2 threads, capacity 2 | safety of the outbox with crashes at any commit, and that it implements `TurnDelivery` |
| `outbox_progress` | 3 submissions, 1 thread, capacity 3, fair | heads of lanes progress |
| `serial_orderly` | 3 turns of a chat, one caller's lock, no cancellation, all output late, threads that may die, a first CLI that may hang, fair | turns are serialized, and all run unless the chat is stuck |
| `serial_races` | human turn, follow-up, human turn; the second may be cancelled, the first has late output and may hang | the queue stays well formed, and waiting turns have somebody to wait for |
| `agent_chain` | 1 run, 1 review, 2 generator turns, reconciler, 1 fault, fair | at most once, alternation, resolution |
| `agent_drain` | 1 run, 1 + 1 turns, 1 request to drain, or for a status | ready to restart means that nothing executes |
| `agent_launch` | 2 launches, 2 requests, 2 turns of the user, fair | one kickoff, true receipts, a ledger that is given back |
| `dev_backlog` | 2 handoffs of 1 stage, 2 workers, 2 chats, 4 requests or ticks | the file tells the truth; handoffs are kept, claimed and kicked off once |
| `stage_merge` | 2 stages, 2 runs, 2 merges, 3 commits | merges land, one at a time, gated, nothing on `dev/main` is lost, and runs are reported as they are |
| `feedback_queue` | 2 items, 1 batch of both, one with a recording; 3 requests, 2 at a time | the file tells the truth; what is accepted stays, illustrated and whole |
| `job_stream` | 1 client, 1 poller, 1 cancellation, 1 line of output, which may be late, fair | signals, snapshots and the end of a stream |

A violation run shows where the code departs from what its tests or texts say.
`PROJECT.json` quotes these, for every departure, and tells the story of each counterexample.

| Run | Property | In a sentence |
|---|---|---|
| `agent_circle` | `NoCircularWait` | recovery guard and terminal lock are taken in both orders |

Further departures can be reproduced with the configurations that are kept beside
these (`tlc -config MCSerialOverlap.cfg MCSerialExecution`), or by adding the property
to a configuration:

| Configuration | Property | In a sentence |
|---|---|---|
| `MCSerialOverlap.cfg` | `RunsAlone` | a job is the tail of its chat before it has a state; the next one starts at once |
| `MCSerialStranded.cfg` | `WaitsForSomething` | a queued job is cancelled during the hand-over to it; the next one is never started |
| `MCAgentRunStale.cfg` | `OnlyTurnsActivate` | a late save of the session brings back a superseded or completed run |
| `MCAgentRunTurns.cfg` | `TakeTurns` | a stale poll makes a completed message pending, and turns are miscounted |
| `MCBackendDrainReady.cfg` | `ReadyIsQuiet` | the status ends a run between two turns, and a late save brings it back |
| `MCSerialOrderly.cfg` with it | `EveryTurnEnds` | a thread dies of an exception, and keeps its job running and its chat waiting |
| `MCDevBacklogClaims.cfg` | `ClaimsExclusive` | a write that overlaps a claim puts the item back to queued |
| `MCDevBacklog.cfg` with it | `OnlyKickoff` | `submit_message` raises after it has started the job; the next notification starts another |
| `MCStageMergeReview.cfg` | `ReviewerDone` | a run counts as completed when the generator's first turn is over |
| `MCStageMergeReview.cfg` with it instead | `EveryRunTold` | a retry raises after it has started the job, which works while its run is reported as failed |
| `MCAgentLaunch.cfg` with it | `StartedMeansSent` | a turn of the user is taken for the refused kickoff |
| `MCStageMerge.cfg` with it | `OneActiveRun` | a retry does not look at the other runs of the stage |
| `MCFeedbackQueue.cfg` with it | `AcceptedStays` | a save drops the item or the mark that another request has just stored |
| `MCFeedbackQueue.cfg` with it | `JobsRecorded` | an item is deleted while its batch is submitted; the batch runs without a record |
| `MCFeedbackQueue.cfg` with it | `AllOrNothing` | an OSError leaves the items that a batch has stored so far |
| `MCFeedbackQueue.cfg` with it | `CompleteIsDone` | a batch is complete when its first job is, before the reviewer |
| `MCFeedbackQueue.cfg` with it | `TargetStays` | marking or transcribing an item rebuilds it without its target |

*Bounds and why they are enough.* Three submissions in two lanes give a lane with
a head and a follower beside an independent lane; two threads give every race of
two critical sections; a capacity below the number of submissions is reached. In a
chat's queue three jobs are needed for a middle one whose neighbours both exist.
For the agents one review and two generator turns are the shortest chain with both
directions of the hand-over; two runs are needed to supersede one, which is what
`MCAgentRunStale.cfg` has; `MaxFaults = 1`
crash or failed save can come at any step of a launch and of the recovery after
it. `submitted`, `calls` and `faults` only grow, bounded by `Runs`, the
properties and `MaxFaults`; `seq` is bounded by the number of submissions. Clients
of a stream meet only in the stored job, where the poller stands for the others; a
line of output, the end and a cancellation are three changes that may meet in a
queue of one. A status
polls every job twice and reconciles the chat while callbacks and the chain go on, so that
`MaxStatus = 1` request has the races of a drain with a turn before, under and after it;
the proofs have any number. Launches meet in the ledger's lock only, and two requests may be for the
same launch or for different ones. Two handoffs of one stage with `MaxCalls = 4`
requests or ticks are enough for an enqueueing on each side of a claim and for a
notification and a tick that meet at the same stage; handoffs and chats are symmetric. A
view drops what can make no difference any more: the temporary file while nobody writes,
which the next writer truncates, and the ghosts of a property once its reservation (`seen`)
has come true.
Of the commits, `MaxCommits = 3`, one is a merge, one comes from an agent and one from a
developer, in any order; one stage has two runs, and each of two stages a merge. In the
feedback queue two requests at a time are every overlap of two operations, and `MaxRequests = 3`
lets a third come before or after them; a batch of two items can be half created and half
marked. The requests are symmetric.

*Fairness.* Weak fairness for what a running thread does next, for the end of a
CLI unless it is one of `Hanging` (no timeout is configured by default), for the callback of the provider,
for the reader at the end of its pipe and for the reconciler, whose loop sleeps
for an interval only. Nobody has to submit, poll, cancel, retry, raise, crash or restart.
`HeadProgresses` assumes in its premise that the service stays up and that users do
not go on retrying failed rows. In `JobStream` publishers call their listeners, the
event loop runs what is scheduled and coroutines go on; the lock of a job is fair in
the strong sense, as each holder gives it back after two saves. `EndReported` assumes
that the job has ended for good and that no stale copy is saved. In `AgentLaunch` the
holder of the ledger goes on (its calls return or raise) and the kernel serves those who
wait for the file lock, which is strong fairness of entering it.

`CHECK_DEADLOCK FALSE` stands in the configurations of `AgentRun` without a
reconciler, and of `BackendDrain`: there the system rests when all runs and requests are
over, or, with a poller, in the circle that `agent_circle` shows. In `MCJobStream.cfg` the system rests when the
stream is closed, or waits while the job does nothing; in `MCFeedbackQueue.cfg` it rests when
the bounded number of requests has been answered.

## 4. Proofs

All proofs are checked by `tlapm` to the last leaf; the assumptions are the named
`ASSUME`s of the modules (types and disjointness of the constants), which TLC
evaluates in the runs.

* `MessageOutboxProofs`: `Invariance` proves `Spec => []IInv`. The properties are
  not inductive by themselves: that nothing is executed twice needs to know that
  an executed row is saved, being executed, or in a state from which nobody starts
  it again (`ExecutionsAccounted`), that each row in flight has exactly one task,
  in the pool or at one thread, and that numbers of rows are distinct. From it
  follow `AtMostOneExecution`, `RetryIsSafe`, `AcceptedWasExecuted`,
  `ActiveCountsTasks`, `OneInFlightPerLane` and the action properties
  `ExecutesInLaneOrder` and `SettledForGood`. `ImplementsDelivery` proves the
  refinement of `TurnDelivery` step by step from the same invariant; `RowsBounded`
  needs that open rows are only added under `HasRoom`; `WakeupsKept` that whoever
  frees a slot, or makes a row runnable, looks again or leaves a task that will.
* `SerialExecutionProofs`: `ListInv` is inductive in every interleaving; the
  absence of cycles and the facts about unregistered jobs are what the four list
  properties lack. `WaitInv` says on top of it that, as long as no cancellation took a
  running turn for a waiting one, who waits has a predecessor, and this one will still look
  at its successor (`PassesOn`), which gives `WaitsUnlessTakenOut` for every caller. `TurnInv` on top of it, for callers that follow each other and
  no cancellation, is the argument why turns are serialized: one job owns the
  turn, everybody else is linked, directly or not, behind it, and the tail is
  where the next one joins.
* `AgentRunProofs`: `LaunchInv` says who may be at which step, that only one
  thread is between the check and the save of a launch (`OneLauncher`), and that
  what it launches is fresh and has been declared before (`LaunchesFresh`). Copies
  of any age may be saved by anybody at any time: the proof does not depend on
  what `view` and `seen` hold, which is why at-most-once survives all the stale
  saves of section 3.
  `TakeTurns` does depend on copies. It is proved for `Poller = {}`, the constants of
  the run that checks it, and not without that: `MCAgentRunTurns.cfg` shows the stale save of a
  poll that breaks it. `Choose` numbers the next turn by a count of completed messages, so
  `TurnsInv` has to say that the count is the turn just answered. A follow-up
  exists only together with the earlier ones of its agent (`TurnOrder`), hence, when the
  next number is free, the completed ones are all there are (`ReviewerTurns`,
  `GeneratorTurns`); the turn that is to be answered exists and nothing answers it yet
  (`AnsweredLast`), which leaves one number (`Chosen`). Nothing answers it because
  the end of a job is told once (`ToldOnce`), to the thread that then reserves, and a
  completed job stays completed because only that thread saves its copy (`OwnCopies`).
  Its second part is about `BackendDrain`: every step of a drain is a step of `AgentRun`
  or leaves what `LaunchInv` is about alone, so that `LaunchInv` is kept (`SentOnceInDrain` follows);
  `JobInv` says that a job whose CLI runs is stored as pending, if at all, and that nobody
  has another copy of it to save, `LockInv` that no turn enters during a status and that
  the status, from its second listing of jobs on, has each such turn still to ask for or
  has found it. From both follows `HumanTurnsWait`. `QuietInv` is about copies: until
  somebody is overtaken, whoever may save the session has it as it is, and what is listed
  to be cancelled has not been launched (`InStep`). Hence the message of a CLI that runs is
  in flight from the save of its turn on (`MessageInv`), a thread that launches does so for
  the active run (`LaunchesForRun`), and no run becomes active after a status has read the
  sessions (`ReadyInv`). From this follows `ReadyUnlessOvertaken`.
* `JobStreamProofs`: `StreamInv` adds to the properties that copies are not newer
  than the job (`Ordered`), that what a client was told is stored and its next
  snapshot is not older (`ToldIsStored`), that who synchronises the end works on a
  job that has ended (`EndIsFinal`), and that a subscribed client has a change on
  its way or the job as it is (`UpToDate`). From it follow `NoLostUpdate`,
  `ResultIsStored` and the action property `SnapshotsAdvance`.

* `AgentLaunchProofs`: `LaunchIInv` adds to the properties what the row says at each
  step of its holder (`RowFollows`) and where the one execution may be (`SentOnce`).
  That the holder is unique comes with `TypeOK`: who is inside the ledger holds its
  lock.
* `DevBacklogProofs`: `BacklogInv` says that not only the file but every text that may
  become the file is truthful: the copies of all actors and what a dead process left.
  Worktrees, chats and kickoffs only grow, and an actor that names a chat has been
  given one of its stage, so that truth is preserved by any mixture. On top of it
  `OrderInv` says what holds until two operations overlap: one actor reads, changes and
  writes, the temporary file is its own, the state file is one version, and what the
  actor holds follows from it by the one change that it makes (`Follow`: no handoff is
  dropped or freed, no stage and no run lost). From it follow `AcceptedKept` and
  `ClaimedOnce`. `KickInv` adds what holds until DEV stops or two starts of a chat meet:
  one actor is between the look at a stage and the record of its run, and a stage that
  has had a kickoff since an error last made its run be forgotten has a run, or that actor
  is about to record it (`OneKickoff`).
* `StageMergeProofs`: `MergeInv` says that a merge which git works on is the only one
  recorded as applying (`QueueOK`), that what git was given was there when the
  preflight passed, or the branch has moved since (`GateOK`), and that an outcome
  "merged" has landed before it is recorded (`LandedOK`). `RunsOK` says that a run is
  recorded as active while the job that it names runs, that a job which no run will name was
  left behind by a request that failed, and where a request stands that has started or stopped
  one; `RunTold` follows.
* `FeedbackQueueProofs`: `FeedbackInv` is built in layers. `PlanInv` tells from what a
  request has still to do where it is in starting a batch, or in deleting its items
  (`StartsAt`, `UndoesAt`), that only one request carries a batch, and that a job exists
  from one position on. `TruthInv` says that not only the file but every copy is true;
  since agents and jobs only go forward, so is any mixture of them (`FileTruthful`).
  `OnceInv`: a batch is entered once, and no copy holds it before. `FreshInv`: until an
  operation undoes another, a copy that is not marked as stale is the file with one
  operation, which is why `Replace` then does what the operation alone would do. With it
  `KeptInv` gives `Kept`, as who deletes has withdrawn the acknowledgement before;
  `MediaInv`, that a screenshot is there while its item is being created, gives
  `Illustrated`; and `WholeInv` gives `BatchWhole`: who is at position k of a start has
  stored just the items before it, which are there, and those it has marked are submitted
  (`Made`); who is at position j of the undo of the first n has the j-th to the n-th still to
  delete, and nothing else that it stored is left (`Left`); and a request that is about to
  write or delete items of a batch that are not its own is stale, or the batch has stored
  none yet (`Stranger`). `BrokenInv` says that a batch which an error has ended is not
  entered any more. The batches may
  have any length; that their items differ is needed for the undo only.

The type invariants of these modules are theorems only (`TypeCorrect`, `WellTyped`,
`StreamsTyped`), but for that of `FeedbackQueue`, which a run checks as well; the runs
check the properties that could be wrong.

Only model-checked: everything under fairness (`HeadProgresses`, `EveryTurnRuns`, `FollowUpsResolve`,
`EndReported`, `Answered`), as liveness
and ENABLED are out of the prover's reach, like induction over data and
RECURSIVE operators (the modules have none).

## 5. What is not modelled

`PROJECT.json` lists every component with the reason. Within the modelled ones:
summaries, titles and the supervisor preset of the chain, `retry_job`, consuming
services, the content and order of messages (in a run at most one follow-up waits
without a job, save for races, and then any may be the first), stage gates,
transcription, command lines, parsing of events, app-server and goal sessions,
model names; of the pipeline drafts and their grants, the text of specs, audit events,
cleanup and registration of stages by hand, evidence and quality packets (their verdict
is an input of a preflight, which may always block), promotion to PROD and updates of
PROD, and, in `StageMerge`, other writers of the state file, which `DevBacklog` is about.
Of the feedback queue quick asks, a third part of the file with operations of the same
pattern, uploads that are refused before anything is stored, recordings as files, and items
without a screenshot. A drain is modelled without
crashes and failing saves, with the polls of its status only, and without the retries
that it refuses as well.
A provider session id matters in one place: it decides whether the
session is saved before the message (`LearnSession`), which is left open.

## 6. Plan

Done: `MessageOutbox` with `TurnDelivery`, `SerialExecution`, `AgentRun` with
`BackendDrain`, `JobStream`, `AgentLaunch`, `DevBacklog`, `StageMerge`, `FeedbackQueue`
and their proofs.
Next:

1. `retry_job`, `cancel_job` and the supervisor's specialists in `AgentRun`; a run of
   two superseding turns with pollers for `FollowUpsResolve`.
2. An abstract mutual exclusion that `SerialExecution` implements for orderly callers.
3. Promotion to PROD, drafts and their grants in the pipeline.
