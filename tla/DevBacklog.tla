------------------------------ MODULE DevBacklog ------------------------------
(***************************************************************************)
(* The DEV pipeline from a handoff to the first run of its stage           *)
(* (application/services/dev_pipeline_service.py, api/routes.py, main.py). *)
(*                                                                         *)
(* All of its state is one JSON file.  Every operation reads the file,     *)
(* works on the whole copy, and writes the copy back: through a temporary  *)
(* file whose name is the same for everybody, and without a lock.  Three   *)
(* actors do so: the backend of PROD, which enqueues handoffs; the event   *)
(* loop of the DEV backend, which serves one request after the other; and  *)
(* the auto-runner, a thread of the DEV backend.  The last two also take a *)
(* claimed handoff through the creation of its worktree to the start of an *)
(* agent in the chat of its stage.                                         *)
(*                                                                         *)
(* Left out: the text of handoffs and drafts, the audit events, and the    *)
(* operations that come after the first run.                               *)
(***************************************************************************)
EXTENDS Naturals

CONSTANTS
  Handoff,    \* handoffs, one for each idempotency key
  Stage,      \* stages, one for each spec
  StageOf,    \* the stage of the spec that a handoff proposes
  Worker,     \* worker ids that requests may name
  AutoWorker, \* the worker id of notifications and of the auto-runner
  Chat,       \* chats that may be created
  NoWorker,   \* locked_by of a free item
  NoChat,     \* a request that has no chat yet
  NoCall,     \* an actor that is idle
  Prod, Loop, Runner,
  MaxCalls    \* bound on the requests and ticks

ASSUME StageAssumption == StageOf \in [Handoff -> Stage]
ASSUME WorkerAssumption == AutoWorker \in Worker /\ NoWorker \notin Worker
ASSUME ChatAssumption == NoChat \notin Chat
ASSUME CallsAssumption == MaxCalls \in Nat
ASSUME ActorAssumption == Prod # Loop /\ Prod # Runner /\ Loop # Runner

VARIABLES
  file,       \* what the state file can be read as: {} when it is missing or torn
  tmp,        \* the same for a temporary file that a dead process left
  named,      \* the temporary file has its name
  fd,         \* which file each actor has open for writing
  todo,       \* the operation of each actor
  phase,      \* how far its read, change and write has come
  copy,       \* the state it works on
  call,       \* what it was asked
  worktree,   \* stages with a worktree on their branch
  owner,      \* the stages that a chat was created for
  sent,       \* chats in which a kickoff was started
  kickoffs,   \* ghost: how many kickoffs a stage got, up to Many, since an error
              \* last made its run be forgotten
  stray,      \* ghost: stages of which such a run goes on
  accepted,   \* ghost: handoffs whose enqueueing was acknowledged
  claimed,    \* ghost: how often a handoff was given to a worker, up to Many
  seen,       \* ghost: the worst disturbance so far
  calls       \* requests and ticks so far, at most MaxCalls

disk == <<file, tmp, named, fd>>
external == <<worktree, owner, sent, kickoffs, stray>>
ghosts == <<accepted, claimed, seen>>
vars == <<disk, todo, phase, copy, call, external, ghosts, calls>>

Actor == {Prod, Loop, Runner}
Dev == {Loop, Runner}
Many == 2

\* Operations that read the file, change the copy and write it back.
Updates == {"enqueue", "pick", "claim", "materialize", "bind", "record", "note", "complain"}
Starting == {"look", "bind", "prepare", "submit", "record"}
Todo == Updates \cup Starting \cup {"idle"}
Phases == {"read", "git", "open", "write"}
Statuses == {"none", "queued", "claimed", "blocked", "materialized"}

Call == [h : Handoff, w : Worker, starts : BOOLEAN, chat : Chat \cup {NoChat}]

\* The state, as far as it is told apart here.
Content ==
  [item : [Handoff -> Statuses], lock : [Handoff -> Worker \cup {NoWorker}],
   stages : SUBSET Stage, bound : [Stage -> SUBSET Chat], runs : [Stage -> SUBSET Chat]]

\* _empty_state
Empty ==
  [item |-> [h \in Handoff |-> "none"], lock |-> [h \in Handoff |-> NoWorker],
   stages |-> {}, bound |-> [s \in Stage |-> {}], runs |-> [s \in Stage |-> {}]]

\* _read_state
Readings == IF file = {} THEN {Empty} ELSE file

More(n) == IF n < Many THEN n + 1 ELSE n

Item(a) == call[a].h
Here(a) == StageOf[call[a].h]

-----------------------------------------------------------------------------
(* How an actor goes on.                                                    *)

\* It turns to an operation, with nothing in hand; idle, it forgets the call.
Turns(a, op, c) ==
  /\ todo' = [todo EXCEPT ![a] = op]
  /\ phase' = [phase EXCEPT ![a] = "read"]
  /\ copy' = [copy EXCEPT ![a] = Empty]
  /\ call' = [call EXCEPT ![a] = IF op = "idle" THEN NoCall ELSE c]

\* Between its read and the end of its write.
Updating(a) == phase[a] # "read"

\* It has read the state, and is going to write s.
Holds(a, op, s, c) ==
  /\ todo' = [todo EXCEPT ![a] = op]
  /\ phase' = [phase EXCEPT ![a] = IF op = "materialize" THEN "git" ELSE "open"]
  /\ copy' = [copy EXCEPT ![a] = s]
  /\ call' = [call EXCEPT ![a] = c]
  /\ seen' = IF \E b \in Actor \ {a} : Updating(b) THEN "overlap" ELSE seen

\* It begins to start a chat; another may be about to do so too.
Begins(a, op) ==
  /\ Turns(a, op, call[a])
  /\ seen' = IF seen = "nothing" /\ op = "look" /\ \E b \in Actor \ {a} : todo[b] \in Starting
             THEN "contention" ELSE seen

\* The run that was started in the stage is on no record.
Forgets(st) ==
  /\ kickoffs' = [kickoffs EXCEPT ![st] = 0]
  /\ stray' = stray \cup {st}

\* What an exception leads to: while a chat is being started it is recorded, but
\* not the run that may have been started.
Raises(a) ==
  /\ Turns(a, IF todo[a] \in Starting \cup {"note"} THEN "complain" ELSE "idle", call[a])
  /\ IF todo[a] = "record" THEN Forgets(Here(a)) ELSE UNCHANGED <<kickoffs, stray>>

\* What follows a finished operation.
Follows(a) ==
  CASE todo[a] = "claim" -> "materialize"
    [] todo[a] = "materialize" ->
         IF call[a].starts /\ copy[a].item[Item(a)] = "materialized" THEN "look" ELSE "idle"
    [] todo[a] = "bind" -> "prepare"
    [] todo[a] = "record" -> "note"
    [] OTHER -> "idle"

-----------------------------------------------------------------------------
(* Writing the state: _write_state.                                         *)

\* Faulty: the state file itself is opened.
OpenInPlace(a) ==
  /\ phase[a] = "open"
  /\ named' = TRUE
  /\ tmp' = {} /\ file' = {}
  /\ fd' = [fd EXCEPT ![a] = "tmp"]
  /\ phase' = [phase EXCEPT ![a] = "write"]
  /\ UNCHANGED <<todo, copy, call, external, ghosts>>

\* The temporary file is created, or truncated while another writes to it.
Open(a) ==
  /\ phase[a] = "open"
  /\ named' = TRUE
  /\ tmp' = {}
  /\ fd' = [fd EXCEPT ![a] = "tmp"]
  /\ phase' = [phase EXCEPT ![a] = "write"]
  /\ UNCHANGED <<file, todo, copy, call, external, ghosts>>

Writers == {b \in Actor : fd[b] = "tmp"}

\* What the temporary file holds when a has written and renames it: its text,
\* or, where others have opened it too or it is not a's any more, the text of
\* one of them, nothing yet, or what a process left that died.
Texts(a) ==
  IF Writers = {a} THEN {{copy[a]}} ELSE {{copy[b]} : b \in Writers} \cup {{}, tmp}

\* The text is written, and os.replace makes the temporary file the state file.
\* Another who has it open will write into what is the state file then.
Replace(a) ==
  /\ phase[a] = "write"
  /\ named
  /\ named' = FALSE
  /\ file' \in Texts(a)
  /\ tmp' = {}
  /\ fd' = [b \in Actor |-> CASE b = a -> "none"
                              [] b # a /\ fd[b] = "tmp" -> "file"
                              [] b # a /\ fd[b] = "file" -> "gone"
                              [] OTHER -> fd[b]]
  /\ accepted' = IF todo[a] = "enqueue" THEN accepted \cup {Item(a)} ELSE accepted
  /\ claimed' = IF todo[a] \in {"pick", "claim"} THEN [claimed EXCEPT ![Item(a)] = More(@)]
                ELSE claimed
  /\ Begins(a, Follows(a))
  /\ UNCHANGED external

\* Another has renamed it.  The text goes over the other's, whose tail may remain,
\* and os.replace finds no temporary file.
ReplaceFails(a) ==
  /\ phase[a] = "write"
  /\ ~named
  /\ file' \in IF fd[a] = "file" THEN {{copy[a]}, {}} ELSE {file}
  /\ fd' = [fd EXCEPT ![a] = "none"]
  /\ Raises(a)
  /\ UNCHANGED <<named, tmp, worktree, owner, sent, ghosts>>

\* The text cannot be written, for the disk is full: part of it stays in the
\* temporary file.
WriteFails(a) ==
  /\ phase[a] = "write"
  /\ fd[a] = "tmp"
  /\ fd' = [fd EXCEPT ![a] = "none"]
  /\ Raises(a)
  /\ UNCHANGED <<file, named, tmp, worktree, owner, sent, ghosts>>

Write(a) == Open(a) \/ Replace(a) \/ ReplaceFails(a) \/ WriteFails(a)

-----------------------------------------------------------------------------
(* PROD.                                                                    *)

Asked(h, w, go) == [h |-> h, w |-> w, starts |-> go, chat |-> NoChat]

\* enqueue_handoff, for a key that is new.
Enqueue(h) ==
  /\ todo[Prod] = "idle"
  /\ \E s \in Readings :
       /\ s.item[h] = "none"
       /\ Holds(Prod, "enqueue", [s EXCEPT !.item[h] = "queued", !.lock[h] = NoWorker],
                Asked(h, AutoWorker, FALSE))
  /\ UNCHANGED <<disk, external, accepted, claimed>>

\* A key that was used before: the handoff is returned.
EnqueueAgain(h) ==
  /\ todo[Prod] = "idle"
  /\ \E s \in Readings : s.item[h] # "none"
  /\ accepted' = accepted \cup {h}
  /\ UNCHANGED <<disk, todo, phase, copy, call, external, claimed, seen>>

-----------------------------------------------------------------------------
(* Requests of the DEV backend, and the auto-runner.                        *)

\* POST /dev-pipeline/backlog/notify
Notify(h) ==
  /\ todo[Loop] = "idle"
  /\ Turns(Loop, "claim", Asked(h, AutoWorker, TRUE))
  /\ UNCHANGED <<disk, external, ghosts>>

\* POST /dev-pipeline/backlog/{id}/materialize
AskMaterialize(h, w) ==
  /\ todo[Loop] = "idle"
  /\ Turns(Loop, "materialize", Asked(h, w, FALSE))
  /\ UNCHANGED <<disk, external, ghosts>>

\* The auto-runner looks for a queued item (auto_materialize_queued_backlog).
Tick(h) ==
  /\ todo[Runner] = "idle"
  /\ \E s \in Readings : s.item[h] = "queued"
  /\ Turns(Runner, "claim", Asked(h, AutoWorker, TRUE))
  /\ UNCHANGED <<disk, external, ghosts>>

ClaimedBy(s, h, w) == [s EXCEPT !.item[h] = "claimed", !.lock[h] = w]

\* Faulty: a worker that died is taken to have lost its claim.
ClaimableAgain(status) == status \in {"queued", "claimed"}

Claimable(status) == status = "queued"

\* POST /dev-pipeline/backlog/claim gives its caller some queued item.
Pick(h, w) ==
  /\ todo[Loop] = "idle"
  /\ \E s \in Readings :
       /\ Claimable(s.item[h])
       /\ Holds(Loop, "pick", ClaimedBy(s, h, w), Asked(h, w, FALSE))
  /\ UNCHANGED <<disk, external, accepted, claimed>>

\* claim_backlog_item, for one item.
Claim(a) ==
  /\ todo[a] = "claim" /\ phase[a] = "read"
  /\ \E s \in Readings :
       /\ Claimable(s.item[Item(a)])
       /\ Holds(a, "claim", ClaimedBy(s, Item(a), call[a].w), call[a])
  /\ UNCHANGED <<disk, external, accepted, claimed>>

\* It is materialized already: auto_materialize_backlog_item goes on to its chat.
ClaimDone(a) ==
  /\ todo[a] = "claim" /\ phase[a] = "read"
  /\ \E s \in Readings :
       /\ s.item[Item(a)] = "materialized"
       /\ Begins(a, IF Here(a) \in s.stages THEN "look" ELSE "idle")
  /\ UNCHANGED <<disk, external, accepted, claimed>>

\* It is missing, blocked, or in the hands of a worker.
ClaimRefused(a) ==
  /\ todo[a] = "claim" /\ phase[a] = "read"
  /\ \E s \in Readings : ~Claimable(s.item[Item(a)]) /\ s.item[Item(a)] # "materialized"
  /\ Turns(a, "idle", NoCall)
  /\ UNCHANGED <<disk, external, ghosts>>

-----------------------------------------------------------------------------
(* Materialization.                                                         *)

MayMaterialize(s, h, w) == s.lock[h] = w /\ s.item[h] \in {"claimed", "blocked"}

DidMaterialize(s, h, w) == s.lock[h] = w /\ s.item[h] = "materialized"

\* The checks of materialize_backlog_item.
Materialize(a) ==
  /\ todo[a] = "materialize" /\ phase[a] = "read"
  /\ \E s \in Readings : /\ MayMaterialize(s, Item(a), call[a].w)
                         /\ Holds(a, "materialize", s, call[a])
  /\ UNCHANGED <<disk, external, accepted, claimed>>

\* Materialized before, by the same worker.
MaterializeDone(a) ==
  /\ todo[a] = "materialize" /\ phase[a] = "read"
  /\ \E s \in Readings :
       /\ DidMaterialize(s, Item(a), call[a].w)
       /\ Begins(a, IF call[a].starts /\ Here(a) \in s.stages THEN "look" ELSE "idle")
  /\ UNCHANGED <<disk, external, accepted, claimed>>

MaterializeRefused(a) ==
  /\ todo[a] = "materialize" /\ phase[a] = "read"
  /\ \E s \in Readings : /\ ~MayMaterialize(s, Item(a), call[a].w)
                         /\ ~DidMaterialize(s, Item(a), call[a].w)
  /\ Turns(a, "idle", NoCall)
  /\ UNCHANGED <<disk, external, ghosts>>

\* The change of the copy, ready to be written.
Changes(a, s) ==
  /\ copy' = [copy EXCEPT ![a] = s]
  /\ phase' = [phase EXCEPT ![a] = "open"]
  /\ UNCHANGED <<disk, todo, call, owner, sent, kickoffs, stray, ghosts>>

MaterializedIn(s, h) == [s EXCEPT !.item[h] = "materialized", !.stages = @ \cup {StageOf[h]}]

\* Faulty: the outcome of git worktree add is not looked at.
MaterializedUnchecked(a) ==
  /\ phase[a] = "git"
  /\ worktree' \in {worktree, worktree \cup {Here(a)}}
  /\ Changes(a, MaterializedIn(copy[a], Item(a)))

\* The worktree is there, with the spec in it; the stage is registered.
Materialized(a) ==
  /\ phase[a] = "git"
  /\ worktree' = worktree \cup {Here(a)}
  /\ Changes(a, MaterializedIn(copy[a], Item(a)))

\* Git, the checks of the worktree or the files of the spec fail.
Blocked(a) ==
  /\ phase[a] = "git"
  /\ worktree' \in {worktree, worktree \cup {Here(a)}}
  /\ Changes(a, [copy[a] EXCEPT !.item[Item(a)] = "blocked"])

-----------------------------------------------------------------------------
(* Starting the chat of a stage: ensure_dev_stage_chat_run.                  *)

Unrun(s, st) == st \in s.stages /\ s.runs[st] = {}

\* The stage has a run: it is noted.
FindRun(a) ==
  /\ todo[a] = "look"
  /\ \E s \in Readings : Here(a) \in s.stages /\ s.runs[Here(a)] # {}
  /\ Turns(a, "note", call[a])
  /\ UNCHANGED <<disk, external, ghosts>>

\* The stage has a chat already.
FindChat(a) ==
  /\ todo[a] = "look"
  /\ \E s \in Readings : /\ Unrun(s, Here(a))
                         /\ \E c \in s.bound[Here(a)] :
                              Turns(a, "bind", [call[a] EXCEPT !.chat = c])
  /\ UNCHANGED <<disk, external, ghosts>>

\* create_session
CreateChat(a) ==
  /\ todo[a] = "look"
  /\ \E s \in Readings : Unrun(s, Here(a)) /\ s.bound[Here(a)] = {}
  /\ \E c \in Chat : /\ owner[c] = {}
                     /\ owner' = [owner EXCEPT ![c] = {Here(a)}]
                     /\ Turns(a, "bind", [call[a] EXCEPT !.chat = c])
  /\ UNCHANGED <<disk, worktree, sent, kickoffs, stray, ghosts>>

\* bind_stage_session
Bind(a) ==
  /\ todo[a] = "bind" /\ phase[a] = "read"
  /\ \E s \in Readings :
       /\ Here(a) \in s.stages
       /\ Holds(a, "bind", [s EXCEPT !.bound[Here(a)] = @ \cup {call[a].chat}], call[a])
  /\ UNCHANGED <<disk, external, accepted, claimed>>

ReadyToRun(s, st, c) == st \in s.stages /\ c \in s.bound[st] /\ c \notin s.runs[st]

\* get_stage, prepare_stage_run_start
Prepare(a) ==
  /\ todo[a] = "prepare"
  /\ \E s \in Readings : ReadyToRun(s, Here(a), call[a].chat)
  /\ Turns(a, "submit", call[a])
  /\ UNCHANGED <<disk, external, ghosts>>

\* The stage is not in the state that is read, or the chat not ready to run.
Lost(a) ==
  /\ phase[a] = "read"
  /\ \E s \in Readings :
       \/ todo[a] \in {"look", "bind", "record", "note"} /\ Here(a) \notin s.stages
       \/ todo[a] = "prepare" /\ ~ReadyToRun(s, Here(a), call[a].chat)
  /\ Raises(a)
  /\ UNCHANGED <<disk, worktree, owner, sent, ghosts>>

\* submit_message has its run started.
Submit(a) ==
  /\ todo[a] = "submit"
  /\ sent' = sent \cup {call[a].chat}
  /\ kickoffs' = [kickoffs EXCEPT ![Here(a)] = More(@)]
  /\ Turns(a, "record", call[a])
  /\ UNCHANGED <<disk, worktree, owner, stray, ghosts>>

\* It raises after that: the turn cannot be saved, or its job not be watched.
SubmitRaises(a) ==
  /\ todo[a] = "submit"
  /\ sent' = sent \cup {call[a].chat}
  /\ Forgets(Here(a))
  /\ Turns(a, "complain", call[a])
  /\ UNCHANGED <<disk, worktree, owner, ghosts>>

\* The backend is draining, or the message is refused.
SubmitFails(a) ==
  /\ todo[a] = "submit"
  /\ Raises(a)
  /\ UNCHANGED <<disk, worktree, owner, sent, ghosts>>

\* Faulty: the run is left to the projection.
RecordLater(a) ==
  /\ todo[a] = "record" /\ phase[a] = "read"
  /\ \E s \in Readings : Here(a) \in s.stages /\ Holds(a, "record", s, call[a])
  /\ UNCHANGED <<disk, external, accepted, claimed>>

\* record_stage_run_start
Record(a) ==
  /\ todo[a] = "record" /\ phase[a] = "read"
  /\ \E s \in Readings :
       /\ Here(a) \in s.stages
       /\ Holds(a, "record", [s EXCEPT !.runs[Here(a)] = @ \cup {call[a].chat}], call[a])
  /\ UNCHANGED <<disk, external, accepted, claimed>>

\* update_stage_run_projection and record_stage_auto_start change what is left
\* out here, and write everything back; the two stand for one.
Annotate(a) ==
  /\ todo[a] \in {"note", "complain"} /\ phase[a] = "read"
  /\ \E s \in Readings : Here(a) \in s.stages /\ Holds(a, todo[a], s, call[a])
  /\ UNCHANGED <<disk, external, accepted, claimed>>

\* A complaint without its stage is dropped.
Skip(a) ==
  /\ todo[a] = "complain" /\ phase[a] = "read"
  /\ \E s \in Readings : Here(a) \notin s.stages
  /\ Turns(a, "idle", NoCall)
  /\ UNCHANGED <<disk, external, ghosts>>

-----------------------------------------------------------------------------
(* The processes stop.                                                      *)

Stop(A) ==
  /\ \E a \in A : todo[a] # "idle"
  /\ todo' = [a \in Actor |-> IF a \in A THEN "idle" ELSE todo[a]]
  /\ phase' = [a \in Actor |-> IF a \in A THEN "read" ELSE phase[a]]
  /\ copy' = [a \in Actor |-> IF a \in A THEN Empty ELSE copy[a]]
  /\ call' = [a \in Actor |-> IF a \in A THEN NoCall ELSE call[a]]
  /\ fd' = [a \in Actor |-> IF a \in A THEN "none" ELSE fd[a]]
  /\ tmp' \in {tmp} \cup {{copy[a]} : a \in A \cap Writers}
  /\ UNCHANGED <<file, named, external, accepted, claimed>>

StopDev ==
  /\ Stop(Dev)
  /\ seen' = IF seen = "nothing" THEN "contention" ELSE seen

StopProd == Stop({Prod}) /\ UNCHANGED seen

-----------------------------------------------------------------------------
Init ==
  /\ file = {} /\ tmp = {} /\ named = FALSE
  /\ fd = [a \in Actor |-> "none"]
  /\ todo = [a \in Actor |-> "idle"]
  /\ phase = [a \in Actor |-> "read"]
  /\ copy = [a \in Actor |-> Empty]
  /\ call = [a \in Actor |-> NoCall]
  /\ worktree = {} /\ sent = {} /\ stray = {} /\ accepted = {}
  /\ owner = [c \in Chat |-> {}]
  /\ kickoffs = [s \in Stage |-> 0]
  /\ claimed = [h \in Handoff |-> 0]
  /\ seen = "nothing" /\ calls = 0

Serve(h) ==
  \/ Enqueue(h) \/ Notify(h) \/ Tick(h)
  \/ \E w \in Worker : AskMaterialize(h, w) \/ Pick(h, w)

TakeItem(a) ==
  \/ Claim(a) \/ ClaimDone(a) \/ ClaimRefused(a)
  \/ Materialize(a) \/ MaterializeDone(a) \/ MaterializeRefused(a)
  \/ Materialized(a) \/ Blocked(a)

StartChat(a) ==
  \/ FindRun(a) \/ FindChat(a) \/ CreateChat(a) \/ Bind(a) \/ Prepare(a) \/ Lost(a)
  \/ Submit(a) \/ SubmitRaises(a) \/ SubmitFails(a) \/ Record(a) \/ Annotate(a) \/ Skip(a)

\* Another request or tick.
Counts == calls < MaxCalls /\ calls' = calls + 1

GoesOn ==
  \/ \E h \in Handoff : EnqueueAgain(h)
  \/ \E a \in Actor : Write(a) \/ TakeItem(a) \/ StartChat(a)
  \/ StopDev \/ StopProd

\* The bound is reached and all is served.
Rests == calls = MaxCalls /\ (\A a \in Actor : todo[a] = "idle") /\ UNCHANGED vars

Next ==
  \/ Counts /\ \E h \in Handoff : Serve(h)
  \/ GoesOn /\ UNCHANGED calls
  \/ Rests

Spec == Init /\ [][Next]_vars

-----------------------------------------------------------------------------
(* Properties.                                                              *)

\* Every variable has its type.
TypeOK ==
  /\ file \subseteq Content /\ tmp \subseteq Content
  /\ named \in BOOLEAN
  /\ fd \in [Actor -> {"none", "tmp", "file", "gone"}]
  /\ todo \in [Actor -> Todo]
  /\ phase \in [Actor -> Phases]
  /\ copy \in [Actor -> Content]
  /\ call \in [Actor -> Call \cup {NoCall}]
  /\ \A a \in Actor : todo[a] # "idle" => call[a] \in Call
  /\ worktree \subseteq Stage
  /\ owner \in [Chat -> SUBSET Stage]
  /\ sent \subseteq Chat
  /\ kickoffs \in [Stage -> 0..Many]
  /\ stray \subseteq Stage
  /\ accepted \subseteq Handoff
  /\ claimed \in [Handoff -> 0..Many]
  /\ seen \in {"nothing", "contention", "overlap"}
  /\ calls \in 0..MaxCalls

\* The state s reports what worktrees, chats and kickoffs there are.
Reports(s, trees, chats, kicked) ==
  /\ \A h \in Handoff : s.item[h] = "materialized" => StageOf[h] \in trees
  /\ s.stages \subseteq trees
  /\ \A st \in Stage : /\ s.runs[st] \subseteq kicked
                       /\ \A c \in s.runs[st] \cup s.bound[st] : chats[c] = {st}

Truthful(s) == Reports(s, worktree, owner, sent)

\* What the file says happened did happen, however torn and mixed its versions
\* are: a materialized handoff has its worktree, a chat is bound to the one stage
\* that it was created for, and a run was sent, in a chat of its stage.
ReportsTrue == \A s \in file : Truthful(s)

\* "Reusing the key returns the same immutable handoff": a handoff that was
\* acknowledged stays, unless a read, change and write overlapped another.
AcceptedKept ==
  seen = "overlap" \/ \A s \in Readings : \A h \in accepted : s.item[h] # "none"

\* "DEV backlog claims are exclusive": under the same reservation, nobody is
\* given a handoff that somebody was given before.
ClaimedOnce == seen = "overlap" \/ \A h \in Handoff : claimed[h] <= 1

\* Without it they are not.
ClaimsExclusive == \A h \in Handoff : claimed[h] <= 1

\* A stage gets one kickoff, and another only after an error that left the run
\* of the first on no record: unless the process stops after it was sent, the
\* request and the auto-runner start the stage at once, or a write was lost.
OneKickoff == seen # "nothing" \/ \A s \in Stage : kickoffs[s] <= 1

\* Without the reservation about errors it may get a second one.
OnlyKickoff == seen # "nothing" \/ \A s \in stray : kickoffs[s] = 0
=============================================================================
