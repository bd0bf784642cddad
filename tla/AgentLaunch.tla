----------------------------- MODULE AgentLaunch -----------------------------
(***************************************************************************)
(* Launching a Generator/Reviewer conversation from a message of another   *)
(* chat (application/services/generator_reviewer_launch_service.py).       *)
(*                                                                         *)
(* A message of the user has one launch: a row of a ledger, in a database  *)
(* of its own.  launch() creates the target chat, configures its agents    *)
(* and sends one kickoff; the row is committed between these steps, so     *)
(* that after a crash it is known how far they went.  A file lock is held  *)
(* for the whole of launch() and get(), in every process.  The user may    *)
(* write in the target chat as soon as it exists.                          *)
(*                                                                         *)
(* A second request for a message with another content is refused (its     *)
(* digest differs) and is left out.                                        *)
(***************************************************************************)
EXTENDS Naturals

CONSTANTS
  Launch,     \* launch ids, one for each message of the user
  Request,    \* concurrent calls of launch() or get()
  Turn,       \* turns that the user may send in target chats
  Kickoff,    \* the kickoff's job in its chat
  Nobody,     \* the holder of a free ledger
  NoJob       \* the job_id of a launch without one

ASSUME RequestAssumption == Nobody \notin Request
ASSUME JobAssumption == NoJob \notin Turn \cup {Kickoff} /\ Kickoff \notin Turn

VARIABLES
  row,        \* launches.state, durable; "absent" when there is no row
  job,        \* launches.job_id, durable
  chat,       \* the target chat exists, durable
  configured, \* its agents have the prompts of the launch, durable
  stored,     \* the chat's jobs that the user's side started, durable
  executed,   \* how often the provider started the kickoff
  holder,     \* who holds the ledger's lock
  pc,         \* what each request does next
  call        \* the launch it is about

vars == <<row, job, chat, configured, stored, executed, holder, pc, call>>

Rows == {"absent", "reserved", "configured", "starting", "started", "uncertain", "failed"}
Preparing == {"create", "check", "configure", "mark"}
Sending == {"submit", "sent", "raised", "returned"}
InLedger == {"start"} \cup Preparing \cup Sending
PCs == {"idle", "launching", "getting"} \cup InLedger

Moves(r, step) == pc' = [pc EXCEPT ![r] = step]

\* The request leaves the with block.
Leaves(r) ==
  /\ Moves(r, "idle")
  /\ holder' = Nobody

-----------------------------------------------------------------------------
(* Reconciliation.                                                          *)

SomeJob(jobs, j) == j \in jobs

\* The chat has one job of the generator that a user's turn started.
OnlyJob(jobs, j) == jobs = {j}

ReconciledAlways(l) ==
  \/ \E j \in stored[l] : /\ OnlyJob(stored[l], j)
                          /\ row' = [row EXCEPT ![l] = "started"]
                          /\ job' = [job EXCEPT ![l] = j]
  \/ /\ ~ \E j \in stored[l] : OnlyJob(stored[l], j)
     /\ row' = [row EXCEPT ![l] = "uncertain"]
     /\ UNCHANGED job

\* _reconcile: a start that was not confirmed is looked up in the chat store.
\* Nobody else writes the row meanwhile, and a job that is stored between the
\* lookup and the update might as well have come later, so both are one step.
Reconciled(l) ==
  \/ /\ row[l] \in {"starting", "uncertain"}
     /\ \E j \in stored[l] : /\ OnlyJob(stored[l], j)
                             /\ row' = [row EXCEPT ![l] = "started"]
                             /\ job' = [job EXCEPT ![l] = j]
  \/ /\ row[l] \in {"starting", "uncertain"}
     /\ ~ \E j \in stored[l] : OnlyJob(stored[l], j)
     /\ row' = [row EXCEPT ![l] = "uncertain"]
     /\ UNCHANGED job
  \/ /\ row[l] \notin {"starting", "uncertain"}
     /\ UNCHANGED <<row, job>>

-----------------------------------------------------------------------------
(* The requests.                                                            *)

\* POST /agent-launches/generator-reviewer or GET /agent-launches/{id}.
Ask(r, l) ==
  /\ pc[r] = "idle"
  /\ \E what \in {"launching", "getting"} : Moves(r, what)
  /\ call' = [call EXCEPT ![r] = l]
  /\ UNCHANGED <<row, job, chat, configured, stored, executed, holder>>

\* get() under the lock.
Get(r) ==
  /\ pc[r] = "getting"
  /\ holder = Nobody
  /\ Reconciled(call[r])
  /\ Moves(r, "idle")
  /\ UNCHANGED <<chat, configured, stored, executed, holder, call>>

MayContinueUnconfirmed(s) == s \in {"absent", "reserved", "configured", "uncertain"}

\* A launch goes on only where the kickoff cannot have been sent.
MayContinue(s) == s \in {"absent", "reserved", "configured"}

\* launch() finds a row that got further, and reports it.
Reuse(r) ==
  /\ pc[r] = "launching"
  /\ holder = Nobody
  /\ ~MayContinue(row[call[r]])
  /\ Reconciled(call[r])
  /\ Moves(r, "idle")
  /\ UNCHANGED <<chat, configured, stored, executed, holder, call>>

\* launch() reserves the row, or takes up what a crash left.
Reserve(r) ==
  /\ pc[r] = "launching"
  /\ holder = Nobody
  /\ MayContinue(row[call[r]])
  /\ holder' = r
  /\ row' = [row EXCEPT ![call[r]] = IF @ = "absent" THEN "reserved" ELSE @]
  /\ Moves(r, "create")
  /\ UNCHANGED <<job, chat, configured, stored, executed, call>>

\* get_session, create_session with the reserved id.
CreateChat(r) ==
  /\ pc[r] = "create"
  /\ chat' = [chat EXCEPT ![call[r]] = TRUE]
  /\ Moves(r, "check")
  /\ UNCHANGED <<row, job, configured, stored, executed, holder, call>>

\* A chat that already has jobs gets no kickoff.
CheckUnused(r) ==
  /\ pc[r] = "check"
  /\ stored[call[r]] = {}
  /\ Moves(r, "configure")
  /\ UNCHANGED <<row, job, chat, configured, stored, executed, holder, call>>

\* update_agent_configuration.
Configure(r) ==
  /\ pc[r] = "configure"
  /\ configured' = [configured EXCEPT ![call[r]] = TRUE]
  /\ Moves(r, "mark")
  /\ UNCHANGED <<row, job, chat, stored, executed, holder, call>>

MarkConfigured(r) ==
  /\ pc[r] = "mark"
  /\ row' = [row EXCEPT ![call[r]] = "configured"]
  /\ Moves(r, "start")
  /\ UNCHANGED <<job, chat, configured, stored, executed, holder, call>>

PreparationFailsSilently(r) ==
  /\ pc[r] \in Preparing
  /\ row' = [row EXCEPT ![call[r]] = "failed"]
  /\ Moves(r, "idle")
  /\ UNCHANGED <<job, chat, configured, stored, executed, holder, call>>

\* Any of these steps may raise; a chat that is in use does raise.
PreparationFails(r) ==
  /\ pc[r] \in Preparing
  /\ row' = [row EXCEPT ![call[r]] = "failed"]
  /\ Leaves(r)
  /\ UNCHANGED <<job, chat, configured, stored, executed, call>>

\* The mark that a kickoff may be on its way is committed before it is.
Start(r) ==
  /\ pc[r] = "start"
  /\ row' = [row EXCEPT ![call[r]] = "starting"]
  /\ Moves(r, "submit")
  /\ UNCHANGED <<job, chat, configured, stored, executed, holder, call>>

\* submit_message raises before it starts anything: the backend is draining, or
\* the chat is busy with a turn of the user.
Refused(r) ==
  /\ pc[r] = "submit"
  /\ Moves(r, "raised")
  /\ UNCHANGED <<row, job, chat, configured, stored, executed, holder, call>>

\* The provider starts the kickoff ...
Send(r) ==
  /\ pc[r] = "submit"
  /\ executed' = [executed EXCEPT ![call[r]] = @ + 1]
  /\ Moves(r, "sent")
  /\ UNCHANGED <<row, job, chat, configured, stored, holder, call>>

\* ... and save_turn stores its job, or raises; what follows may raise too.  (A
\* conflict of ids, which save_turn swallows, needs ids that are not new.)
SaveTurn(r) ==
  /\ pc[r] = "sent"
  /\ \/ /\ stored' = [stored EXCEPT ![call[r]] = @ \cup {Kickoff}]
        /\ \E next \in {"returned", "raised"} : Moves(r, next)
     \/ /\ UNCHANGED stored
        /\ Moves(r, "raised")
  /\ UNCHANGED <<row, job, chat, configured, executed, holder, call>>

\* The receipt.
Confirm(r) ==
  /\ pc[r] = "returned"
  /\ row' = [row EXCEPT ![call[r]] = "started"]
  /\ job' = [job EXCEPT ![call[r]] = Kickoff]
  /\ Leaves(r)
  /\ UNCHANGED <<chat, configured, stored, executed, call>>

GiveUp(r) ==
  /\ pc[r] = "raised"
  /\ row' = [row EXCEPT ![call[r]] = "failed"]
  /\ Leaves(r)
  /\ UNCHANGED <<job, chat, configured, stored, executed, call>>

\* An exception does not prove that the provider did not start.
LookUp(r) ==
  /\ pc[r] = "raised"
  /\ Reconciled(call[r])
  /\ Leaves(r)
  /\ UNCHANGED <<chat, configured, stored, executed, call>>

-----------------------------------------------------------------------------
(* The user and the process.                                                *)

\* The user sends a turn of his own in the target chat.
UserTurn(l, t) ==
  /\ chat[l]
  /\ \A k \in Launch : t \notin stored[k]
  /\ stored' = [stored EXCEPT ![l] = @ \cup {t}]
  /\ UNCHANGED <<row, job, chat, configured, executed, holder, pc, call>>

\* The process of a request dies; the system gives its lock back.
Die(r) ==
  /\ pc[r] # "idle"
  /\ Moves(r, "idle")
  /\ holder' = IF holder = r THEN Nobody ELSE holder
  /\ UNCHANGED <<row, job, chat, configured, stored, executed, call>>

-----------------------------------------------------------------------------
Init ==
  /\ row = [l \in Launch |-> "absent"]
  /\ job = [l \in Launch |-> NoJob]
  /\ chat = [l \in Launch |-> FALSE]
  /\ configured = [l \in Launch |-> FALSE]
  /\ stored = [l \in Launch |-> {}]
  /\ executed = [l \in Launch |-> 0]
  /\ holder = Nobody
  /\ pc = [r \in Request |-> "idle"]
  /\ call \in [Request -> Launch]

Prepare(r) ==
  CreateChat(r) \/ CheckUnused(r) \/ Configure(r) \/ MarkConfigured(r) \/ PreparationFails(r)

SendKickoff(r) ==
  Start(r) \/ Refused(r) \/ Send(r) \/ SaveTurn(r) \/ Confirm(r) \/ LookUp(r)

Enter(r) == Get(r) \/ Reuse(r) \/ Reserve(r)

Next ==
  \/ \E r \in Request : \/ \E l \in Launch : Ask(r, l)
                        \/ Enter(r) \/ Prepare(r) \/ SendKickoff(r) \/ Die(r)
  \/ \E l \in Launch, t \in Turn : UserTurn(l, t)

Spec == Init /\ [][Next]_vars

\* A request that holds the lock goes on, and the kernel serves those that wait
\* for it; nobody has to ask, to write or to die.
Fairness ==
  \A r \in Request : WF_vars(Prepare(r) \/ SendKickoff(r)) /\ SF_vars(Enter(r))

FairSpec == Spec /\ Fairness

-----------------------------------------------------------------------------
(* Properties.                                                              *)

\* Every variable has its type, and whoever is inside the ledger holds its lock.
TypeOK ==
  /\ row \in [Launch -> Rows]
  /\ job \in [Launch -> Turn \cup {Kickoff, NoJob}]
  /\ chat \in [Launch -> BOOLEAN]
  /\ configured \in [Launch -> BOOLEAN]
  /\ stored \in [Launch -> SUBSET (Turn \cup {Kickoff})]
  /\ executed \in [Launch -> Nat]
  /\ holder \in Request \cup {Nobody}
  /\ pc \in [Request -> PCs]
  /\ call \in [Request -> Launch]
  /\ \A r \in Request : pc[r] \in InLedger <=> holder = r

\* However often a launch is requested, by however many processes, and whatever
\* dies in between: its kickoff is sent once at most.
KickoffOnce == \A l \in Launch : executed[l] <= 1

\* "failed" says that no kickoff was sent, and an ongoing or repeated launch
\* finds a row that it may continue only when that is so too.
UnsentIsUnsent ==
  \A l \in Launch : row[l] \in {"reserved", "configured", "failed"} => executed[l] = 0

\* A kickoff goes to a chat that has its agents: the generator never starts
\* with the default prompts.
SentToConfiguredChat == \A l \in Launch : executed[l] > 0 => chat[l] /\ configured[l]

\* A receipt that the client was given is not taken back, and names the same job
\* for ever (the client follows that job).
ReceiptStands ==
  [][\A l \in Launch : row[l] = "started" =>
       row'[l] = "started" /\ job'[l] = job[l]]_vars

\* "started confirms that the first job was sent."
StartedMeansSent == \A l \in Launch : row[l] = "started" => executed[l] = 1

\* What the code keeps of it: a receipt names a job that the chat has, and where
\* the chat has the kickoff it names the kickoff, never a turn of the user that
\* came between.
ReceiptTrue ==
  \A l \in Launch : row[l] = "started" =>
    /\ job[l] \in stored[l]
    /\ Kickoff \in stored[l] => job[l] = Kickoff

\* Every request is answered unless its process dies: nobody waits for ever for
\* a ledger that another process holds.
Answered == \A r \in Request : pc[r] # "idle" ~> pc[r] = "idle"

-----------------------------------------------------------------------------
(* What makes the safety properties inductive.                              *)

\* What the row says while its holder is at work.
RowFollows ==
  \A r \in Request :
    /\ pc[r] \in Preparing => row[call[r]] \in {"reserved", "configured"}
    /\ pc[r] = "start" => row[call[r]] = "configured"
    /\ pc[r] \in Sending => row[call[r]] = "starting"
    /\ pc[r] \in {"check", "configure", "mark", "start"} \cup Sending => chat[call[r]]
    /\ pc[r] \in {"mark", "start"} \cup Sending => configured[call[r]]
    /\ pc[r] = "submit" => executed[call[r]] = 0
    /\ pc[r] \in {"sent", "returned"} => executed[call[r]] = 1
    /\ pc[r] = "returned" => Kickoff \in stored[call[r]]

\* Where the one execution may be.
SentOnce ==
  \A l \in Launch :
    /\ row[l] \in {"absent", "reserved", "configured", "failed"} => executed[l] = 0
    /\ executed[l] <= 1
    /\ Kickoff \in stored[l] => executed[l] = 1

LaunchIInv ==
  TypeOK /\ RowFollows /\ SentOnce /\ SentToConfiguredChat /\ ReceiptTrue
=============================================================================
