----------------------------- MODULE JobStream -----------------------------
(***************************************************************************)
(* A job that is watched over WebSockets: the provider publishes its       *)
(* changes, JobStreamHub turns them into signals, and each signal into one *)
(* snapshot for the client.                                                *)
(* (backend/app/infrastructure/realtime/job_stream_hub.py)                 *)
(*                                                                         *)
(* A signal says only that something changed; signals that meet in the     *)
(* queue of a client become one.  The hub's coroutines share an event      *)
(* loop, on which get_job runs to its end; the provider's threads and the  *)
(* requests of GET /response/{job_id} run beside it.                       *)
(***************************************************************************)
EXTENDS Naturals, FiniteSets

CONSTANTS
  Client,       \* WebSockets that watch the job
  Poller,       \* other threads that call get_job: requests, and the callback of
                \* MessageService when the job has ended
  Canceller,    \* requests that cancel the job
  MaxLines      \* bound on the lines of output of the CLI

ASSUME ThreadsAssumption ==
  /\ Client \cap Poller = {}
  /\ Canceller \cap {"reader", "worker"} = {}
ASSUME MaxLinesAssumption == MaxLines \in Nat

Publisher == {"reader", "worker"} \cup Canceller
Thread == Client \cup Poller

VARIABLES
  state,        \* _states: what the provider knows of the job
  lines,        \* number of lines read from the output
  ended,        \* the job's thread has reported the end
  cancelling,   \* cancellations that found the job running
  subscribers,  \* _subscribers of the job
  toCall,       \* the listeners a publisher still has to call
  row,          \* the stored job
  scheduled,    \* callbacks the event loop has still to run for a client
  signal,       \* the client's queue holds a signal
  pc,           \* the next step of each thread
  copy,         \* its copy of the job
  sent,         \* the last snapshot sent to a client
  gone,         \* clients that have disconnected
  replaced      \* an old copy has been saved over a newer or final row

provider == <<state, lines, ended, cancelling, toCall>>
loop == <<subscribers, scheduled, signal, sent>>
vars == <<provider, loop, row, pc, copy, gone, replaced>>

Terminal == {"completed", "cancelled"}     \* a failed job behaves like a completed one
\* Every change of a job has a number, which stands for its content.
Snapshot == [status : {"running"} \cup Terminal, update : Nat]
Row == [status : {"running"} \cup Terminal, update : Nat, processed : BOOLEAN]
NotSent == [status |-> "none", update |-> 0]

Content(r) == [status |-> r.status, update |-> r.update]

InLock == {"mark", "return"}
OnLoop == {"store", "lock"} \cup InLock
PCs == {"idle", "connect", "send", "subscribe", "wait", "closed"} \cup OnLoop

LoopFree(c) == \A d \in Client \ {c} : pc[d] \notin OnLoop
Goes(t, next) == pc' = [pc EXCEPT ![t] = next]

-----------------------------------------------------------------------------
(* The provider                                                             *)

\* _set_state: a cancelled job stays so; the listeners are copied under the lock
\* and called later.
SetState(p, status) ==
  /\ toCall[p] = {}
  /\ state' = IF state.status = "cancelled" /\ status # "cancelled" THEN state
              ELSE [status |-> status, update |-> state.update + 1]
  /\ toCall' = [toCall EXCEPT ![p] = subscribers]

\* The reader of the output reports a line, late ones even after the end.
Progress ==
  /\ lines < MaxLines /\ lines' = lines + 1
  /\ SetState("reader", "running")
  /\ UNCHANGED <<ended, cancelling, loop, row, pc, copy, gone, replaced>>

\* The job's thread reports the end.
End ==
  /\ ~ended /\ ended' = TRUE
  /\ SetState("worker", "completed")
  /\ UNCHANGED <<lines, cancelling, loop, row, pc, copy, gone, replaced>>

\* cancel_job looks at the state and changes it in two critical sections.
CancelCheck(p) ==
  /\ state.status \notin Terminal
  /\ cancelling' = cancelling \cup {p}
  /\ UNCHANGED <<state, lines, ended, toCall, loop, row, pc, copy, gone, replaced>>

CancelSet(p) ==
  /\ p \in cancelling /\ cancelling' = cancelling \ {p}
  /\ SetState(p, "cancelled")
  /\ UNCHANGED <<lines, ended, loop, row, pc, copy, gone, replaced>>

\* on_change: the publisher's thread hands the signal to the event loop.
Notify(p, c) ==
  /\ c \in toCall[p]
  /\ toCall' = [toCall EXCEPT ![p] = @ \ {c}]
  /\ scheduled' = [scheduled EXCEPT ![c] = @ + 1]
  /\ UNCHANGED <<state, lines, ended, cancelling, subscribers, signal, sent, row, pc, copy, gone, replaced>>

-----------------------------------------------------------------------------
(* get_job                                                                  *)

\* A stored job that has ended is final, else the provider is asked.
StartGetJob(t) ==
  /\ copy' = [copy EXCEPT ![t] = IF row.status \in Terminal THEN row
                                 ELSE [row EXCEPT !.status = state.status, !.update = state.update]]
  /\ Goes(t, IF row.status \in Terminal THEN "lock" ELSE "store")

\* save_job writes the whole copy.
Save(r) ==
  /\ row' = r
  /\ replaced' = \/ replaced
                 \/ r.update < row.update
                 \/ row.status \in Terminal /\ Content(r) # Content(row)

Returns(t) == Goes(t, IF t \in Client THEN "send" ELSE "idle")

\* Faulty forms: the snapshot is returned without being saved, or only that of the
\* end, which is left to the callback.
StoreNothing(t) ==
  /\ pc[t] = "store"
  /\ IF copy[t].status \in Terminal THEN Goes(t, "lock") ELSE Returns(t)
  /\ UNCHANGED <<provider, loop, row, copy, gone, replaced>>

StoreUnlessEnded(t) ==
  /\ pc[t] = "store"
  /\ IF copy[t].status \in Terminal THEN UNCHANGED <<row, replaced>> ELSE Save(copy[t])
  /\ Returns(t)
  /\ UNCHANGED <<provider, loop, copy, gone>>

Store(t) ==
  /\ pc[t] = "store"
  /\ Save(copy[t])
  /\ IF copy[t].status \in Terminal THEN Goes(t, "lock") ELSE Returns(t)
  /\ UNCHANGED <<provider, loop, copy, gone>>

\* _sync_terminal_job_side_effects: the job is read again under its lock, saved as
\* processed, and read once more.
Lock(t) ==
  /\ pc[t] = "lock"
  /\ \A u \in Thread : pc[u] \notin InLock
  /\ copy' = [copy EXCEPT ![t] = row]
  /\ Goes(t, IF row.processed THEN "return" ELSE "mark")
  /\ UNCHANGED <<provider, loop, row, gone, replaced>>

Mark(t) ==
  /\ pc[t] = "mark"
  /\ Save([copy[t] EXCEPT !.processed = TRUE])
  /\ Goes(t, "return")
  /\ UNCHANGED <<provider, loop, copy, gone>>

Return(t) ==
  /\ pc[t] = "return"
  /\ copy' = [copy EXCEPT ![t] = row]
  /\ Returns(t)
  /\ UNCHANGED <<provider, loop, row, gone, replaced>>

GetJob(t) == Store(t) \/ Lock(t) \/ Mark(t) \/ Return(t)

Poll(t) ==
  /\ t \in Poller /\ pc[t] = "idle"
  /\ StartGetJob(t)
  /\ UNCHANGED <<provider, loop, row, gone, replaced>>

-----------------------------------------------------------------------------
(* JobStreamHub                                                             *)

\* The first snapshot.
Connect(c) ==
  /\ pc[c] = "connect" /\ LoopFree(c)
  /\ StartGetJob(c)
  /\ UNCHANGED <<provider, loop, row, gone, replaced>>

\* After the last snapshot, or when the client is no longer there, the finally
\* block unsubscribes and closes.
Close(c) == Goes(c, "closed") /\ subscribers' = subscribers \ {c}

Send(c) ==
  /\ pc[c] = "send" /\ LoopFree(c)
  /\ \/ /\ c \notin gone
        /\ sent' = [sent EXCEPT ![c] = Content(copy[c])]
        /\ IF copy[c].status \in Terminal THEN Close(c)
           ELSE /\ Goes(c, IF c \in subscribers THEN "wait" ELSE "subscribe")
                /\ UNCHANGED subscribers
     \/ c \in gone /\ Close(c) /\ UNCHANGED sent
  /\ UNCHANGED <<provider, scheduled, signal, row, copy, gone, replaced>>

\* Faulty form: only changes from now on are reported.
SubscribeOnly(c) ==
  /\ pc[c] = "subscribe" /\ LoopFree(c)
  /\ subscribers' = subscribers \cup {c}
  /\ Goes(c, "wait")
  /\ UNCHANGED <<provider, scheduled, signal, sent, row, copy, gone, replaced>>

\* watch_job calls back at once: what changed since the snapshot is not missed.
Subscribe(c) ==
  /\ pc[c] = "subscribe" /\ LoopFree(c)
  /\ subscribers' = subscribers \cup {c}
  /\ scheduled' = [scheduled EXCEPT ![c] = @ + 1]
  /\ Goes(c, "wait")
  /\ UNCHANGED <<provider, signal, sent, row, copy, gone, replaced>>

\* Faulty form: a signal is only kept for a client that waits for it.
EnqueueIfWaiting(c) ==
  /\ scheduled[c] > 0 /\ LoopFree(c) /\ pc[c] \notin OnLoop
  /\ scheduled' = [scheduled EXCEPT ![c] = @ - 1]
  /\ signal' = [signal EXCEPT ![c] = @ \/ pc[c] = "wait"]
  /\ UNCHANGED <<provider, subscribers, sent, row, pc, copy, gone, replaced>>

\* _enqueue_signal, on the event loop: the queue holds one signal.
Enqueue(c) ==
  /\ scheduled[c] > 0 /\ LoopFree(c) /\ pc[c] \notin OnLoop
  /\ scheduled' = [scheduled EXCEPT ![c] = @ - 1]
  /\ signal' = [signal EXCEPT ![c] = TRUE]
  /\ UNCHANGED <<provider, subscribers, sent, row, pc, copy, gone, replaced>>

\* The signal is taken from the queue before the job is read.
Wake(c) ==
  /\ pc[c] = "wait" /\ signal[c] /\ LoopFree(c)
  /\ signal' = [signal EXCEPT ![c] = FALSE]
  /\ StartGetJob(c)
  /\ UNCHANGED <<provider, subscribers, scheduled, sent, row, gone, replaced>>

\* The client goes away; the hub learns of it when it sends.
Disconnect(c) ==
  /\ gone' = gone \cup {c}
  /\ UNCHANGED <<provider, loop, row, pc, copy, replaced>>

-----------------------------------------------------------------------------
Init ==
  /\ state = [status |-> "running", update |-> 0]
  /\ lines = 0
  /\ ended = FALSE /\ cancelling = {}
  /\ subscribers = {}
  /\ toCall = [p \in Publisher |-> {}]
  /\ row = [status |-> "running", update |-> 0, processed |-> FALSE]
  /\ scheduled = [c \in Client |-> 0]
  /\ signal = [c \in Client |-> FALSE]
  /\ pc = [t \in Thread |-> IF t \in Client THEN "connect" ELSE "idle"]
  /\ copy = [t \in Thread |-> row]
  /\ sent = [c \in Client |-> NotSent]
  /\ gone = {}
  /\ replaced = FALSE

Stream(c) == Connect(c) \/ Send(c) \/ Subscribe(c) \/ Wake(c)

Next ==
  \/ Progress \/ End
  \/ \E p \in Canceller : CancelCheck(p) \/ CancelSet(p)
  \/ \E p \in Publisher, c \in Client : Notify(p, c)
  \/ \E t \in Thread : GetJob(t) \/ Poll(t)
  \/ \E c \in Client : Stream(c) \/ Enqueue(c) \/ Disconnect(c)

Spec == Init /\ [][Next]_vars

\* Publishers call the listeners they have copied, the event loop runs what is
\* scheduled, calls of get_job return, and a lock that is released again and again
\* is granted.  The job need not end, and nobody has to poll or to disconnect.
Fairness ==
  /\ \A p \in Publisher, c \in Client : WF_vars(Notify(p, c))
  /\ \A t \in Thread : WF_vars(GetJob(t)) /\ SF_vars(Lock(t))
  /\ \A c \in Client : WF_vars(Stream(c)) /\ WF_vars(Enqueue(c))

FairSpec == Spec /\ Fairness

-----------------------------------------------------------------------------
(* Properties.                                                              *)

\* Every variable has its type.
TypeOK ==
  /\ state \in Snapshot
  /\ lines \in 0 .. MaxLines
  /\ ended \in BOOLEAN
  /\ cancelling \subseteq Canceller
  /\ subscribers \subseteq Client
  /\ toCall \in [Publisher -> SUBSET Client]
  /\ row \in Row
  /\ scheduled \in [Client -> Nat]
  /\ signal \in [Client -> BOOLEAN]
  /\ pc \in [Thread -> PCs]
  /\ copy \in [Thread -> Row]
  /\ sent \in [Client -> Snapshot \cup {NotSent}]
  /\ gone \subseteq Client
  /\ replaced \in BOOLEAN

\* A change of the job is on its way to the hub.
Pending(c) == signal[c] \/ scheduled[c] > 0 \/ \E p \in Publisher : c \in toCall[p]

\* Coalescing signals lose nothing: while no stale copy has been saved, a client
\* that waits without anything on its way has been sent the job as it is now.
NoLostUpdate ==
  ~replaced => \A c \in Client : pc[c] = "wait" /\ ~Pending(c) => sent[c] = state

\* While no stale copy has been saved, the result a client was told is the stored
\* one, so that all clients and later requests see the same.
ResultIsStored ==
  ~replaced => \A c \in Client : sent[c].status \in Terminal => sent[c] = Content(row)

\* A client never sees the job go back.
SnapshotsAdvance ==
  [][replaced' \/ \A c \in Client : sent'[c].update >= sent[c].update]_vars

\* Why: copies are not newer than the job; ...
Ordered ==
  /\ row.update <= state.update
  /\ \A t \in Thread : copy[t].update <= state.update

\* ... what a client was told is stored, and its next snapshot is not older; ...
ToldIsStored ==
  \A c \in Client :
    /\ sent[c].update <= row.update
    /\ pc[c] \in {"store", "send"} => sent[c].update <= copy[c].update
    /\ pc[c] = "send" => copy[c].update <= row.update
    /\ pc[c] = "send" /\ copy[c].status \in Terminal => Content(copy[c]) = Content(row)

\* ... who synchronises the end works on a job that has ended; ...
EndIsFinal == \A t \in Thread : pc[t] \in {"lock"} \cup InLock => row.status \in Terminal

\* ... and a subscribed client has a change on its way, or the job as it is now.
UpToDate ==
  \A c \in Client :
    /\ pc[c] = "wait" => c \in subscribers /\ (Pending(c) \/ sent[c] = state)
    /\ pc[c] \in {"store", "send"} /\ c \in subscribers /\ copy[c].status \notin Terminal =>
         Pending(c) \/ Content(copy[c]) = state

StreamInv ==
  /\ TypeOK /\ Ordered
  /\ ~replaced => ToldIsStored /\ EndIsFinal /\ UpToDate /\ ResultIsStored

\* When the job has ended for good and no stale copy is saved, every stream ends,
\* with the result if the client is still there.
EndReported ==
  <>[](state.status \in Terminal) /\ []~replaced => \A c \in Client : <>(pc[c] = "closed")
=============================================================================
