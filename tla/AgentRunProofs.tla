-------------------------- MODULE AgentRunProofs --------------------------
(***************************************************************************)
(* Proofs about the follow-ups of a run and about the drain, for every     *)
(* number of runs, turns, polling requests, requests of the status and     *)
(* faults: each follow-up is sent to a CLI at most once, also while the    *)
(* status is asked for; when nobody polls, reviewer and generator take     *)
(* turns; and when the status is ready no turn of a user executes.         *)
(* What is said of Spec comes first and uses nothing of BackendDrain but   *)
(* what that extends, AgentRun.                                            *)
(***************************************************************************)
EXTENDS BackendDrain, FiniteSetTheorems, TLAPS

-----------------------------------------------------------------------------
(* The constants.                                                           *)

\* Follow-ups are messages of their runs, distinct from those of human turns.
LEMMA SlotFacts ==
  /\ FollowUp \subseteq Slot /\ NoSlot \notin Slot
  /\ \A r \in Run : Entry(r) \in Slot \ FollowUp
  /\ \A s \in Slot : RunOf(s) \in Run
  /\ \A r, q \in Run : Entry(r) = Entry(q) => r = q
  BY RunsAssumption DEF Slot, FollowUp, NoSlot, Entry, Run, RunOf, NoRun

\* Every thread has one role.
LEMMA ThreadFacts ==
  /\ Slot \subseteq Thread /\ Poller \subseteq Thread /\ Reconciler \subseteq Thread /\ Submitter \in Thread
  /\ \A t \in Thread : t \in Slot \cup Poller \/ t \in Reconciler \/ t = Submitter
  /\ Submitter \notin Slot \cup Poller \cup Reconciler
  /\ \A t \in Slot \cup Poller : t \notin Reconciler
  BY ThreadAssumption DEF Thread

\* Rows have their types.
LEMMA Rows ==
  /\ \A m \in MsgRow : m.status \in MsgStatuses
  /\ \A j \in JobRow : j.status \in JobStatuses
  /\ \A st \in MsgStatuses :
       [status |-> st, attached |-> TRUE] \in MsgRow /\ [status |-> st, attached |-> FALSE] \in MsgRow
  /\ \A st \in JobStatuses : [status |-> st, processed |-> FALSE] \in JobRow
  /\ \A j \in JobRow, st \in JobStatuses :
       [j EXCEPT !.status = st] \in JobRow /\ [j EXCEPT !.status = st].status = st
  /\ \A j \in JobRow : [j EXCEPT !.processed = TRUE] \in JobRow /\ [j EXCEPT !.processed = TRUE].status = j.status
  BY DEF MsgRow, JobRow

LEMMA Words ==
  /\ {"pending", "completed", "failed"} = JobStatuses \ {"none"}
  /\ JobStatuses \ {"none"} \subseteq MsgStatuses \ Unsent
  /\ {"submission_pending", "submission_unknown", "cancelled"} \subseteq MsgStatuses \ Unsent
  BY DEF JobStatuses, MsgStatuses, Terminal, Unsent

\* What get_job sees of a stored job has a status.
LEMMA ObservedType ==
  ASSUME TypeOK, NEW s \in Slot, job[s].status # "none"
  PROVE  Observed(s) \in JobRow /\ Observed(s).status # "none"
<1>1. job[s] \in JobRow /\ job[s].status \in JobStatuses /\ exec[s] \in JobStatuses
  BY Rows DEF TypeOK
<1>2. CASE job[s].status \in Terminal
  BY <1>1, <1>2 DEF Observed
<1>3. CASE job[s].status \notin Terminal
  <2> DEFINE st == IF exec[s] = "none" THEN "failed" ELSE exec[s]
  <2>1. st \in JobStatuses /\ st # "none"
    BY <1>1, Words
  <2>2. Observed(s) = [job[s] EXCEPT !.status = st]
    BY <1>3 DEF Observed
  <2> QED BY <1>1, <2>1, <2>2, Rows
<1> QED BY <1>2, <1>3

\* There are finitely many messages to count.
LEMMA SlotFinite == IsFiniteSet(Slot)
<1> DEFINE kinds == {"entry", "reviewer", "generator"}
           turns == 1 .. (RevTurns + GenTurns)
           f == [s \in Slot |-> <<<<s[1], s[2]>>, s[3]>>]
<1>1. IsFiniteSet((Run \X kinds) \X turns)
  <2>1. IsFiniteSet(Run) /\ IsFiniteSet(turns)
    BY FS_Interval, RunsAssumption, TurnsAssumption DEF Run
  <2>2. IsFiniteSet(kinds)
    <3>1. IsFiniteSet({"entry"}) /\ IsFiniteSet({"reviewer"}) /\ IsFiniteSet({"generator"})
      BY FS_Singleton
    <3>2. kinds = ({"entry"} \cup {"reviewer"}) \cup {"generator"}
      OBVIOUS
    <3>3. IsFiniteSet({"entry"} \cup {"reviewer"})
      BY <3>1, FS_Union
    <3>4. IsFiniteSet(({"entry"} \cup {"reviewer"}) \cup {"generator"})
      BY <3>1, <3>3, FS_Union
    <3> QED BY <3>2, <3>4
  <2>3. IsFiniteSet(Run \X kinds)
    BY <2>1, <2>2, FS_Product
  <2> QED BY <2>1, <2>3, FS_Product
<1>2. \A s \in Slot : s \in Run \X kinds \X turns
  BY RunsAssumption, TurnsAssumption DEF Slot, FollowUp, Entry, Run
<1>3. f \in Injection(Slot, (Run \X kinds) \X turns)
  <2>1. f \in [Slot -> (Run \X kinds) \X turns]
    BY <1>2
  <2>2. ASSUME NEW r \in Slot, NEW s \in Slot, f[r] = f[s] PROVE r = s
    BY <2>2, <1>2
  <2> QED BY <2>1, <2>2 DEF Injection, IsInjective
<1> QED BY <1>1, <1>3, FS_Injection

\* The next turn of a job is one of the follow-ups, or none.
LEMMA NextTurnType == \A s \in Slot : NextTurn(s) \in FollowUp \cup {NoSlot}
<1>1. ASSUME NEW r, NEW b PROVE Turns(r, b) \in Nat
  <2> DEFINE S == {s \in Slot : RunOf(s) = r /\ ByReviewer(s) = b /\ msg[s].status = "completed"}
  <2>1. S \in SUBSET Slot
    OBVIOUS
  <2>2. IsFiniteSet(S)
    BY <2>1, SlotFinite, FS_Subset
  <2> QED BY <2>2, FS_CardinalityType DEF Turns
<1>2. ASSUME NEW s \in Slot PROVE NextTurn(s) \in FollowUp \cup {NoSlot}
  <2>1. RunOf(s) \in Run
    BY SlotFacts
  <2> DEFINE turn == Turns(RunOf(s), ~ByReviewer(s)) + 1
  <2>2. turn \in Nat /\ turn > 0
    BY <1>1
  <2>3. NextTurn(s) = IF ByReviewer(s)
                      THEN IF turn <= GenTurns /\ Turns(RunOf(s), TRUE) > 0
                           THEN <<RunOf(s), "generator", turn>> ELSE NoSlot
                      ELSE IF turn <= RevTurns THEN <<RunOf(s), "reviewer", turn>> ELSE NoSlot
    BY DEF NextTurn
  <2> HIDE DEF turn
  <2>4. turn <= GenTurns => <<RunOf(s), "generator", turn>> \in FollowUp
    BY <2>1, <2>2, TurnsAssumption DEF FollowUp
  <2>5. turn <= RevTurns => <<RunOf(s), "reviewer", turn>> \in FollowUp
    BY <2>1, <2>2, TurnsAssumption DEF FollowUp
  <2> QED BY <2>3, <2>4, <2>5
<1> QED BY <1>2

\* A callback looks at its own job, as it is now.
LEMMA CallsBackType ==
  ASSUME TypeOK, NEW s \in Slot, NEW h \in Thread, job[s].status # "none", CallsBack(s, h)
  PROVE  /\ serving' \in [Thread -> Slot \cup {NoSlot}] /\ seen' \in [Thread -> JobRow]
         /\ host' \in [Thread -> Thread]
         /\ serving'[s] = s /\ seen'[s].status # "none"
         /\ \A u \in Thread : u # s => serving'[u] = serving[u] /\ seen'[u] = seen[u]
<1>1. Observed(s) \in JobRow /\ Observed(s).status # "none" /\ s \in Thread
  BY ObservedType, ThreadFacts
<1> QED BY <1>1 DEF TypeOK, CallsBack

-----------------------------------------------------------------------------
(* The steps.                                                               *)

\* get_job saves its copy of a job.
LEMMA StoreJobKeeps == ASSUME LaunchInv, NEW t \in Thread, StoreJob(t) PROVE LaunchInv'
<1>0. /\ t \in Slot \cup Poller /\ serving[t] \in Slot
      /\ seen[t] \in JobRow /\ seen[t].status \in JobStatuses \ {"none"}
      /\ job[serving[t]] \in JobRow /\ job[serving[t]].status # "none"
  BY ThreadFacts, Rows DEF LaunchInv, TypeOK, Roles, Copies, StoreJob, Goes, Locked, Guarded,
     Launching
<1>1. TypeOK'
  BY <1>0, ThreadFacts, Rows, Words DEF LaunchInv, TypeOK, StoreJob, Goes, rest, local,
     provider, PCs, Locked, Guarded, Launching, Terminal
<1>2. OncePerFollowUp'
  BY DEF LaunchInv, OncePerFollowUp, StoreJob, provider
<1>3. ReservedIsUnsent'
  BY DEF LaunchInv, ReservedIsUnsent, StoreJob, provider
<1>4. Roles'
  BY ThreadFacts DEF LaunchInv, TypeOK, Roles, StoreJob, Goes, rest, local, provider, Locked,
     Guarded, Launching
<1>5. Copies'
  BY <1>0, ThreadFacts, SlotFacts, Rows DEF LaunchInv, TypeOK, Copies, StoreJob, Goes, rest,
     local, provider, PCs, Locked, Guarded, Launching
<1>6. Aims'
  BY <1>0, ThreadFacts, SlotFacts, Rows DEF LaunchInv, TypeOK, Aims, StoreJob, Goes, rest,
     local, provider, PCs, Locked, Guarded, Launching
<1>7. OneLauncher'
  BY DEF LaunchInv, TypeOK, OneLauncher, StoreJob, Goes, rest, local, provider, Locked, Guarded,
     Launching
<1>8. LaunchesFresh'
  BY DEF LaunchInv, TypeOK, LaunchesFresh, StoreJob, Goes, rest, local, provider, Locked,
     Guarded, Launching
<1>9. EntriesFresh'
  BY ThreadFacts, SlotFacts DEF LaunchInv, TypeOK, EntriesFresh, StoreJob, Goes, rest, local,
     provider, Locked, Guarded, Launching
<1> QED BY <1>1, <1>2, <1>3, <1>4, <1>5, <1>6, <1>7, <1>8, <1>9 DEF LaunchInv

\* Under the terminal lock the job is read again.
LEMMA TakeLockKeeps == ASSUME LaunchInv, NEW t \in Thread, TakeLock(t) PROVE LaunchInv'
<1>0. /\ t \in Slot \cup Poller /\ serving[t] \in Slot
      /\ seen[t] \in JobRow /\ seen[t].status \in JobStatuses \ {"none"}
      /\ job[serving[t]] \in JobRow /\ job[serving[t]].status # "none"
  BY ThreadFacts, Rows DEF LaunchInv, TypeOK, Roles, Copies, TakeLock, Goes, Locked, Guarded,
     Launching
<1>1. TypeOK'
  BY <1>0, ThreadFacts, Rows, Words DEF LaunchInv, TypeOK, TakeLock, Goes, rest, rows, provider,
     PCs, Locked, Guarded, Launching
<1>2. OncePerFollowUp'
  BY DEF LaunchInv, OncePerFollowUp, TakeLock, rows, provider
<1>3. ReservedIsUnsent'
  BY DEF LaunchInv, ReservedIsUnsent, TakeLock, rows, provider
<1>4. Roles'
  BY ThreadFacts DEF LaunchInv, TypeOK, Roles, TakeLock, Goes, rest, rows, provider, Locked,
     Guarded, Launching
<1>5. Copies'
  BY <1>0, ThreadFacts, SlotFacts, Rows DEF LaunchInv, TypeOK, Copies, TakeLock, Goes, rest,
     rows, provider, PCs, Locked, Guarded, Launching
<1>6. Aims'
  BY <1>0, ThreadFacts, SlotFacts, Rows DEF LaunchInv, TypeOK, Aims, TakeLock, Goes, rest, rows,
     provider, PCs, Locked, Guarded, Launching
<1>7. OneLauncher'
  BY DEF LaunchInv, TypeOK, OneLauncher, TakeLock, Goes, rest, rows, provider, Locked, Guarded,
     Launching
<1>8. LaunchesFresh'
  BY DEF LaunchInv, TypeOK, LaunchesFresh, TakeLock, Goes, rest, rows, provider, Locked,
     Guarded, Launching
<1>9. EntriesFresh'
  BY ThreadFacts, SlotFacts DEF LaunchInv, TypeOK, EntriesFresh, TakeLock, Goes, rest, rows,
     provider, Locked, Guarded, Launching
<1> QED BY <1>1, <1>2, <1>3, <1>4, <1>5, <1>6, <1>7, <1>8, <1>9 DEF LaunchInv

\* Reading the session changes only the copy.
LEMMA ReadSessionKeeps == ASSUME LaunchInv, NEW t \in Thread, ReadSession(t) PROVE LaunchInv'
<1>0. /\ pc' \in [Thread -> PCs] /\ pc[t] \in {"session"} /\ pc'[t] \in {"learn", "message"}
      /\ \A u \in Thread : u # t => pc'[u] = pc[u]
  <2>1. pc[t] = "session" /\ (Goes(t, "learn") \/ Goes(t, "message"))
    BY DEF ReadSession
  <2> QED BY <2>1 DEF LaunchInv, TypeOK, Goes, PCs, Locked
<1>1. TypeOK'
  BY ThreadFacts DEF LaunchInv, TypeOK, ReadSession, Goes, rest, rows, provider, PCs, Locked,
     Guarded, Launching
<1>2. OncePerFollowUp'
  BY DEF LaunchInv, OncePerFollowUp, ReadSession, rows, provider
<1>3. ReservedIsUnsent'
  BY DEF LaunchInv, ReservedIsUnsent, ReadSession, rows, provider
<1>4. Roles'
  BY <1>0, ThreadFacts, SlotFacts DEF LaunchInv, Roles, ReadSession, rest, rows, provider, PCs,
     Locked, Guarded, Launching
<1>5. Copies'
  BY ThreadFacts DEF LaunchInv, TypeOK, Copies, ReadSession, Goes, rest, rows, provider, Locked,
     Guarded, Launching
<1>6. Aims'
  BY DEF LaunchInv, TypeOK, Aims, ReadSession, Goes, rest, rows, provider, Locked, Guarded,
     Launching
<1>7. OneLauncher'
  BY <1>0, ThreadFacts DEF LaunchInv, OneLauncher, ReadSession, rest, rows, provider, PCs,
     Locked, Guarded, Launching
<1>8. LaunchesFresh'
  BY DEF LaunchInv, TypeOK, LaunchesFresh, ReadSession, Goes, rest, rows, provider, Locked,
     Guarded, Launching
<1>9. EntriesFresh'
  BY <1>0, ThreadFacts, SlotFacts DEF LaunchInv, EntriesFresh, ReadSession, rest, rows,
     provider, PCs, Locked, Guarded, Launching
<1> QED BY <1>1, <1>2, <1>3, <1>4, <1>5, <1>6, <1>7, <1>8, <1>9 DEF LaunchInv

\* A stale copy of the session is one of the runs.
LEMMA LearnSessionKeeps == ASSUME LaunchInv, NEW t \in Thread, LearnSession(t) PROVE LaunchInv'
<1>1. TypeOK'
  BY ThreadFacts DEF LaunchInv, TypeOK, LearnSession, Goes, rest, local, provider, SaveView,
     PCs, Locked, Guarded, Launching
<1>2. OncePerFollowUp'
  BY DEF LaunchInv, OncePerFollowUp, LearnSession, provider
<1>3. ReservedIsUnsent'
  BY DEF LaunchInv, ReservedIsUnsent, LearnSession, provider
<1>4. Roles'
  BY ThreadFacts DEF LaunchInv, TypeOK, Roles, LearnSession, Goes, rest, local, provider,
     SaveView, Locked, Guarded, Launching
<1>5. Copies'
  BY ThreadFacts DEF LaunchInv, TypeOK, Copies, LearnSession, Goes, rest, local, provider,
     SaveView, Locked, Guarded, Launching
<1>6. Aims'
  BY DEF LaunchInv, TypeOK, Aims, LearnSession, Goes, rest, local, provider, SaveView, Locked,
     Guarded, Launching
<1>7. OneLauncher'
  BY DEF LaunchInv, TypeOK, OneLauncher, LearnSession, Goes, rest, local, provider, SaveView,
     Locked, Guarded, Launching
<1>8. LaunchesFresh'
  BY DEF LaunchInv, TypeOK, LaunchesFresh, LearnSession, Goes, rest, local, provider, SaveView,
     Locked, Guarded, Launching
<1>9. EntriesFresh'
  BY ThreadFacts, SlotFacts DEF LaunchInv, TypeOK, EntriesFresh, LearnSession, Goes, rest,
     local, provider, SaveView, Locked, Guarded, Launching
<1> QED BY <1>1, <1>2, <1>3, <1>4, <1>5, <1>6, <1>7, <1>8, <1>9 DEF LaunchInv

\* A message that takes over the status of its job has been sent.
LEMMA SyncMessageKeeps == ASSUME LaunchInv, NEW t \in Thread, SyncMessage(t) PROVE LaunchInv'
<1>0. /\ t \in Slot \cup Poller /\ serving[t] \in Slot
      /\ seen[t] \in JobRow /\ seen[t].status \in JobStatuses \ {"none"}
      /\ job[serving[t]] \in JobRow /\ job[serving[t]].status # "none"
  BY ThreadFacts, Rows DEF LaunchInv, TypeOK, Roles, Copies, SyncMessage, Goes, Locked, Guarded,
     Launching
<1>1. TypeOK'
  BY <1>0, ThreadFacts, Rows, Words DEF LaunchInv, TypeOK, SyncMessage, Goes, rest, local,
     provider, PCs, Locked, Guarded, Launching, Terminal, Unsent
<1>2. OncePerFollowUp'
  BY DEF LaunchInv, OncePerFollowUp, SyncMessage, provider
<1>3. ReservedIsUnsent'
  BY <1>0, ThreadFacts, SlotFacts, Words DEF LaunchInv, TypeOK, ReservedIsUnsent, Aims,
     SyncMessage, Goes, rest, local, provider, PCs, Locked, Guarded, Launching, Unsent,
     Terminal
<1>4. Roles'
  BY ThreadFacts DEF LaunchInv, TypeOK, Roles, SyncMessage, Goes, rest, local, provider,
     Terminal, Locked, Guarded, Launching
<1>5. Copies'
  BY <1>0, ThreadFacts, SlotFacts, Rows DEF LaunchInv, TypeOK, Copies, SyncMessage, Goes, rest,
     local, provider, PCs, Locked, Guarded, Launching
<1>6. Aims'
  BY <1>0, ThreadFacts, SlotFacts, Rows DEF LaunchInv, TypeOK, Aims, SyncMessage, Goes, rest,
     local, provider, PCs, Locked, Guarded, Launching
<1>7. OneLauncher'
  BY DEF LaunchInv, TypeOK, OneLauncher, SyncMessage, Goes, rest, local, provider, Terminal,
     Locked, Guarded, Launching
<1>8. LaunchesFresh'
  BY <1>0, ThreadFacts, SlotFacts, Words DEF LaunchInv, TypeOK, LaunchesFresh, Aims,
     SyncMessage, Goes, rest, local, provider, PCs, Locked, Guarded, Launching, Unsent,
     Terminal
<1>9. EntriesFresh'
  BY ThreadFacts, SlotFacts DEF LaunchInv, TypeOK, EntriesFresh, SyncMessage, Goes, rest, local,
     provider, Terminal, Locked, Guarded, Launching
<1> QED BY <1>1, <1>2, <1>3, <1>4, <1>5, <1>6, <1>7, <1>8, <1>9 DEF LaunchInv

\* A stale copy of the session is one of the runs.
LEMMA TouchSessionKeeps == ASSUME LaunchInv, NEW t \in Thread, TouchSession(t) PROVE LaunchInv'
<1>1. TypeOK'
  BY ThreadFacts DEF LaunchInv, TypeOK, TouchSession, Goes, rest, local, provider, SaveView,
     PCs, Locked, Guarded, Launching
<1>2. OncePerFollowUp'
  BY DEF LaunchInv, OncePerFollowUp, TouchSession, provider
<1>3. ReservedIsUnsent'
  BY DEF LaunchInv, ReservedIsUnsent, TouchSession, provider
<1>4. Roles'
  BY ThreadFacts DEF LaunchInv, TypeOK, Roles, TouchSession, Goes, rest, local, provider,
     SaveView, Locked, Guarded, Launching
<1>5. Copies'
  BY ThreadFacts DEF LaunchInv, TypeOK, Copies, TouchSession, Goes, rest, local, provider,
     SaveView, Locked, Guarded, Launching
<1>6. Aims'
  BY DEF LaunchInv, TypeOK, Aims, TouchSession, Goes, rest, local, provider, SaveView, Locked,
     Guarded, Launching
<1>7. OneLauncher'
  BY DEF LaunchInv, TypeOK, OneLauncher, TouchSession, Goes, rest, local, provider, SaveView,
     Locked, Guarded, Launching
<1>8. LaunchesFresh'
  BY DEF LaunchInv, TypeOK, LaunchesFresh, TouchSession, Goes, rest, local, provider, SaveView,
     Locked, Guarded, Launching
<1>9. EntriesFresh'
  BY ThreadFacts, SlotFacts DEF LaunchInv, TypeOK, EntriesFresh, TouchSession, Goes, rest,
     local, provider, SaveView, Locked, Guarded, Launching
<1> QED BY <1>1, <1>2, <1>3, <1>4, <1>5, <1>6, <1>7, <1>8, <1>9 DEF LaunchInv

\* Reading the session changes only the copy.
LEMMA ReadForChainKeeps == ASSUME LaunchInv, NEW t \in Thread, ReadForChain(t) PROVE LaunchInv'
<1>1. TypeOK'
  BY ThreadFacts DEF LaunchInv, TypeOK, ReadForChain, Goes, rest, rows, provider, RunOf, PCs,
     Locked, Guarded, Launching
<1>2. OncePerFollowUp'
  BY DEF LaunchInv, OncePerFollowUp, ReadForChain, rows, provider
<1>3. ReservedIsUnsent'
  BY DEF LaunchInv, ReservedIsUnsent, ReadForChain, rows, provider
<1>4. Roles'
  BY ThreadFacts DEF LaunchInv, TypeOK, Roles, ReadForChain, Goes, rest, rows, provider, RunOf,
     Locked, Guarded, Launching
<1>5. Copies'
  BY ThreadFacts DEF LaunchInv, TypeOK, Copies, ReadForChain, Goes, rest, rows, provider, RunOf,
     Locked, Guarded, Launching
<1>6. Aims'
  BY DEF LaunchInv, TypeOK, Aims, ReadForChain, Goes, rest, rows, provider, RunOf, Locked,
     Guarded, Launching
<1>7. OneLauncher'
  BY DEF LaunchInv, TypeOK, OneLauncher, ReadForChain, Goes, rest, rows, provider, RunOf,
     Locked, Guarded, Launching
<1>8. LaunchesFresh'
  BY DEF LaunchInv, TypeOK, LaunchesFresh, ReadForChain, Goes, rest, rows, provider, RunOf,
     Locked, Guarded, Launching
<1>9. EntriesFresh'
  BY ThreadFacts, SlotFacts DEF LaunchInv, TypeOK, EntriesFresh, ReadForChain, Goes, rest, rows,
     provider, RunOf, Locked, Guarded, Launching
<1> QED BY <1>1, <1>2, <1>3, <1>4, <1>5, <1>6, <1>7, <1>8, <1>9 DEF LaunchInv

\* The chosen turn is a follow-up.
LEMMA ChooseKeeps == ASSUME LaunchInv, NEW t \in Thread, Choose(t) PROVE LaunchInv'
<1>0. /\ t \in Slot \cup Poller /\ serving[t] \in Slot
      /\ seen[t] \in JobRow /\ seen[t].status \in JobStatuses \ {"none"}
      /\ job[serving[t]] \in JobRow /\ job[serving[t]].status # "none"
  BY ThreadFacts, Rows DEF LaunchInv, TypeOK, Roles, Copies, Choose, Goes, Locked, Guarded,
     Launching
<1>a. /\ target' = [target EXCEPT ![t] = NextTurn(serving[t])]
      /\ direct' = [direct EXCEPT ![t] = TRUE]
      /\ UNCHANGED <<rows, provider, serving, seen, view, todo, rest>>
  BY DEF Choose
<1>b. PICK x \in {"complete", "reserve", "mark"} : Goes(t, x) /\ (x = "reserve" => NextTurn(serving[t]) # NoSlot)
  <2> DEFINE next == NextTurn(serving[t])
  <2>1. CASE Goes(t, "complete")
    BY <2>1
  <2>2. CASE next # NoSlot /\ Goes(t, IF msg[next].status = "none"
                   THEN IF ByReviewer(serving[t]) \/ Turns(RunOf(serving[t]), FALSE) > 0 THEN "reserve" ELSE "mark"
                   ELSE IF msg[next].status \in Waiting THEN "mark" ELSE "complete")
    <3>0. NextTurn(serving[t]) # NoSlot
      BY <2>2
    <3> HIDE DEF next
    <3>1. CASE Goes(t, "reserve")
      BY <3>1, <3>0
    <3>2. CASE Goes(t, "mark")
      BY <3>2
    <3>3. CASE Goes(t, "complete")
      BY <3>3
    <3> QED BY <2>2, <3>1, <3>2, <3>3
  <2> QED BY <2>1, <2>2 DEF Choose
<1>01. /\ pc' \in [Thread -> PCs] /\ pc[t] = "choose" /\ pc'[t] = x
       /\ \A u \in Thread : u # t => pc'[u] = pc[u]
  BY <1>b DEF LaunchInv, TypeOK, Choose, Goes, PCs, Locked, Guarded, Launching
<1>02. target' \in [Thread -> FollowUp \cup {NoSlot}] /\ (x = "reserve" => target'[t] \in FollowUp)
  BY <1>0, <1>a, <1>b, NextTurnType DEF LaunchInv, TypeOK
<1>03. direct' \in [Thread -> BOOLEAN]
  BY <1>a DEF LaunchInv, TypeOK
<1>1. TypeOK'
  BY <1>a, <1>01, <1>02, <1>03 DEF LaunchInv, TypeOK, rest, rows, provider
<1>2. OncePerFollowUp'
  BY DEF LaunchInv, OncePerFollowUp, Choose, rows, provider
<1>3. ReservedIsUnsent'
  BY DEF LaunchInv, ReservedIsUnsent, Choose, rows, provider
<1>4. Roles'
  BY <1>a, <1>01, <1>02, ThreadFacts DEF LaunchInv, Roles, Locked, Guarded, Launching
<1>5. Copies'
  BY <1>a, <1>01, <1>02, ThreadFacts DEF LaunchInv, TypeOK, Copies, rest, rows, provider, PCs,
     Locked, Guarded, Launching
<1>6. Aims'
  BY <1>a, <1>01, <1>02, ThreadFacts DEF LaunchInv, TypeOK, Aims, rest, rows, provider, PCs,
     Locked, Guarded, Launching
<1>7. OneLauncher'
  BY <1>a, <1>01, <1>02, ThreadFacts DEF LaunchInv, OneLauncher, Locked, Guarded, Launching
<1>8. LaunchesFresh'
  BY <1>a, <1>01, <1>02, ThreadFacts DEF LaunchInv, TypeOK, LaunchesFresh, rest, rows, provider,
     PCs, Locked, Guarded, Launching
<1>9. EntriesFresh'
  BY <1>a, <1>01, <1>02, ThreadFacts DEF LaunchInv, TypeOK, EntriesFresh, rest, rows, provider,
     PCs, Locked, Guarded, Launching
<1> QED BY <1>1, <1>2, <1>3, <1>4, <1>5, <1>6, <1>7, <1>8, <1>9 DEF LaunchInv

\* Only a message that is not there yet is reserved.
LEMMA ReserveKeeps == ASSUME LaunchInv, NEW t \in Thread, Reserve(t) PROVE LaunchInv'
<1>p. /\ pc' \in [Thread -> PCs] /\ pc[t] \in {"reserve"} /\ pc'[t] \in {"acquire"} \cup {"idle", "resave", "mark"}
      /\ \A u \in Thread : u # t => pc'[u] = pc[u]
  BY ThreadFacts DEF LaunchInv, TypeOK, Reserve, Goes, PCs, Locked, Guarded, Launching,
     AfterLaunch
<1>m. /\ msg' \in [Slot -> MsgRow]
      /\ \A s \in Slot : msg'[s] = msg[s] \/ (msg[s].status = "none" /\ msg'[s].status = "reserved")
  <2>1. target[t] \in Slot /\ Reserved \in MsgRow /\ Reserved.status = "reserved"
    BY SlotFacts DEF LaunchInv, Aims, Reserve, Reserved, MsgRow, MsgStatuses
  <2>2. msg' = msg \/ (msg' = [msg EXCEPT ![target[t]] = Reserved] /\ msg[target[t]].status = "none")
    BY DEF Reserve
  <2>3. msg \in [Slot -> MsgRow]
    BY DEF LaunchInv, TypeOK
  <2> QED BY <2>1, <2>2, <2>3
<1>1. TypeOK'
  BY <1>p, <1>m, ThreadFacts, SlotFacts DEF LaunchInv, TypeOK, Reserve, rest, local, provider,
     PCs, Locked, Guarded, Launching
<1>2. OncePerFollowUp'
  BY <1>p, <1>m, ThreadFacts, SlotFacts DEF LaunchInv, TypeOK, OncePerFollowUp, Reserve, rest,
     local, provider, PCs, Locked, Guarded, Launching
<1>3. ReservedIsUnsent'
  BY <1>p, <1>m, ThreadFacts, SlotFacts DEF LaunchInv, TypeOK, ReservedIsUnsent, Reserve, rest,
     local, provider, Aims, Unsent, PCs, Locked, Guarded, Launching
<1>4. Roles'
  BY <1>p, ThreadFacts DEF LaunchInv, Roles, Locked, Guarded, Launching
<1>5. Copies'
  BY <1>p, <1>m, ThreadFacts, SlotFacts DEF LaunchInv, TypeOK, Copies, Reserve, rest, local,
     provider, PCs, Locked, Guarded, Launching
<1>6. Aims'
  BY <1>p, <1>m, ThreadFacts, SlotFacts DEF LaunchInv, TypeOK, Aims, Reserve, rest, local,
     provider, PCs, Locked, Guarded, Launching
<1>7. OneLauncher'
  BY <1>p, ThreadFacts DEF LaunchInv, OneLauncher, Locked, Guarded, Launching
<1>8. LaunchesFresh'
  BY <1>p, <1>m, ThreadFacts, SlotFacts DEF LaunchInv, TypeOK, LaunchesFresh, Reserve, rest,
     local, provider, Aims, Unsent, PCs, Locked, Guarded, Launching
<1>9. EntriesFresh'
  BY <1>p, <1>m, ThreadFacts, SlotFacts DEF LaunchInv, TypeOK, EntriesFresh, Reserve, rest,
     local, provider, PCs, Locked, Guarded, Launching
<1> QED BY <1>1, <1>2, <1>3, <1>4, <1>5, <1>6, <1>7, <1>8, <1>9 DEF LaunchInv

\* A stale copy of the session is one of the runs.
LEMMA ResaveSessionKeeps == ASSUME LaunchInv, NEW t \in Thread, ResaveSession(t) PROVE LaunchInv'
<1>1. TypeOK'
  BY ThreadFacts DEF LaunchInv, TypeOK, ResaveSession, Goes, rest, local, provider, SaveView,
     PCs, Locked, Guarded, Launching
<1>2. OncePerFollowUp'
  BY DEF LaunchInv, OncePerFollowUp, ResaveSession, provider
<1>3. ReservedIsUnsent'
  BY DEF LaunchInv, ReservedIsUnsent, ResaveSession, provider
<1>4. Roles'
  BY ThreadFacts DEF LaunchInv, TypeOK, Roles, ResaveSession, Goes, rest, local, provider,
     SaveView, Locked, Guarded, Launching
<1>5. Copies'
  BY ThreadFacts DEF LaunchInv, TypeOK, Copies, ResaveSession, Goes, rest, local, provider,
     SaveView, Locked, Guarded, Launching
<1>6. Aims'
  BY DEF LaunchInv, TypeOK, Aims, ResaveSession, Goes, rest, local, provider, SaveView, Locked,
     Guarded, Launching
<1>7. OneLauncher'
  BY DEF LaunchInv, TypeOK, OneLauncher, ResaveSession, Goes, rest, local, provider, SaveView,
     Locked, Guarded, Launching
<1>8. LaunchesFresh'
  BY DEF LaunchInv, TypeOK, LaunchesFresh, ResaveSession, Goes, rest, local, provider, SaveView,
     Locked, Guarded, Launching
<1>9. EntriesFresh'
  BY ThreadFacts, SlotFacts DEF LaunchInv, TypeOK, EntriesFresh, ResaveSession, Goes, rest,
     local, provider, SaveView, Locked, Guarded, Launching
<1> QED BY <1>1, <1>2, <1>3, <1>4, <1>5, <1>6, <1>7, <1>8, <1>9 DEF LaunchInv

\* The end of a run touches no message.
LEMMA CompleteRunKeeps == ASSUME LaunchInv, NEW t \in Thread, CompleteRun(t) PROVE LaunchInv'
<1>1. TypeOK'
  BY ThreadFacts DEF LaunchInv, TypeOK, CompleteRun, Goes, rest, local, provider, PCs, Locked,
     Guarded, Launching
<1>2. OncePerFollowUp'
  BY DEF LaunchInv, OncePerFollowUp, CompleteRun, provider
<1>3. ReservedIsUnsent'
  BY DEF LaunchInv, ReservedIsUnsent, CompleteRun, provider
<1>4. Roles'
  BY ThreadFacts DEF LaunchInv, TypeOK, Roles, CompleteRun, Goes, rest, local, provider, Locked,
     Guarded, Launching
<1>5. Copies'
  BY ThreadFacts DEF LaunchInv, TypeOK, Copies, CompleteRun, Goes, rest, local, provider,
     Locked, Guarded, Launching
<1>6. Aims'
  BY DEF LaunchInv, TypeOK, Aims, CompleteRun, Goes, rest, local, provider, Locked, Guarded,
     Launching
<1>7. OneLauncher'
  BY DEF LaunchInv, TypeOK, OneLauncher, CompleteRun, Goes, rest, local, provider, Locked,
     Guarded, Launching
<1>8. LaunchesFresh'
  BY DEF LaunchInv, TypeOK, LaunchesFresh, CompleteRun, Goes, rest, local, provider, Locked,
     Guarded, Launching
<1>9. EntriesFresh'
  BY ThreadFacts, SlotFacts DEF LaunchInv, TypeOK, EntriesFresh, CompleteRun, Goes, rest, local,
     provider, Locked, Guarded, Launching
<1> QED BY <1>1, <1>2, <1>3, <1>4, <1>5, <1>6, <1>7, <1>8, <1>9 DEF LaunchInv

\* A processed job keeps its status.
LEMMA MarkProcessedKeeps == ASSUME LaunchInv, NEW t \in Thread, MarkProcessed(t) PROVE LaunchInv'
<1>0. /\ t \in Slot \cup Poller /\ serving[t] \in Slot
      /\ seen[t] \in JobRow /\ seen[t].status \in JobStatuses \ {"none"}
      /\ job[serving[t]] \in JobRow /\ job[serving[t]].status # "none"
  BY ThreadFacts, Rows DEF LaunchInv, TypeOK, Roles, Copies, MarkProcessed, Goes, Locked,
     Guarded, Launching
<1>1. TypeOK'
  BY <1>0, ThreadFacts, Rows, Words DEF LaunchInv, TypeOK, MarkProcessed, Goes, rest, local,
     provider, PCs, Locked, Guarded, Launching
<1>2. OncePerFollowUp'
  BY DEF LaunchInv, OncePerFollowUp, MarkProcessed, provider
<1>3. ReservedIsUnsent'
  BY DEF LaunchInv, ReservedIsUnsent, MarkProcessed, provider
<1>4. Roles'
  BY ThreadFacts DEF LaunchInv, TypeOK, Roles, MarkProcessed, Goes, rest, local, provider,
     Locked, Guarded, Launching
<1>5. Copies'
  BY <1>0, ThreadFacts, SlotFacts, Rows DEF LaunchInv, TypeOK, Copies, MarkProcessed, Goes,
     rest, local, provider, PCs, Locked, Guarded, Launching
<1>6. Aims'
  BY <1>0, ThreadFacts, SlotFacts, Rows DEF LaunchInv, TypeOK, Aims, MarkProcessed, Goes, rest,
     local, provider, PCs, Locked, Guarded, Launching
<1>7. OneLauncher'
  BY DEF LaunchInv, TypeOK, OneLauncher, MarkProcessed, Goes, rest, local, provider, Locked,
     Guarded, Launching
<1>8. LaunchesFresh'
  BY DEF LaunchInv, TypeOK, LaunchesFresh, MarkProcessed, Goes, rest, local, provider, Locked,
     Guarded, Launching
<1>9. EntriesFresh'
  BY ThreadFacts, SlotFacts DEF LaunchInv, TypeOK, EntriesFresh, MarkProcessed, Goes, rest,
     local, provider, Locked, Guarded, Launching
<1> QED BY <1>1, <1>2, <1>3, <1>4, <1>5, <1>6, <1>7, <1>8, <1>9 DEF LaunchInv

\* Under the guard only an unsent message is claimed.
LEMMA RecheckKeeps == ASSUME LaunchInv, NEW t \in Thread, Recheck(t) PROVE LaunchInv'
<1>1. TypeOK'
  BY ThreadFacts DEF LaunchInv, TypeOK, Recheck, Goes, rest, local, rows, provider, AfterLaunch,
     CanLaunch, Reserved, GuardFree, HasGuard, PCs, Locked, Guarded, Launching
<1>2. OncePerFollowUp'
  BY DEF LaunchInv, OncePerFollowUp, Recheck, rows, provider
<1>3. ReservedIsUnsent'
  BY DEF LaunchInv, ReservedIsUnsent, Recheck, rows, provider
<1>4. Roles'
  BY ThreadFacts DEF LaunchInv, TypeOK, Roles, Recheck, Goes, rest, local, rows, provider,
     AfterLaunch, CanLaunch, Reserved, GuardFree, HasGuard, Locked, Guarded, Launching
<1>5. Copies'
  BY ThreadFacts DEF LaunchInv, TypeOK, Copies, Recheck, Goes, rest, local, rows, provider,
     AfterLaunch, CanLaunch, Reserved, GuardFree, HasGuard, Locked, Guarded, Launching
<1>6. Aims'
  BY DEF LaunchInv, TypeOK, Aims, Recheck, Goes, rest, local, rows, provider, AfterLaunch,
     CanLaunch, Reserved, GuardFree, HasGuard, Locked, Guarded, Launching
<1>7. OneLauncher'
  BY DEF LaunchInv, TypeOK, OneLauncher, Recheck, Goes, rest, local, rows, provider,
     AfterLaunch, CanLaunch, Reserved, GuardFree, HasGuard, Locked, Guarded, Launching
<1>8. LaunchesFresh'
  <2>1. target[t] \in Slot /\ pc'[t] \notin {"execute"}
        /\ \A u \in Thread : u # t => pc'[u] = pc[u]
    BY ThreadFacts, SlotFacts DEF LaunchInv, TypeOK, Aims, Recheck, AfterLaunch, Goes, Launching
  <2>2. pc'[t] = "claim" => calls[target[t]] = 0
    BY <2>1, ThreadFacts DEF LaunchInv, TypeOK, ReservedIsUnsent, Recheck, AfterLaunch,
       CanLaunch, Reserved, Goes, Unsent
  <2> QED BY <2>1, <2>2 DEF LaunchInv, LaunchesFresh, Recheck, local, rows, provider
<1>9. EntriesFresh'
  BY ThreadFacts, SlotFacts DEF LaunchInv, TypeOK, EntriesFresh, Recheck, Goes, rest, local,
     rows, provider, AfterLaunch, CanLaunch, Reserved, GuardFree, HasGuard, Locked, Guarded,
     Launching
<1> QED BY <1>1, <1>2, <1>3, <1>4, <1>5, <1>6, <1>7, <1>8, <1>9 DEF LaunchInv

\* A claimed message is no longer reserved.
LEMMA ClaimKeeps == ASSUME LaunchInv, NEW t \in Thread, Claim(t) PROVE LaunchInv'
<1>p. /\ pc' \in [Thread -> PCs] /\ pc[t] \in {"claim"} /\ pc'[t] \in {"execute"}
      /\ \A u \in Thread : u # t => pc'[u] = pc[u]
  BY ThreadFacts DEF LaunchInv, TypeOK, Claim, Goes, PCs, Locked, Guarded, Launching
<1>m. /\ msg' \in [Slot -> MsgRow]
      /\ \A s \in Slot : msg'[s] = msg[s] \/ msg'[s].status \notin Unsent
  <2> DEFINE row == [status |-> "submission_pending", attached |-> FALSE]
  <2>1. target[t] \in Slot
    BY SlotFacts DEF LaunchInv, Aims, Claim, Launching
  <2>2. row \in MsgRow /\ row.status \notin Unsent
    BY DEF MsgRow, MsgStatuses, Unsent
  <2>3. msg' = [msg EXCEPT ![target[t]] = row]
    BY DEF Claim
  <2> HIDE DEF row
  <2> QED BY <2>1, <2>2, <2>3 DEF LaunchInv, TypeOK
<1>1. TypeOK'
  BY <1>p, <1>m, ThreadFacts, SlotFacts DEF LaunchInv, TypeOK, Claim, rest, local, provider
<1>2. OncePerFollowUp'
  BY DEF LaunchInv, OncePerFollowUp, Claim, provider
<1>3. ReservedIsUnsent'
  BY <1>p, <1>m, ThreadFacts, SlotFacts DEF LaunchInv, TypeOK, ReservedIsUnsent, Claim, rest,
     local, provider
<1>4. Roles'
  BY ThreadFacts DEF LaunchInv, TypeOK, Roles, Claim, Goes, rest, local, provider, Locked,
     Guarded, Launching
<1>5. Copies'
  BY ThreadFacts DEF LaunchInv, TypeOK, Copies, Claim, Goes, rest, local, provider, Locked,
     Guarded, Launching
<1>6. Aims'
  BY DEF LaunchInv, TypeOK, Aims, Claim, Goes, rest, local, provider, Locked, Guarded, Launching
<1>7. OneLauncher'
  BY DEF LaunchInv, TypeOK, OneLauncher, Claim, Goes, rest, local, provider, Locked, Guarded,
     Launching
<1>8. LaunchesFresh'
  <2>1. target[t] \in Slot /\ msg'[target[t]].status = "submission_pending"
    BY SlotFacts DEF LaunchInv, TypeOK, Aims, Claim, Launching
  <2> QED BY <1>p, <1>m, <2>1, ThreadFacts, SlotFacts DEF LaunchInv, LaunchesFresh, Aims, Claim,
             rest, local, provider, Launching, Unsent
<1>9. EntriesFresh'
  BY ThreadFacts, SlotFacts DEF LaunchInv, TypeOK, EntriesFresh, Claim, Goes, rest, local,
     provider, Locked, Guarded, Launching
<1> QED BY <1>1, <1>2, <1>3, <1>4, <1>5, <1>6, <1>7, <1>8, <1>9 DEF LaunchInv

\* The message that is sent was claimed, and unsent.
LEMMA ExecuteKeeps == ASSUME LaunchInv, NEW t \in Thread, Execute(t) PROVE LaunchInv'
<1>p. /\ pc' \in [Thread -> PCs] /\ pc[t] \in {"execute"} /\ pc'[t] \in {"save"}
      /\ \A u \in Thread : u # t => pc'[u] = pc[u]
  BY ThreadFacts DEF LaunchInv, TypeOK, Execute, Goes, PCs, Locked, Guarded, Launching
<1>m. /\ target[t] \in Slot /\ target[t] \in FollowUp /\ msg[target[t]].status \notin Unsent
      /\ exec' \in [Slot -> JobStatuses] /\ calls' \in [Slot -> Nat] /\ calls'[target[t]] = 1
      /\ \A s \in Slot : s # target[t] => calls'[s] = calls[s]
  BY SlotFacts, Words DEF LaunchInv, TypeOK, Aims, LaunchesFresh, Execute, Launching
<1>1. TypeOK'
  BY <1>p, <1>m, ThreadFacts, SlotFacts DEF LaunchInv, TypeOK, Execute, rest, local, rows
<1>2. OncePerFollowUp'
  BY <1>p, <1>m, ThreadFacts, SlotFacts DEF LaunchInv, TypeOK, OncePerFollowUp, Execute, rest,
     local, rows
<1>3. ReservedIsUnsent'
  BY <1>p, <1>m, ThreadFacts, SlotFacts DEF LaunchInv, TypeOK, ReservedIsUnsent, Execute, rest,
     local, rows
<1>4. Roles'
  BY ThreadFacts DEF LaunchInv, TypeOK, Roles, Execute, Goes, rest, local, rows, Locked,
     Guarded, Launching
<1>5. Copies'
  BY ThreadFacts DEF LaunchInv, TypeOK, Copies, Execute, Goes, rest, local, rows, Locked,
     Guarded, Launching
<1>6. Aims'
  BY DEF LaunchInv, TypeOK, Aims, Execute, Goes, rest, local, rows, Locked, Guarded, Launching
<1>7. OneLauncher'
  BY DEF LaunchInv, TypeOK, OneLauncher, Execute, Goes, rest, local, rows, Locked, Guarded,
     Launching
<1>8. LaunchesFresh'
  <2>1. \A u \in Thread : u # t => pc'[u] \notin {"claim", "execute"}
    BY <1>p DEF LaunchInv, OneLauncher, Launching
  <2> QED BY <1>p, <2>1 DEF LaunchesFresh
<1>9. EntriesFresh'
  BY <1>p, <1>m, ThreadFacts, SlotFacts DEF LaunchInv, TypeOK, EntriesFresh, Execute, rest,
     local, rows
<1> QED BY <1>1, <1>2, <1>3, <1>4, <1>5, <1>6, <1>7, <1>8, <1>9 DEF LaunchInv

\* The message and its job are saved together.
LEMMA SaveTurnKeeps == ASSUME LaunchInv, NEW t \in Thread, SaveTurn(t) PROVE LaunchInv'
<1>p. /\ pc' \in [Thread -> PCs] /\ pc[t] \in {"save"} /\ pc'[t] \in {"watch"}
      /\ \A u \in Thread : u # t => pc'[u] = pc[u]
  BY ThreadFacts DEF LaunchInv, TypeOK, SaveTurn, Goes, PCs, Locked, Guarded, Launching
<1>m. /\ msg' \in [Slot -> MsgRow]
      /\ \A s \in Slot : msg'[s] = msg[s] \/ msg'[s].status \notin Unsent
  <2> DEFINE row == [status |-> "pending", attached |-> TRUE]
  <2>1. target[t] \in Slot
    BY SlotFacts DEF LaunchInv, Aims, SaveTurn, Launching
  <2>2. row \in MsgRow /\ row.status \notin Unsent
    BY DEF MsgRow, MsgStatuses, Unsent
  <2>3. msg' = [msg EXCEPT ![target[t]] = row]
    BY DEF SaveTurn
  <2> HIDE DEF row
  <2> QED BY <2>1, <2>2, <2>3 DEF LaunchInv, TypeOK
<1>1. TypeOK'
  <2>1. target[t] \in Slot /\ [status |-> "pending", processed |-> FALSE] \in JobRow
    BY SlotFacts DEF LaunchInv, Aims, SaveTurn, Launching, JobRow, JobStatuses
  <2>2. job' \in [Slot -> JobRow] /\ \A s \in Slot : job'[s] = job[s] \/ job'[s].status = "pending"
    BY <2>1 DEF LaunchInv, TypeOK, SaveTurn
  <2> QED BY <1>p, <1>m, <2>2, ThreadFacts DEF LaunchInv, TypeOK, SaveTurn, SaveView, rest,
             local, provider
<1>2. OncePerFollowUp'
  BY DEF LaunchInv, OncePerFollowUp, SaveTurn, provider
<1>3. ReservedIsUnsent'
  BY <1>p, <1>m, ThreadFacts, SlotFacts DEF LaunchInv, TypeOK, ReservedIsUnsent, SaveTurn, rest,
     local, provider, SaveView
<1>4. Roles'
  BY ThreadFacts DEF LaunchInv, TypeOK, Roles, SaveTurn, Goes, rest, local, provider, SaveView,
     Locked, Guarded, Launching
<1>5. Copies'
  BY ThreadFacts DEF LaunchInv, TypeOK, Copies, SaveTurn, Goes, rest, local, provider, SaveView,
     Locked, Guarded, Launching
<1>6. Aims'
  BY ThreadFacts, SlotFacts DEF LaunchInv, TypeOK, Aims, SaveTurn, Goes, rest, local, provider,
     PCs, Locked, Guarded, Launching, SaveView
<1>7. OneLauncher'
  BY DEF LaunchInv, TypeOK, OneLauncher, SaveTurn, Goes, rest, local, provider, SaveView,
     Locked, Guarded, Launching
<1>8. LaunchesFresh'
  BY <1>p, <1>m, ThreadFacts, SlotFacts DEF LaunchInv, LaunchesFresh, Aims, SaveTurn, rest,
     local, provider, Launching
<1>9. EntriesFresh'
  BY ThreadFacts, SlotFacts DEF LaunchInv, TypeOK, EntriesFresh, SaveTurn, Goes, rest, local,
     provider, SaveView, Locked, Guarded, Launching
<1> QED BY <1>1, <1>2, <1>3, <1>4, <1>5, <1>6, <1>7, <1>8, <1>9 DEF LaunchInv

\* The callback of an ended job finds the job saved.
LEMMA WatchKeeps == ASSUME LaunchInv, NEW t \in Thread, Watch(t) PROVE LaunchInv'
<1>a. /\ target[t] \in Slot /\ target[t] \in Thread /\ host[t] \in Thread
      /\ pc[t] = "watch" /\ pc[target[t]] \in PCs /\ job[target[t]].status # "none"
      /\ t \notin {Submitter}
  BY ThreadFacts, SlotFacts DEF LaunchInv, TypeOK, Aims, Roles, Watch
<1>p. /\ pc' \in [Thread -> PCs] /\ pc[t] = "watch"
      /\ pc'[t] \in {"idle", "resave", "reread", "nested", "mark"} /\ (t \in Reconciler => pc'[t] # "mark")
      /\ serving' \in [Thread -> Slot \cup {NoSlot}] /\ seen' \in [Thread -> JobRow] /\ host' \in [Thread -> Thread]
      /\ watched' \subseteq {s \in Slot : job[s].status # "none"}
      /\ serving'[t] = serving[t] /\ seen'[t] = seen[t]
      /\ \A u \in Thread : u # t =>
           \/ pc'[u] = pc[u] /\ serving'[u] = serving[u] /\ seen'[u] = seen[u]
           \/ /\ u \in Slot /\ pc'[u] \in {"store", "lock"} /\ job[u].status # "none"
              /\ serving'[u] = u /\ seen'[u].status # "none"
  <2> DEFINE s == target[t]
  <2>1. CASE exec[s] \notin Terminal
    <3>1. /\ watched' = watched \cup {s} /\ Goes(t, AfterWatch(t)) /\ UNCHANGED <<host, serving, seen>>
      BY <2>1 DEF Watch
    <3> QED BY <1>a, <3>1, ThreadFacts DEF LaunchInv, TypeOK, Goes, AfterWatch, AfterLaunch,
               PCs, Locked, Guarded, Launching
  <2>2. CASE exec[s] \in Terminal
    <3>1. /\ pc[s] = "idle" /\ CallsBack(s, host[t]) /\ UNCHANGED watched
          /\ pc' = [pc EXCEPT ![t] = "nested", ![s] = FirstStep(s)]
      BY <2>2 DEF Watch
    <3>2. s # t
      BY <1>a, <3>1
    <3>3. FirstStep(s) \in {"store", "lock"}
      BY DEF FirstStep
    <3>4. pc' \in [Thread -> PCs] /\ pc'[t] = "nested" /\ pc'[s] \in {"store", "lock"}
          /\ \A u \in Thread : u # t /\ u # s => pc'[u] = pc[u]
      BY <1>a, <3>1, <3>2, <3>3 DEF LaunchInv, TypeOK, PCs, Locked, Guarded, Launching
    <3>5. /\ serving' \in [Thread -> Slot \cup {NoSlot}] /\ seen' \in [Thread -> JobRow] /\ host' \in [Thread -> Thread]
          /\ serving'[s] = s /\ seen'[s].status # "none"
          /\ \A u \in Thread : u # s => serving'[u] = serving[u] /\ seen'[u] = seen[u]
      BY <1>a, <3>1, CallsBackType DEF LaunchInv
    <3> QED BY <1>a, <3>1, <3>2, <3>4, <3>5 DEF LaunchInv, TypeOK
  <2> QED BY <2>1, <2>2
<1>1. TypeOK'
  BY <1>a, <1>p, ThreadFacts, SlotFacts DEF LaunchInv, TypeOK, Watch, rows, Locked, Guarded,
     Launching
<1>2. OncePerFollowUp'
  BY <1>a, <1>p, ThreadFacts, SlotFacts DEF LaunchInv, OncePerFollowUp, TypeOK, Watch, rows
<1>3. ReservedIsUnsent'
  BY <1>a, <1>p, ThreadFacts, SlotFacts DEF LaunchInv, ReservedIsUnsent, TypeOK, Watch, rows
<1>4. Roles'
  <2>1. ASSUME NEW u \in Thread, u # t, pc'[u] # pc[u] PROVE u \in Slot /\ pc'[u] \in {"store", "lock"}
    BY <1>p, <2>1
  <2>2. t \in Slot \cup Poller \cup Reconciler
    BY <1>a, ThreadFacts
  <2> QED BY <1>p, <2>1, <2>2, ThreadFacts DEF LaunchInv, Roles, Locked, Guarded, Launching
<1>5. Copies'
  <2> SUFFICES ASSUME NEW u \in Slot \cup Poller, pc'[u] # "idle"
               PROVE  serving'[u] \in Slot /\ job'[serving'[u]].status # "none" /\ seen'[u].status # "none"
    BY DEF Copies
  <2>1. u \in Thread /\ job' = job
    BY ThreadFacts DEF Watch, rows
  <2>2. CASE u = t
    BY <1>p, <2>1, <2>2 DEF LaunchInv, Copies
  <2>3. CASE u # t /\ pc'[u] = pc[u] /\ serving'[u] = serving[u] /\ seen'[u] = seen[u]
    BY <2>1, <2>3 DEF LaunchInv, Copies
  <2> QED BY <1>p, <2>1, <2>2, <2>3
<1>6. Aims'
  BY <1>p DEF LaunchInv, Aims, Watch, rows, Launching
<1>7. OneLauncher'
  BY <1>a, <1>p, ThreadFacts DEF LaunchInv, OneLauncher, Locked, Guarded, Launching
<1>8. LaunchesFresh'
  BY <1>p DEF LaunchInv, LaunchesFresh, Watch, rows
<1>9. EntriesFresh'
  BY <1>a, <1>p, ThreadFacts DEF LaunchInv, EntriesFresh, Watch
<1> QED BY <1>1, <1>2, <1>3, <1>4, <1>5, <1>6, <1>7, <1>8, <1>9 DEF LaunchInv

\* The callback has returned.
LEMMA NestedReturnsKeeps == ASSUME LaunchInv, NEW t \in Thread, NestedReturns(t) PROVE LaunchInv'
<1>1. TypeOK'
  BY ThreadFacts DEF LaunchInv, TypeOK, NestedReturns, Goes, rest, local, rows, provider,
     AfterWatch, AfterLaunch, PCs, Locked, Guarded, Launching
<1>2. OncePerFollowUp'
  BY DEF LaunchInv, OncePerFollowUp, NestedReturns, rows, provider
<1>3. ReservedIsUnsent'
  BY DEF LaunchInv, ReservedIsUnsent, NestedReturns, rows, provider
<1>4. Roles'
  BY ThreadFacts DEF LaunchInv, TypeOK, Roles, NestedReturns, Goes, rest, local, rows, provider,
     AfterWatch, AfterLaunch, Locked, Guarded, Launching
<1>5. Copies'
  BY ThreadFacts DEF LaunchInv, TypeOK, Copies, NestedReturns, Goes, rest, local, rows,
     provider, AfterWatch, AfterLaunch, Locked, Guarded, Launching
<1>6. Aims'
  BY DEF LaunchInv, TypeOK, Aims, NestedReturns, Goes, rest, local, rows, provider, AfterWatch,
     AfterLaunch, Locked, Guarded, Launching
<1>7. OneLauncher'
  BY DEF LaunchInv, TypeOK, OneLauncher, NestedReturns, Goes, rest, local, rows, provider,
     AfterWatch, AfterLaunch, Locked, Guarded, Launching
<1>8. LaunchesFresh'
  BY DEF LaunchInv, TypeOK, LaunchesFresh, NestedReturns, Goes, rest, local, rows, provider,
     AfterWatch, AfterLaunch, Locked, Guarded, Launching
<1>9. EntriesFresh'
  BY ThreadFacts, SlotFacts DEF LaunchInv, TypeOK, EntriesFresh, NestedReturns, Goes, rest,
     local, rows, provider, AfterWatch, AfterLaunch, Locked, Guarded, Launching
<1> QED BY <1>1, <1>2, <1>3, <1>4, <1>5, <1>6, <1>7, <1>8, <1>9 DEF LaunchInv

\* Recovery launches only under the guard, and attaches only what was sent.
LEMMA RecoverKeeps == ASSUME LaunchInv, NEW t \in Thread, Recover(t) PROVE LaunchInv'
<1>a. /\ pc[t] = "recover" /\ direct' = [direct EXCEPT ![t] = FALSE]
      /\ UNCHANGED <<provider, serving, seen, view, rest>>
      /\ \A u \in Thread : pc[u] \notin Launching
      /\ t # Submitter
  BY DEF LaunchInv, Roles, Recover, GuardFree, HasGuard, Guarded, Launching
<1>b. \/ \E s \in FollowUp : Attach(t, s) /\ target' = [target EXCEPT ![t] = s]
      \/ \E s \in FollowUp, st \in {"submission_unknown", "failed"} :
           GiveUp(t, s, st) /\ target' = [target EXCEPT ![t] = s]
      \/ \E s \in FollowUp :
           Goes(t, "check") /\ UNCHANGED <<rows, todo>> /\ target' = [target EXCEPT ![t] = s]
      \/ Goes(t, IF t \in Reconciler THEN "idle" ELSE "choose") /\ UNCHANGED <<rows, target, todo>>
  BY DEF Recover, RecoverPending, RecoverReserved, Unattached
<1>p. /\ pc' \in [Thread -> PCs] /\ pc'[t] \in {"watch", "finalize", "check", "choose", "idle"}
      /\ (t \in Reconciler => pc'[t] # "choose")
      /\ \A u \in Thread : u # t => pc'[u] = pc[u]
  BY <1>b DEF LaunchInv, TypeOK, Attach, GiveUp, Goes, PCs, Locked, Guarded, Launching
<1>t. /\ target' \in [Thread -> FollowUp \cup {NoSlot}] /\ active' \in Run \cup {NoRun}
      /\ pc'[t] \in {"watch", "check"} => target'[t] \in FollowUp
      /\ \A u \in Thread : u # t => target'[u] = target[u]
  BY <1>b DEF LaunchInv, TypeOK, Attach, GiveUp, Goes, SaveView, rows
<1>m. /\ msg' \in [Slot -> MsgRow]
      /\ \A s \in Slot : msg'[s] = msg[s] \/ msg'[s].status \notin Unsent
  <2>1. \/ UNCHANGED msg
        \/ \E s \in FollowUp, st \in MsgStatuses \ Unsent, b \in BOOLEAN :
             msg' = [msg EXCEPT ![s] = [status |-> st, attached |-> b]]
    BY <1>b DEF Attach, GiveUp, rows, MsgStatuses, Unsent
  <2>2. ASSUME NEW s \in FollowUp, NEW st \in MsgStatuses \ Unsent, NEW b \in BOOLEAN,
               msg' = [msg EXCEPT ![s] = [status |-> st, attached |-> b]]
        PROVE  <1>m!1 /\ <1>m!2
    BY <2>2, SlotFacts DEF LaunchInv, TypeOK, MsgRow
  <2>3. CASE UNCHANGED msg
    BY <2>3 DEF LaunchInv, TypeOK
  <2> QED BY <2>1, <2>2, <2>3
<1>j. /\ job' \in [Slot -> JobRow]
      /\ \A s \in Slot : job'[s] = job[s] \/ job'[s].status # "none"
      /\ pc'[t] = "watch" => job'[target'[t]].status # "none"
      /\ todo' \in [Thread -> SUBSET (FollowUp \X (MsgStatuses \ Unsent))]
  <2>1. CASE UNCHANGED <<job, todo>> /\ pc'[t] # "watch"
    BY <2>1 DEF LaunchInv, TypeOK
  <2>2. ASSUME NEW s \in FollowUp, Attach(t, s), target' = [target EXCEPT ![t] = s] PROVE <1>j!1 /\ <1>j!2 /\ <1>j!3 /\ <1>j!4
    <3> DEFINE row == [status |-> exec[s], processed |-> FALSE]
    <3>1. s \in Slot /\ exec[s] \in JobStatuses \ {"none"}
      BY <2>2, SlotFacts DEF LaunchInv, TypeOK, Attach
    <3>2. row \in JobRow /\ row.status # "none"
      BY <3>1 DEF JobRow
    <3>3. job' = [job EXCEPT ![s] = row] /\ target'[t] = s
      BY <2>2 DEF LaunchInv, TypeOK, Attach
    <3>4. <<s, exec[s]>> \in FollowUp \X (MsgStatuses \ Unsent)
      BY <3>1, Words
    <3>5. todo' \in [Thread -> SUBSET (FollowUp \X (MsgStatuses \ Unsent))]
      BY <2>2, <3>4 DEF LaunchInv, TypeOK, Attach
    <3> HIDE DEF row
    <3> QED BY <3>1, <3>2, <3>3, <3>5 DEF LaunchInv, TypeOK
  <2>3. (\E s \in FollowUp : Attach(t, s) /\ target' = [target EXCEPT ![t] = s]) \/ (UNCHANGED <<job, todo>> /\ pc'[t] # "watch")
    BY <1>b DEF LaunchInv, TypeOK, GiveUp, Goes, rows
  <2> QED BY <2>1, <2>2, <2>3
<1>1. TypeOK'
  BY <1>a, <1>p, <1>t, <1>m, <1>j, ThreadFacts, SlotFacts DEF LaunchInv, TypeOK, provider, rest,
     Locked, Guarded, Launching
<1>2. OncePerFollowUp'
  BY <1>a, <1>p, <1>t, <1>m, <1>j, ThreadFacts, SlotFacts DEF LaunchInv, OncePerFollowUp,
     TypeOK, provider, rest, Locked, Guarded, Launching
<1>3. ReservedIsUnsent'
  BY <1>a, <1>p, <1>t, <1>m, <1>j, ThreadFacts, SlotFacts DEF LaunchInv, ReservedIsUnsent,
     TypeOK, provider, rest, Locked, Guarded, Launching
<1>4. Roles'
  BY <1>a, <1>p, ThreadFacts DEF LaunchInv, Roles, Locked, Guarded, Launching
<1>5. Copies'
  BY <1>a, <1>p, <1>t, <1>m, <1>j, ThreadFacts, SlotFacts DEF LaunchInv, Copies, TypeOK,
     provider, rest, Locked, Guarded, Launching
<1>6. Aims'
  BY <1>a, <1>p, <1>t, <1>m, <1>j, ThreadFacts, SlotFacts DEF LaunchInv, Aims, TypeOK, provider,
     rest, Locked, Guarded, Launching
<1>7. OneLauncher'
  BY <1>a, <1>p, ThreadFacts DEF LaunchInv, OneLauncher, Locked, Guarded, Launching
<1>8. LaunchesFresh'
  BY <1>a, <1>p, <1>t, <1>m, <1>j, ThreadFacts, SlotFacts DEF LaunchInv, LaunchesFresh, TypeOK,
     provider, rest, Locked, Guarded, Launching
<1>9. EntriesFresh'
  BY <1>a, <1>p, <1>t, <1>m, <1>j, ThreadFacts, SlotFacts DEF LaunchInv, EntriesFresh, TypeOK,
     provider, rest, Locked, Guarded, Launching
<1> QED BY <1>1, <1>2, <1>3, <1>4, <1>5, <1>6, <1>7, <1>8, <1>9 DEF LaunchInv

\* Reading the session changes only the copy.
LEMMA RereadSessionKeeps == ASSUME LaunchInv, NEW t \in Thread, RereadSession(t) PROVE LaunchInv'
<1>1. TypeOK'
  BY ThreadFacts DEF LaunchInv, TypeOK, RereadSession, Goes, rest, rows, provider, PCs, Locked,
     Guarded, Launching
<1>2. OncePerFollowUp'
  BY DEF LaunchInv, OncePerFollowUp, RereadSession, rows, provider
<1>3. ReservedIsUnsent'
  BY DEF LaunchInv, ReservedIsUnsent, RereadSession, rows, provider
<1>4. Roles'
  BY ThreadFacts DEF LaunchInv, TypeOK, Roles, RereadSession, Goes, rest, rows, provider,
     Locked, Guarded, Launching
<1>5. Copies'
  BY ThreadFacts DEF LaunchInv, TypeOK, Copies, RereadSession, Goes, rest, rows, provider,
     Locked, Guarded, Launching
<1>6. Aims'
  BY DEF LaunchInv, TypeOK, Aims, RereadSession, Goes, rest, rows, provider, Locked, Guarded,
     Launching
<1>7. OneLauncher'
  BY DEF LaunchInv, TypeOK, OneLauncher, RereadSession, Goes, rest, rows, provider, Locked,
     Guarded, Launching
<1>8. LaunchesFresh'
  BY DEF LaunchInv, TypeOK, LaunchesFresh, RereadSession, Goes, rest, rows, provider, Locked,
     Guarded, Launching
<1>9. EntriesFresh'
  BY ThreadFacts, SlotFacts DEF LaunchInv, TypeOK, EntriesFresh, RereadSession, Goes, rest,
     rows, provider, Locked, Guarded, Launching
<1> QED BY <1>1, <1>2, <1>3, <1>4, <1>5, <1>6, <1>7, <1>8, <1>9 DEF LaunchInv

\* An attached message has been sent.
LEMMA SyncAttachedKeeps == ASSUME LaunchInv, NEW t \in Thread, SyncAttached(t) PROVE LaunchInv'
<1>p. /\ pc' \in [Thread -> PCs] /\ pc[t] = "resync"
      /\ pc'[t] \in {"resave", "idle", "mark"} /\ (t \in Reconciler => pc'[t] # "mark")
      /\ \A u \in Thread : u # t => pc'[u] = pc[u]
  BY DEF LaunchInv, TypeOK, SyncAttached, Goes, AfterLaunch, PCs, Locked, Guarded, Launching
<1>m. /\ msg' \in [Slot -> MsgRow] /\ todo' \in [Thread -> SUBSET (FollowUp \X (MsgStatuses \ Unsent))]
      /\ \A s \in Slot : msg'[s] = msg[s] \/ msg'[s].status \notin Unsent
  <2>1. PICK o \in FollowUp \X (MsgStatuses \ Unsent), b \in BOOLEAN :
          msg' = [msg EXCEPT ![o[1]] = [status |-> o[2], attached |-> b]]
    BY DEF LaunchInv, TypeOK, SyncAttached
  <2>2. o[1] \in Slot /\ o[2] \in MsgStatuses \ Unsent
    BY <2>1, SlotFacts
  <2>3. [status |-> o[2], attached |-> b] \in MsgRow /\ [status |-> o[2], attached |-> b].status = o[2]
    BY <2>2 DEF MsgRow
  <2>4. msg' \in [Slot -> MsgRow] /\ \A s \in Slot : msg'[s] = msg[s] \/ msg'[s].status \notin Unsent
    BY <2>1, <2>2, <2>3 DEF LaunchInv, TypeOK
  <2>5. todo' = [todo EXCEPT ![t] = {}] \/ \E x : todo' = [todo EXCEPT ![t] = @ \ {x}]
    BY DEF SyncAttached
  <2>6. todo' \in [Thread -> SUBSET (FollowUp \X (MsgStatuses \ Unsent))]
    BY <2>5 DEF LaunchInv, TypeOK
  <2> QED BY <2>4, <2>6
<1>1. TypeOK'
  BY <1>p, <1>m, ThreadFacts, SlotFacts DEF LaunchInv, TypeOK, SyncAttached, provider, rest,
     Locked, Guarded, Launching
<1>2. OncePerFollowUp'
  BY <1>p, <1>m, ThreadFacts, SlotFacts DEF LaunchInv, OncePerFollowUp, TypeOK, SyncAttached,
     provider, rest, Locked, Guarded, Launching
<1>3. ReservedIsUnsent'
  BY <1>p, <1>m, ThreadFacts, SlotFacts DEF LaunchInv, ReservedIsUnsent, TypeOK, SyncAttached,
     provider, rest, Locked, Guarded, Launching
<1>4. Roles'
  BY <1>p, ThreadFacts DEF LaunchInv, Roles, Locked, Guarded, Launching
<1>5. Copies'
  BY <1>p, <1>m, ThreadFacts, SlotFacts DEF LaunchInv, Copies, TypeOK, SyncAttached, provider,
     rest, Locked, Guarded, Launching
<1>6. Aims'
  BY <1>p, <1>m, ThreadFacts, SlotFacts DEF LaunchInv, Aims, TypeOK, SyncAttached, provider,
     rest, Locked, Guarded, Launching
<1>7. OneLauncher'
  BY <1>p, ThreadFacts DEF LaunchInv, OneLauncher, Locked, Guarded, Launching
<1>8. LaunchesFresh'
  BY <1>p, <1>m, ThreadFacts, SlotFacts DEF LaunchInv, LaunchesFresh, TypeOK, SyncAttached,
     provider, rest, Locked, Guarded, Launching
<1>9. EntriesFresh'
  BY <1>p, <1>m, ThreadFacts, SlotFacts DEF LaunchInv, EntriesFresh, TypeOK, SyncAttached,
     provider, rest, Locked, Guarded, Launching
<1> QED BY <1>1, <1>2, <1>3, <1>4, <1>5, <1>6, <1>7, <1>8, <1>9 DEF LaunchInv

\* Messages without a job are going to get a final status.
LEMMA ListKeeps == ASSUME LaunchInv, NEW t \in Thread, List(t) PROVE LaunchInv'
<1>p. todo' \in [Thread -> SUBSET (FollowUp \X (MsgStatuses \ Unsent))]
  <2>1. ASSUME NEW rs PROVE Orphans(rs) \subseteq FollowUp \X (MsgStatuses \ Unsent)
    BY DEF Orphans, Resolution, MsgStatuses, Unsent
  <2>2. PICK rs : todo' = [todo EXCEPT ![t] = Orphans(rs)]
    BY DEF List
  <2> QED BY <2>1, <2>2 DEF LaunchInv, TypeOK
<1>1. TypeOK'
  BY <1>p, ThreadFacts DEF LaunchInv, TypeOK, List, Goes, AfterCancel, rest, rows, provider,
     PCs, Locked, Guarded, Launching
<1>2. OncePerFollowUp'
  BY DEF LaunchInv, OncePerFollowUp, List, rows, provider
<1>3. ReservedIsUnsent'
  BY DEF LaunchInv, ReservedIsUnsent, List, rows, provider
<1>4. Roles'
  BY ThreadFacts DEF LaunchInv, TypeOK, Roles, List, Goes, rest, rows, provider, AfterCancel,
     Orphans, Resolution, Locked, Guarded, Launching
<1>5. Copies'
  BY ThreadFacts DEF LaunchInv, TypeOK, Copies, List, Goes, rest, rows, provider, AfterCancel,
     Orphans, Resolution, Locked, Guarded, Launching
<1>6. Aims'
  BY DEF LaunchInv, TypeOK, Aims, List, Goes, rest, rows, provider, AfterCancel, Orphans,
     Resolution, Locked, Guarded, Launching
<1>7. OneLauncher'
  BY DEF LaunchInv, TypeOK, OneLauncher, List, Goes, rest, rows, provider, AfterCancel, Orphans,
     Resolution, Locked, Guarded, Launching
<1>8. LaunchesFresh'
  BY DEF LaunchInv, TypeOK, LaunchesFresh, List, Goes, rest, rows, provider, AfterCancel,
     Orphans, Resolution, Locked, Guarded, Launching
<1>9. EntriesFresh'
  BY ThreadFacts, SlotFacts DEF LaunchInv, TypeOK, EntriesFresh, List, Goes, rest, rows,
     provider, AfterCancel, Orphans, Resolution, Locked, Guarded, Launching
<1> QED BY <1>1, <1>2, <1>3, <1>4, <1>5, <1>6, <1>7, <1>8, <1>9 DEF LaunchInv

\* A cancelled message is not launched later.
LEMMA CancelKeeps == ASSUME LaunchInv, NEW t \in Thread, Cancel(t) PROVE LaunchInv'
<1>p. /\ pc' \in [Thread -> PCs] /\ pc[t] \in {"cancel", "drop"}
      /\ pc'[t] \in {"cancel", "drop", "idle", "recover", "supersede", "start"}
      /\ (t \in Reconciler => pc[t] = "cancel") /\ t \in Reconciler \cup {Submitter}
      /\ (t \in Reconciler => pc'[t] \in {"cancel", "idle", "recover"})
      /\ (t \notin Reconciler => pc'[t] \in {"cancel", "drop", "supersede", "start"})
      /\ \A u \in Thread : u # t => pc'[u] = pc[u]
  <2>1. pc[t] \in {"cancel", "drop"} /\ t \in Reconciler \cup {Submitter} /\ (t \in Reconciler => pc[t] = "cancel")
    BY ThreadFacts DEF LaunchInv, Roles, Cancel, Locked, Guarded, Launching
  <2>2. \/ pc' = pc
        \/ Goes(t, IF pc[t] = "cancel" THEN AfterCancel(t) ELSE "start")
    BY DEF Cancel
  <2>3. (t \in Reconciler => AfterCancel(t) \in {"idle", "recover"}) /\ (t \notin Reconciler => AfterCancel(t) \in {"supersede", "start"})
    BY DEF AfterCancel
  <2> QED BY <2>1, <2>2, <2>3 DEF LaunchInv, TypeOK, Goes, PCs, Locked, Guarded, Launching
<1>m. /\ msg' \in [Slot -> MsgRow] /\ todo' \in [Thread -> SUBSET (FollowUp \X (MsgStatuses \ Unsent))]
      /\ \A s \in Slot : msg'[s] = msg[s] \/ msg'[s].status \notin Unsent
  <2>1. PICK o \in FollowUp \X (MsgStatuses \ Unsent), b \in BOOLEAN :
          msg' = [msg EXCEPT ![o[1]] = [status |-> o[2], attached |-> b]]
    BY DEF LaunchInv, TypeOK, Cancel
  <2>2. o[1] \in Slot /\ o[2] \in MsgStatuses \ Unsent
    BY <2>1, SlotFacts
  <2>3. [status |-> o[2], attached |-> b] \in MsgRow /\ [status |-> o[2], attached |-> b].status = o[2]
    BY <2>2 DEF MsgRow
  <2>4. msg' \in [Slot -> MsgRow] /\ \A s \in Slot : msg'[s] = msg[s] \/ msg'[s].status \notin Unsent
    BY <2>1, <2>2, <2>3 DEF LaunchInv, TypeOK
  <2>5. todo' = [todo EXCEPT ![t] = {}] \/ \E x : todo' = [todo EXCEPT ![t] = @ \ {x}]
    BY DEF Cancel
  <2>6. todo' \in [Thread -> SUBSET (FollowUp \X (MsgStatuses \ Unsent))]
    BY <2>5 DEF LaunchInv, TypeOK
  <2> QED BY <2>4, <2>6
<1>1. TypeOK'
  BY <1>p, <1>m, ThreadFacts, SlotFacts DEF LaunchInv, TypeOK, Cancel, SaveView, provider, rest,
     Locked, Guarded, Launching
<1>2. OncePerFollowUp'
  BY <1>p, <1>m, ThreadFacts, SlotFacts DEF LaunchInv, OncePerFollowUp, TypeOK, Cancel,
     SaveView, provider, rest, Locked, Guarded, Launching
<1>3. ReservedIsUnsent'
  BY <1>p, <1>m, ThreadFacts, SlotFacts DEF LaunchInv, ReservedIsUnsent, TypeOK, Cancel,
     SaveView, provider, rest, Locked, Guarded, Launching
<1>4. Roles'
  <2>1. ASSUME NEW u \in Reconciler PROVE pc'[u] \in {"idle", "list", "cancel", "recover", "resave"} \cup Guarded
    BY <1>p, ThreadFacts DEF LaunchInv, Roles
  <2>2. ASSUME NEW u \in Slot \cup Poller PROVE pc'[u] = pc[u]
    BY <1>p, ThreadFacts
  <2>3. pc'[Submitter] \in {"idle", "list", "cancel", "supersede", "drop", "start"}
    BY <1>p, ThreadFacts DEF LaunchInv, Roles
  <2> QED BY <2>1, <2>2, <2>3 DEF LaunchInv, Roles
<1>5. Copies'
  BY <1>p, <1>m, ThreadFacts, SlotFacts DEF LaunchInv, Copies, TypeOK, Cancel, SaveView,
     provider, rest, Locked, Guarded, Launching
<1>6. Aims'
  BY <1>p, <1>m, ThreadFacts, SlotFacts DEF LaunchInv, Aims, TypeOK, Cancel, SaveView, provider,
     rest, Locked, Guarded, Launching
<1>7. OneLauncher'
  BY <1>p, ThreadFacts DEF LaunchInv, OneLauncher, Locked, Guarded, Launching
<1>8. LaunchesFresh'
  BY <1>p, <1>m, ThreadFacts, SlotFacts DEF LaunchInv, LaunchesFresh, TypeOK, Cancel, SaveView,
     provider, rest, Locked, Guarded, Launching
<1>9. EntriesFresh'
  BY <1>p, <1>m, ThreadFacts, SlotFacts DEF LaunchInv, EntriesFresh, TypeOK, Cancel, SaveView,
     provider, rest, Locked, Guarded, Launching
<1> QED BY <1>1, <1>2, <1>3, <1>4, <1>5, <1>6, <1>7, <1>8, <1>9 DEF LaunchInv

\* A failed save leaves the message claimed.
LEMMA SaveTurnFailsKeeps == ASSUME LaunchInv, NEW t \in Thread, SaveTurnFails(t) PROVE LaunchInv'
<1>1. TypeOK'
  <2>1. pc' \in [Thread -> PCs]
    BY DEF LaunchInv, TypeOK, SaveTurnFails, Goes, PCs, Locked, Guarded, Launching
  <2>2. faults' \in 0 .. MaxFaults
    BY RunsAssumption DEF LaunchInv, TypeOK, SaveTurnFails
  <2> QED BY <2>1, <2>2 DEF LaunchInv, TypeOK, SaveTurnFails, local, rows, provider
<1>2. OncePerFollowUp'
  BY DEF LaunchInv, OncePerFollowUp, SaveTurnFails, rows, provider
<1>3. ReservedIsUnsent'
  BY DEF LaunchInv, ReservedIsUnsent, SaveTurnFails, rows, provider
<1>4. Roles'
  BY ThreadFacts DEF LaunchInv, TypeOK, Roles, SaveTurnFails, Goes, local, rows, provider,
     Locked, Guarded, Launching
<1>5. Copies'
  BY ThreadFacts DEF LaunchInv, TypeOK, Copies, SaveTurnFails, Goes, local, rows, provider,
     Locked, Guarded, Launching
<1>6. Aims'
  BY DEF LaunchInv, TypeOK, Aims, SaveTurnFails, Goes, local, rows, provider, Locked, Guarded,
     Launching
<1>7. OneLauncher'
  BY DEF LaunchInv, TypeOK, OneLauncher, SaveTurnFails, Goes, local, rows, provider, Locked,
     Guarded, Launching
<1>8. LaunchesFresh'
  BY DEF LaunchInv, TypeOK, LaunchesFresh, SaveTurnFails, Goes, local, rows, provider, Locked,
     Guarded, Launching
<1>9. EntriesFresh'
  BY ThreadFacts, SlotFacts DEF LaunchInv, TypeOK, EntriesFresh, SaveTurnFails, Goes, local,
     rows, provider, Locked, Guarded, Launching
<1> QED BY <1>1, <1>2, <1>3, <1>4, <1>5, <1>6, <1>7, <1>8, <1>9 DEF LaunchInv

\* A round of the reconciler begins.
LEMMA ReconcileKeeps == ASSUME LaunchInv, NEW t \in Thread, Reconcile(t) PROVE LaunchInv'
<1>1. TypeOK'
  BY ThreadFacts DEF LaunchInv, TypeOK, Reconcile, Goes, rest, rows, provider, PCs, Locked,
     Guarded, Launching
<1>2. OncePerFollowUp'
  BY DEF LaunchInv, OncePerFollowUp, Reconcile, rows, provider
<1>3. ReservedIsUnsent'
  BY DEF LaunchInv, ReservedIsUnsent, Reconcile, rows, provider
<1>4. Roles'
  BY ThreadFacts DEF LaunchInv, TypeOK, Roles, Reconcile, Goes, rest, rows, provider, Locked,
     Guarded, Launching
<1>5. Copies'
  BY ThreadFacts DEF LaunchInv, TypeOK, Copies, Reconcile, Goes, rest, rows, provider, Locked,
     Guarded, Launching
<1>6. Aims'
  BY DEF LaunchInv, TypeOK, Aims, Reconcile, Goes, rest, rows, provider, Locked, Guarded,
     Launching
<1>7. OneLauncher'
  BY DEF LaunchInv, TypeOK, OneLauncher, Reconcile, Goes, rest, rows, provider, Locked, Guarded,
     Launching
<1>8. LaunchesFresh'
  BY DEF LaunchInv, TypeOK, LaunchesFresh, Reconcile, Goes, rest, rows, provider, Locked,
     Guarded, Launching
<1>9. EntriesFresh'
  BY ThreadFacts, SlotFacts DEF LaunchInv, TypeOK, EntriesFresh, Reconcile, Goes, rest, rows,
     provider, Locked, Guarded, Launching
<1> QED BY <1>1, <1>2, <1>3, <1>4, <1>5, <1>6, <1>7, <1>8, <1>9 DEF LaunchInv

\* A request that asks for a job finds it saved.
LEMMA PollKeeps == ASSUME LaunchInv, NEW t \in Poller, NEW s \in Slot, Poll(t, s) PROVE LaunchInv'
<1>p. /\ pc' \in [Thread -> PCs] /\ pc[t] = "idle" /\ pc'[t] \in {"store", "lock"}
      /\ serving' \in [Thread -> Slot \cup {NoSlot}] /\ seen' \in [Thread -> JobRow] /\ host' \in [Thread -> Thread]
      /\ serving'[t] = s /\ seen'[t].status # "none" /\ job'[s].status # "none" /\ job' = job
      /\ \A u \in Thread : u # t => pc'[u] = pc[u] /\ serving'[u] = serving[u] /\ seen'[u] = seen[u]
  <2>1. FirstStep(s) \in {"store", "lock"} /\ Observed(s) \in JobRow /\ Observed(s).status # "none" /\ t \in Thread
    BY ObservedType, ThreadFacts DEF LaunchInv, Poll, FirstStep
  <2> QED BY <2>1 DEF LaunchInv, TypeOK, Poll, Goes, PCs, Locked, Guarded, Launching, rest, rows
<1>1. TypeOK'
  BY <1>p, ThreadFacts, SlotFacts DEF LaunchInv, TypeOK, Poll, rows, provider, rest, Locked,
     Guarded, Launching
<1>2. OncePerFollowUp'
  BY <1>p, ThreadFacts, SlotFacts DEF LaunchInv, OncePerFollowUp, TypeOK, Poll, rows, provider,
     rest, Locked, Guarded, Launching
<1>3. ReservedIsUnsent'
  BY <1>p, ThreadFacts, SlotFacts DEF LaunchInv, ReservedIsUnsent, TypeOK, Poll, rows, provider,
     rest, Locked, Guarded, Launching
<1>4. Roles'
  <2>1. \A u \in Reconciler \cup {Submitter} : pc'[u] = pc[u]
    BY <1>p, ThreadFacts
  <2>2. \A u \in Slot \cup Poller : pc'[u] = pc[u] \/ pc'[u] \in {"store", "lock"}
    BY <1>p, ThreadFacts
  <2> QED BY <2>1, <2>2 DEF LaunchInv, Roles
<1>5. Copies'
  <2> SUFFICES ASSUME NEW u \in Slot \cup Poller, pc'[u] # "idle"
               PROVE  serving'[u] \in Slot /\ job'[serving'[u]].status # "none" /\ seen'[u].status # "none"
    BY DEF Copies
  <2>1. u \in Thread
    BY ThreadFacts
  <2>2. CASE u = t
    BY <1>p, <2>1, <2>2
  <2>3. CASE u # t
    BY <1>p, <2>1, <2>3 DEF LaunchInv, Copies
  <2> QED BY <2>2, <2>3
<1>6. Aims'
  BY <1>p, ThreadFacts, SlotFacts DEF LaunchInv, Aims, TypeOK, Poll, rows, provider, rest,
     Locked, Guarded, Launching
<1>7. OneLauncher'
  BY <1>p, ThreadFacts DEF LaunchInv, OneLauncher, TypeOK, Poll, rows, provider, rest, Locked,
     Guarded, Launching
<1>8. LaunchesFresh'
  BY <1>p, ThreadFacts, SlotFacts DEF LaunchInv, LaunchesFresh, TypeOK, Poll, rows, provider,
     rest, Locked, Guarded, Launching
<1>9. EntriesFresh'
  BY <1>p, ThreadFacts, SlotFacts DEF LaunchInv, EntriesFresh, TypeOK, Poll, rows, provider,
     rest, Locked, Guarded, Launching
<1> QED BY <1>1, <1>2, <1>3, <1>4, <1>5, <1>6, <1>7, <1>8, <1>9 DEF LaunchInv

\* The callback about the end of a job finds it saved.
LEMMA CallbackKeeps == ASSUME LaunchInv, NEW s \in Slot, Callback(s) PROVE LaunchInv'
<1>p. /\ pc' \in [Thread -> PCs] /\ pc[s] = "idle" /\ pc'[s] \in {"store", "lock"}
      /\ serving' \in [Thread -> Slot \cup {NoSlot}] /\ seen' \in [Thread -> JobRow] /\ host' \in [Thread -> Thread]
      /\ serving'[s] = s /\ seen'[s].status # "none" /\ job'[s].status # "none" /\ job' = job
      /\ \A u \in Thread : u # s => pc'[u] = pc[u] /\ serving'[u] = serving[u] /\ seen'[u] = seen[u]
      /\ watched' \subseteq {x \in Slot : job'[x].status # "none"}
  <2>1. FirstStep(s) \in {"store", "lock"} /\ job[s].status # "none" /\ s \in Thread
    BY ThreadFacts DEF LaunchInv, TypeOK, Callback, FirstStep
  <2> QED BY <2>1, CallsBackType DEF LaunchInv, TypeOK, Callback, Goes, PCs, Locked, Guarded,
             Launching, rows
<1>1. TypeOK'
  BY <1>p, ThreadFacts, SlotFacts DEF LaunchInv, TypeOK, Callback, rows, Locked, Guarded,
     Launching
<1>2. OncePerFollowUp'
  BY <1>p, ThreadFacts, SlotFacts DEF LaunchInv, OncePerFollowUp, TypeOK, Callback, rows,
     Locked, Guarded, Launching
<1>3. ReservedIsUnsent'
  BY <1>p, ThreadFacts, SlotFacts DEF LaunchInv, ReservedIsUnsent, TypeOK, Callback, rows,
     Locked, Guarded, Launching
<1>4. Roles'
  <2>1. \A u \in Reconciler \cup {Submitter} : pc'[u] = pc[u]
    BY <1>p, ThreadFacts
  <2>2. \A u \in Slot \cup Poller : pc'[u] = pc[u] \/ pc'[u] \in {"store", "lock"}
    BY <1>p, ThreadFacts
  <2> QED BY <2>1, <2>2 DEF LaunchInv, Roles
<1>5. Copies'
  <2> SUFFICES ASSUME NEW u \in Slot \cup Poller, pc'[u] # "idle"
               PROVE  serving'[u] \in Slot /\ job'[serving'[u]].status # "none" /\ seen'[u].status # "none"
    BY DEF Copies
  <2>1. u \in Thread
    BY ThreadFacts
  <2>2. CASE u = s
    BY <1>p, <2>1, <2>2
  <2>3. CASE u # s
    BY <1>p, <2>1, <2>3 DEF LaunchInv, Copies
  <2> QED BY <2>2, <2>3
<1>6. Aims'
  BY <1>p, ThreadFacts, SlotFacts DEF LaunchInv, Aims, TypeOK, Callback, rows, Locked, Guarded,
     Launching
<1>7. OneLauncher'
  BY <1>p, ThreadFacts DEF LaunchInv, OneLauncher, TypeOK, Callback, rows, Locked, Guarded,
     Launching
<1>8. LaunchesFresh'
  BY <1>p, ThreadFacts, SlotFacts DEF LaunchInv, LaunchesFresh, TypeOK, Callback, rows, Locked,
     Guarded, Launching
<1>9. EntriesFresh'
  BY <1>p, ThreadFacts, SlotFacts DEF LaunchInv, EntriesFresh, TypeOK, Callback, rows, Locked,
     Guarded, Launching
<1> QED BY <1>1, <1>2, <1>3, <1>4, <1>5, <1>6, <1>7, <1>8, <1>9 DEF LaunchInv

\* The end of a CLI is only known to the provider.
LEMMA FinishKeeps == ASSUME LaunchInv, NEW s \in Slot, Finish(s) PROVE LaunchInv'
<1>1. TypeOK'
  BY ThreadFacts, SlotFacts DEF LaunchInv, TypeOK, Finish, Terminal, JobStatuses, rows, local,
     rest, Locked, Guarded, Launching
<1>2. OncePerFollowUp'
  BY ThreadFacts, SlotFacts DEF LaunchInv, OncePerFollowUp, TypeOK, Finish, Terminal,
     JobStatuses, rows, local, rest, Locked, Guarded, Launching
<1>3. ReservedIsUnsent'
  BY ThreadFacts, SlotFacts DEF LaunchInv, ReservedIsUnsent, TypeOK, Finish, Terminal,
     JobStatuses, rows, local, rest, Locked, Guarded, Launching
<1>4. Roles'
  BY ThreadFacts, SlotFacts DEF LaunchInv, Roles, TypeOK, Finish, Terminal, JobStatuses, rows,
     local, rest, Locked, Guarded, Launching
<1>5. Copies'
  BY ThreadFacts, SlotFacts DEF LaunchInv, Copies, TypeOK, Finish, Terminal, JobStatuses, rows,
     local, rest, Locked, Guarded, Launching
<1>6. Aims'
  BY ThreadFacts, SlotFacts DEF LaunchInv, Aims, TypeOK, Finish, Terminal, JobStatuses, rows,
     local, rest, Locked, Guarded, Launching
<1>7. OneLauncher'
  BY ThreadFacts DEF LaunchInv, OneLauncher, TypeOK, Finish, Terminal, JobStatuses, rows, local,
     rest, Locked, Guarded, Launching
<1>8. LaunchesFresh'
  BY ThreadFacts, SlotFacts DEF LaunchInv, LaunchesFresh, TypeOK, Finish, Terminal, JobStatuses,
     rows, local, rest, Locked, Guarded, Launching
<1>9. EntriesFresh'
  BY ThreadFacts, SlotFacts DEF LaunchInv, EntriesFresh, TypeOK, Finish, Terminal, JobStatuses,
     rows, local, rest, Locked, Guarded, Launching
<1> QED BY <1>1, <1>2, <1>3, <1>4, <1>5, <1>6, <1>7, <1>8, <1>9 DEF LaunchInv

\* The next run has not been started.
LEMMA SubmitKeeps == ASSUME LaunchInv, Submit PROVE LaunchInv'
<1>p. /\ pc' \in [Thread -> PCs] /\ pc[Submitter] = "idle" /\ pc'[Submitter] = "list"
      /\ submitted \in 0 .. Runs /\ submitted' = submitted + 1 /\ submitted' \in Run
      /\ \A u \in Thread : u # Submitter => pc'[u] = pc[u]
  BY ThreadFacts, RunsAssumption DEF LaunchInv, TypeOK, Submit, Goes, PCs, Locked, Guarded,
     Launching, Run
<1>1. TypeOK'
  <2>1. submitted' \in 0 .. Runs
    BY <1>p, RunsAssumption DEF Run
  <2>2. view' \in [Thread -> Run \cup {NoRun}]
    BY DEF LaunchInv, TypeOK, Submit
  <2> QED BY <1>p, <2>1, <2>2 DEF LaunchInv, TypeOK, Submit, rows, provider
<1>2. OncePerFollowUp'
  BY <1>p, RunsAssumption, ThreadFacts, SlotFacts DEF LaunchInv, OncePerFollowUp, TypeOK,
     Submit, Run, rows, provider, Locked, Guarded, Launching
<1>3. ReservedIsUnsent'
  BY <1>p, RunsAssumption, ThreadFacts, SlotFacts DEF LaunchInv, ReservedIsUnsent, TypeOK,
     Submit, Run, rows, provider, Locked, Guarded, Launching
<1>4. Roles'
  BY <1>p, RunsAssumption, ThreadFacts, SlotFacts DEF LaunchInv, Roles, TypeOK, Submit, Run,
     rows, provider, Locked, Guarded, Launching
<1>5. Copies'
  BY <1>p, RunsAssumption, ThreadFacts, SlotFacts DEF LaunchInv, Copies, TypeOK, Submit, Run,
     rows, provider, Locked, Guarded, Launching
<1>6. Aims'
  BY <1>p, RunsAssumption, ThreadFacts, SlotFacts DEF LaunchInv, Aims, TypeOK, Submit, Run,
     rows, provider, Locked, Guarded, Launching
<1>7. OneLauncher'
  BY <1>p, RunsAssumption, ThreadFacts DEF LaunchInv, OneLauncher, TypeOK, Submit, Run, rows,
     provider, Locked, Guarded, Launching
<1>8. LaunchesFresh'
  BY <1>p, RunsAssumption, ThreadFacts, SlotFacts DEF LaunchInv, LaunchesFresh, TypeOK, Submit,
     Run, rows, provider, Locked, Guarded, Launching
<1>9. EntriesFresh'
  BY <1>p, RunsAssumption, ThreadFacts, SlotFacts DEF LaunchInv, EntriesFresh, TypeOK, Submit,
     Run, rows, provider, Locked, Guarded, Launching
<1> QED BY <1>1, <1>2, <1>3, <1>4, <1>5, <1>6, <1>7, <1>8, <1>9 DEF LaunchInv

\* The job of a human turn is started once, when nobody else can see it.
LEMMA StartRunKeeps == ASSUME LaunchInv, StartRun PROVE LaunchInv'
<1>p. /\ pc' \in [Thread -> PCs] /\ pc[Submitter] = "start" /\ pc'[Submitter] = "idle"
      /\ \A u \in Thread : u # Submitter => pc'[u] = pc[u]
  BY ThreadFacts DEF LaunchInv, TypeOK, StartRun, Goes, PCs, Locked, Guarded, Launching
<1>s. /\ submitted \in Run /\ Entry(submitted) \in Slot /\ Entry(submitted) \notin FollowUp
      /\ calls[Entry(submitted)] = 0
  BY <1>p, SlotFacts DEF LaunchInv, TypeOK, EntriesFresh
<1>m. /\ msg' \in [Slot -> MsgRow] /\ \A s \in Slot : msg'[s] = msg[s] \/ msg'[s].status \notin Unsent
      /\ msg'[Entry(submitted)].status = "pending" /\ \A s \in Slot : s # Entry(submitted) => msg'[s] = msg[s]
  <2>1. [status |-> "pending", attached |-> TRUE] \in MsgRow /\ [status |-> "pending", attached |-> TRUE].status = "pending"
    BY DEF MsgRow, MsgStatuses
  <2> QED BY <2>1, <1>s DEF LaunchInv, TypeOK, StartRun, Unsent
<1>j. /\ job' \in [Slot -> JobRow] /\ \A s \in Slot : job'[s] = job[s] \/ job'[s].status # "none"
      /\ watched' \subseteq {s \in Slot : job'[s].status # "none"}
  <2>1. [status |-> "pending", processed |-> FALSE] \in JobRow /\ [status |-> "pending", processed |-> FALSE].status = "pending"
    BY DEF JobRow, JobStatuses
  <2> QED BY <2>1, <1>s DEF LaunchInv, TypeOK, StartRun
<1>c. /\ calls' \in [Slot -> Nat] /\ calls'[Entry(submitted)] = 1 /\ exec' \in [Slot -> JobStatuses]
      /\ \A s \in Slot : s # Entry(submitted) => calls'[s] = calls[s]
  BY <1>s DEF LaunchInv, TypeOK, StartRun, JobStatuses
<1>1. TypeOK'
  BY <1>p, <1>s, <1>m, <1>j, <1>c, ThreadFacts, SlotFacts DEF LaunchInv, TypeOK, StartRun,
     local, rest, Unsent, Locked, Guarded, Launching
<1>2. OncePerFollowUp'
  BY <1>p, <1>s, <1>m, <1>j, <1>c, ThreadFacts, SlotFacts DEF LaunchInv, OncePerFollowUp,
     TypeOK, StartRun, local, rest, Unsent, Locked, Guarded, Launching
<1>3. ReservedIsUnsent'
  BY <1>p, <1>s, <1>m, <1>j, <1>c, ThreadFacts, SlotFacts DEF LaunchInv, ReservedIsUnsent,
     TypeOK, StartRun, local, rest, Unsent, Locked, Guarded, Launching
<1>4. Roles'
  BY <1>p, ThreadFacts DEF LaunchInv, Roles, Locked, Guarded, Launching
<1>5. Copies'
  BY <1>p, <1>s, <1>m, <1>j, <1>c, ThreadFacts, SlotFacts DEF LaunchInv, Copies, TypeOK,
     StartRun, local, rest, Unsent, Locked, Guarded, Launching
<1>6. Aims'
  BY <1>p, <1>s, <1>m, <1>j, <1>c, ThreadFacts, SlotFacts DEF LaunchInv, Aims, TypeOK, StartRun,
     local, rest, Unsent, Locked, Guarded, Launching
<1>7. OneLauncher'
  BY <1>p, ThreadFacts DEF LaunchInv, OneLauncher, Locked, Guarded, Launching
<1>8. LaunchesFresh'
  BY <1>p, <1>s, <1>m, <1>j, <1>c, ThreadFacts, SlotFacts DEF LaunchInv, LaunchesFresh, TypeOK,
     StartRun, local, rest, Unsent, Locked, Guarded, Launching
<1>9. EntriesFresh'
  <2>1. ASSUME NEW r \in Run, r > submitted PROVE calls'[Entry(r)] = 0
    <3>1. Entry(r) # Entry(submitted) /\ Entry(r) \in Slot
      BY <1>s, <2>1, SlotFacts DEF Run
    <3> QED BY <1>c, <2>1, <3>1 DEF LaunchInv, EntriesFresh
  <2> QED BY <1>p, <2>1 DEF EntriesFresh, StartRun, rest
<1> QED BY <1>1, <1>2, <1>3, <1>4, <1>5, <1>6, <1>7, <1>8, <1>9 DEF LaunchInv

\* After a crash nobody is launching.
LEMMA CrashKeeps == ASSUME LaunchInv, Crash PROVE LaunchInv'
<1>p. /\ NoJob \in JobRow /\ \A t \in Thread : pc'[t] = "idle"
      /\ faults' \in 0 .. MaxFaults
  BY RunsAssumption DEF LaunchInv, TypeOK, Crash, Everywhere, NoJob, JobRow, JobStatuses
<1>1. TypeOK'
  BY <1>p, ThreadFacts, SlotFacts DEF LaunchInv, TypeOK, Crash, Everywhere, EverySlot, rows,
     JobStatuses, PCs, Locked, Guarded, Launching
<1>2. OncePerFollowUp'
  BY <1>p, ThreadFacts, SlotFacts DEF LaunchInv, OncePerFollowUp, TypeOK, Crash, Everywhere,
     EverySlot, rows, JobStatuses, PCs, Locked, Guarded, Launching
<1>3. ReservedIsUnsent'
  BY <1>p, ThreadFacts, SlotFacts DEF LaunchInv, ReservedIsUnsent, TypeOK, Crash, Everywhere,
     EverySlot, rows, JobStatuses, PCs, Locked, Guarded, Launching
<1>4. Roles'
  BY <1>p, ThreadFacts, SlotFacts DEF LaunchInv, Roles, TypeOK, Crash, Everywhere, EverySlot,
     rows, JobStatuses, PCs, Locked, Guarded, Launching
<1>5. Copies'
  BY <1>p, ThreadFacts, SlotFacts DEF LaunchInv, Copies, TypeOK, Crash, Everywhere, EverySlot,
     rows, JobStatuses, PCs, Locked, Guarded, Launching
<1>6. Aims'
  BY <1>p, ThreadFacts, SlotFacts DEF LaunchInv, Aims, TypeOK, Crash, Everywhere, EverySlot,
     rows, JobStatuses, PCs, Locked, Guarded, Launching
<1>7. OneLauncher'
  BY <1>p, ThreadFacts DEF LaunchInv, OneLauncher, TypeOK, Crash, Everywhere, EverySlot, rows,
     JobStatuses, PCs, Locked, Guarded, Launching
<1>8. LaunchesFresh'
  BY <1>p, ThreadFacts, SlotFacts DEF LaunchInv, LaunchesFresh, TypeOK, Crash, Everywhere,
     EverySlot, rows, JobStatuses, PCs, Locked, Guarded, Launching
<1>9. EntriesFresh'
  BY <1>p, ThreadFacts, SlotFacts DEF LaunchInv, EntriesFresh, TypeOK, Crash, Everywhere,
     EverySlot, rows, JobStatuses, PCs, Locked, Guarded, Launching
<1> QED BY <1>1, <1>2, <1>3, <1>4, <1>5, <1>6, <1>7, <1>8, <1>9 DEF LaunchInv

\* Nothing happens.
LEMMA StutterKeeps == ASSUME LaunchInv, UNCHANGED vars PROVE LaunchInv'
<1>1. TypeOK'
  BY ThreadFacts, SlotFacts DEF LaunchInv, TypeOK, vars, rows, provider, local, rest, Locked,
     Guarded, Launching
<1>2. OncePerFollowUp'
  BY ThreadFacts, SlotFacts DEF LaunchInv, OncePerFollowUp, TypeOK, vars, rows, provider, local,
     rest, Locked, Guarded, Launching
<1>3. ReservedIsUnsent'
  BY ThreadFacts, SlotFacts DEF LaunchInv, ReservedIsUnsent, TypeOK, vars, rows, provider,
     local, rest, Locked, Guarded, Launching
<1>4. Roles'
  BY ThreadFacts, SlotFacts DEF LaunchInv, Roles, TypeOK, vars, rows, provider, local, rest,
     Locked, Guarded, Launching
<1>5. Copies'
  BY ThreadFacts, SlotFacts DEF LaunchInv, Copies, TypeOK, vars, rows, provider, local, rest,
     Locked, Guarded, Launching
<1>6. Aims'
  BY ThreadFacts, SlotFacts DEF LaunchInv, Aims, TypeOK, vars, rows, provider, local, rest,
     Locked, Guarded, Launching
<1>7. OneLauncher'
  BY ThreadFacts DEF LaunchInv, OneLauncher, TypeOK, vars, rows, provider, local, rest, Locked,
     Guarded, Launching
<1>8. LaunchesFresh'
  BY ThreadFacts, SlotFacts DEF LaunchInv, LaunchesFresh, TypeOK, vars, rows, provider, local,
     rest, Locked, Guarded, Launching
<1>9. EntriesFresh'
  BY ThreadFacts, SlotFacts DEF LaunchInv, EntriesFresh, TypeOK, vars, rows, provider, local,
     rest, Locked, Guarded, Launching
<1> QED BY <1>1, <1>2, <1>3, <1>4, <1>5, <1>6, <1>7, <1>8, <1>9 DEF LaunchInv

-----------------------------------------------------------------------------
(* The theorems.                                                            *)

\* At first nothing has been sent, and nobody is launching.
LEMMA Initial == Init => LaunchInv
<1> SUFFICES ASSUME Init PROVE LaunchInv
  OBVIOUS
<1>1. /\ NoJob \in JobRow /\ NoJob.status = "none"
      /\ [status |-> "none", attached |-> FALSE] \in MsgRow
  BY DEF NoJob, JobRow, MsgRow, JobStatuses, MsgStatuses
<1>2. TypeOK
  BY <1>1, ThreadFacts, SlotFacts, RunsAssumption DEF Init, TypeOK, Everywhere, EverySlot,
     JobStatuses, PCs, Locked, Guarded, Launching
<1>3. OncePerFollowUp
  BY <1>1, ThreadFacts, SlotFacts, RunsAssumption DEF Init, OncePerFollowUp, Everywhere,
     EverySlot, JobStatuses, PCs, Locked, Guarded, Launching
<1>4. ReservedIsUnsent
  BY <1>1, ThreadFacts, SlotFacts, RunsAssumption DEF Init, ReservedIsUnsent, Everywhere,
     EverySlot, JobStatuses, PCs, Locked, Guarded, Launching
<1>5. Roles
  BY <1>1, ThreadFacts, SlotFacts, RunsAssumption DEF Init, Roles, Everywhere, EverySlot,
     JobStatuses, PCs, Locked, Guarded, Launching
<1>6. Copies
  BY <1>1, ThreadFacts, SlotFacts, RunsAssumption DEF Init, Copies, Everywhere, EverySlot,
     JobStatuses, PCs, Locked, Guarded, Launching
<1>7. Aims
  BY <1>1, ThreadFacts, SlotFacts, RunsAssumption DEF Init, Aims, Everywhere, EverySlot,
     JobStatuses, PCs, Locked, Guarded, Launching
<1>8. OneLauncher
  BY <1>1, ThreadFacts, SlotFacts, RunsAssumption DEF Init, OneLauncher, Everywhere, EverySlot,
     JobStatuses, PCs, Locked, Guarded, Launching
<1>9. LaunchesFresh
  BY <1>1, ThreadFacts, SlotFacts, RunsAssumption DEF Init, LaunchesFresh, Everywhere,
     EverySlot, JobStatuses, PCs, Locked, Guarded, Launching
<1>10. EntriesFresh
  BY <1>1, ThreadFacts, SlotFacts, RunsAssumption DEF Init, EntriesFresh, Everywhere, EverySlot,
     JobStatuses, PCs, Locked, Guarded, Launching
<1> QED BY <1>2, <1>3, <1>4, <1>5, <1>6, <1>7, <1>8, <1>9, <1>10 DEF LaunchInv

\* Every step keeps the invariant.
LEMMA Keeps == LaunchInv /\ [Next]_vars => LaunchInv'
<1> SUFFICES ASSUME LaunchInv, [Next]_vars PROVE LaunchInv'
  OBVIOUS
<1>1. ASSUME NEW t \in Thread, Step(t) PROVE LaunchInv'
  BY <1>1, StoreJobKeeps, TakeLockKeeps, ReadSessionKeeps, LearnSessionKeeps, SyncMessageKeeps,
     TouchSessionKeeps,
     ReadForChainKeeps, ChooseKeeps, ReserveKeeps, ResaveSessionKeeps, CompleteRunKeeps, MarkProcessedKeeps,
     RecheckKeeps, ClaimKeeps, ExecuteKeeps, SaveTurnKeeps, WatchKeeps, NestedReturnsKeeps,
     RecoverKeeps, RereadSessionKeeps, SyncAttachedKeeps, ListKeeps, CancelKeeps DEF Step
<1>2. ASSUME NEW t \in Thread, SaveTurnFails(t) PROVE LaunchInv'
  BY <1>2, SaveTurnFailsKeeps
<1>3. ASSUME NEW t \in Poller, NEW s \in Slot, Poll(t, s) PROVE LaunchInv'
  BY <1>3, PollKeeps
<1>4. ASSUME NEW s \in Slot, Callback(s) \/ Finish(s) PROVE LaunchInv'
  BY <1>4, CallbackKeeps, FinishKeeps
<1>5. ASSUME NEW t \in Reconciler, Reconcile(t) PROVE LaunchInv'
  BY <1>5, ReconcileKeeps, ThreadFacts
<1>6. CASE Submit \/ StartRun \/ Crash \/ UNCHANGED vars
  BY <1>6, SubmitKeeps, StartRunKeeps, CrashKeeps, StutterKeeps
<1> QED BY <1>1, <1>2, <1>3, <1>4, <1>5, <1>6 DEF Next

\* The invariant holds in every state, for any number of runs and turns, of
\* requests that ask for jobs, and of crashes.
THEOREM Launches == Spec => []LaunchInv
  BY Initial, Keeps, PTL DEF Spec

\* Every variable keeps its type.
THEOREM WellTyped == Spec => []TypeOK
<1>1. LaunchInv => TypeOK
  BY DEF LaunchInv
<1> QED BY <1>1, Launches, PTL

\* However callbacks, polls, the reconciler, new turns, failed saves and crashes
\* interleave, no follow-up is sent to a CLI twice.
THEOREM SentAtMostOnce == Spec => []OncePerFollowUp
<1>1. LaunchInv => OncePerFollowUp
  BY DEF LaunchInv
<1> QED BY <1>1, Launches, PTL

\* A message that is still reserved, which recovery will launch, was never sent.
THEOREM ReservedWasNotSent == Spec => []ReservedIsUnsent
<1>1. LaunchInv => ReservedIsUnsent
  BY DEF LaunchInv
<1> QED BY <1>1, Launches, PTL

-----------------------------------------------------------------------------
(* Taking turns, when nobody polls.                                         *)

\* Numbered messages that are as many as the highest number fill the numbers.
LEMMA Filled ==
  ASSUME NEW C, NEW k \in Nat, IsFiniteSet(C), Cardinality(C) = k,
         \A q \in C : q[3] \in 1 .. k,
         \A p, q \in C : p[3] = q[3] => p = q
  PROVE  \A i \in 1 .. k : \E q \in C : q[3] = i
<1> DEFINE f == [q \in C |-> q[3]]
<1>1. f \in Injection(C, 1 .. k)
  <2>1. f \in [C -> 1 .. k]
    OBVIOUS
  <2> QED BY <2>1 DEF Injection, IsInjective
<1>2. IsFiniteSet(1 .. k) /\ Cardinality(1 .. k) = k
  <2>1. Cardinality(1 .. k) = IF 1 > k THEN 0 ELSE k - 1 + 1
    BY FS_Interval
  <2> QED BY <2>1, FS_Interval
<1>3. f \in Surjection(C, 1 .. k)
  BY <1>1, <1>2, FS_Injection
<1> QED BY <1>3 DEF Surjection

\* The count of the completed turns of an agent.
LEMMA TurnsCount ==
  ASSUME NEW r, NEW b
  PROVE  LET C == {s \in Slot : RunOf(s) = r /\ ByReviewer(s) = b /\ msg[s].status = "completed"}
         IN  IsFiniteSet(C) /\ Cardinality(C) = Turns(r, b) /\ Turns(r, b) \in Nat
<1> DEFINE C == {s \in Slot : RunOf(s) = r /\ ByReviewer(s) = b /\ msg[s].status = "completed"}
<1>1. C \in SUBSET Slot
  OBVIOUS
<1>2. IsFiniteSet(C)
  BY <1>1, SlotFinite, FS_Subset
<1> QED BY <1>2, FS_CardinalityType DEF Turns

\* What a message is.
LEMMA Shape ==
  /\ \A s \in Slot : s = <<s[1], s[2], s[3]>> /\ s[1] \in Run /\ s[2] \in {"entry", "reviewer", "generator"}
  /\ \A s \in Slot : ByReviewer(s) <=> s[2] = "reviewer"
  /\ \A s \in Slot : s[2] = "entry" <=> s = Entry(s[1])
  /\ \A s \in Slot : s[2] = "entry" => s[3] = 1
  /\ \A s \in Slot : s[2] = "reviewer" <=> s[3] \in 1 .. RevTurns /\ s \in FollowUp /\ s = <<s[1], "reviewer", s[3]>>
  /\ \A s \in Slot : s[2] = "generator" <=> s[3] \in 1 .. GenTurns /\ s \in FollowUp /\ s = <<s[1], "generator", s[3]>>
  /\ \A r \in Run, i \in 1 .. RevTurns : <<r, "reviewer", i>> \in FollowUp
  /\ \A r \in Run, i \in 1 .. GenTurns : <<r, "generator", i>> \in FollowUp
<1>1. \A s \in Slot : \/ (\E r \in Run : s = <<r, "entry", 1>>)
                      \/ (\E r \in Run, i \in 1 .. RevTurns : s = <<r, "reviewer", i>> /\ s \in FollowUp)
                      \/ (\E r \in Run, i \in 1 .. GenTurns : s = <<r, "generator", i>> /\ s \in FollowUp)
  BY DEF Slot, FollowUp, Entry
<1>2. /\ \A r \in Run, i \in 1 .. RevTurns : <<r, "reviewer", i>> \in FollowUp
      /\ \A r \in Run, i \in 1 .. GenTurns : <<r, "generator", i>> \in FollowUp
  BY DEF FollowUp
<1> QED BY <1>1, <1>2 DEF ByReviewer, Entry

\* The generator has no first follow-up: its first turn is the one of the user.
LEMMA NoFirstGenerator ==
  ASSUME TurnOrder, NEW q \in FollowUp, Exists(q), q[2] = "generator"
  PROVE  q[3] # 1
<1>1. Answers(q) \in Slot
  BY DEF TurnOrder, InTurn
<1>2. q[3] = 1 => Answers(q) = <<q[1], "reviewer", 0>>
  BY DEF Answers, ByReviewer, RunOf
<1>3. \A r : <<r, "reviewer", 0>> \notin Slot
  BY Shape
<1> QED BY <1>1, <1>2, <1>3

\* The completed turns of the reviewer are all that there are, when the next one
\* does not exist yet.
LEMMA ReviewerTurns ==
  ASSUME TypeOK, TurnOrder, NEW r \in Run, Turns(r, TRUE) < RevTurns,
         ~Exists(<<r, "reviewer", Turns(r, TRUE) + 1>>)
  PROVE  /\ \A i \in 1 .. Turns(r, TRUE) : Exists(<<r, "reviewer", i>>)
         /\ \A i \in 1 .. RevTurns : Exists(<<r, "reviewer", i>>) => i <= Turns(r, TRUE)
<1> DEFINE k == Turns(r, TRUE)
           C == {s \in Slot : RunOf(s) = r /\ ByReviewer(s) = TRUE /\ msg[s].status = "completed"}
<1>1. IsFiniteSet(C) /\ Cardinality(C) = k /\ k \in Nat
  BY TurnsCount
<1>0. k \in Nat
  <2> HIDE DEF C, k
  <2> QED BY <1>1
<1>2. ASSUME NEW i \in 1 .. RevTurns, Exists(<<r, "reviewer", i>>) PROVE i <= k
  <2> DEFINE q == <<r, "reviewer", i>>
  <2>1. q \in FollowUp /\ q[1] = r /\ q[2] = "reviewer" /\ q[3] = i /\ ByReviewer(q)
    BY Shape DEF ByReviewer
  <2>2. \A j \in 1 .. (i - 1) : Exists(<<r, "reviewer", j>>)
    BY <1>2, <2>1 DEF TurnOrder, InTurn
  <2>3. CASE i = k + 1
    BY <1>2, <2>3
  <2>4. CASE i > k + 1
    <3>0. i \in Int
      BY TurnsAssumption
    <3>1. k + 1 \in 1 .. (i - 1)
      <4> HIDE DEF k
      <4> QED BY <1>0, <3>0, <2>4
    <3> QED BY <2>2, <3>1
  <2> HIDE DEF k
  <2> QED BY <1>1, <2>3, <2>4
<1>3. \A q \in C : q = <<r, "reviewer", q[3]>> /\ q[3] \in 1 .. RevTurns /\ Exists(q)
  BY Shape DEF RunOf, Exists
<1> HIDE DEF C, k
<1>4. \A q \in C : q[3] \in 1 .. k
  BY <1>1, <1>2, <1>3
<1>5. \A p, q \in C : p[3] = q[3] => p = q
  BY <1>3
<1>6. \A i \in 1 .. k : \E q \in C : q[3] = i
  BY <1>1, <1>4, <1>5, Filled
<1>7. \A i \in 1 .. k : Exists(<<r, "reviewer", i>>)
  BY <1>3, <1>6
<1> QED BY <1>2, <1>7 DEF k

\* The same for the generator, whose first turn is the one of the user.
LEMMA GeneratorTurns ==
  ASSUME TypeOK, TurnOrder, NEW r \in Run, Turns(r, FALSE) < GenTurns,
         msg[Entry(r)].status = "completed",
         ~Exists(<<r, "generator", Turns(r, FALSE) + 1>>)
  PROVE  /\ Turns(r, FALSE) > 0
         /\ \A i \in 2 .. Turns(r, FALSE) : Exists(<<r, "generator", i>>)
         /\ \A i \in 2 .. GenTurns : Exists(<<r, "generator", i>>) => i <= Turns(r, FALSE)
<1> DEFINE k == Turns(r, FALSE)
           C == {s \in Slot : RunOf(s) = r /\ ByReviewer(s) = FALSE /\ msg[s].status = "completed"}
<1>1. IsFiniteSet(C) /\ Cardinality(C) = k /\ k \in Nat
  BY TurnsCount
<1>0. k \in Nat
  <2> HIDE DEF C, k
  <2> QED BY <1>1
<1>2. k > 0
  <2>1. Entry(r) \in C
    BY SlotFacts, Shape DEF Entry, RunOf, ByReviewer
  <2>2. C # {}
    BY <2>1
  <2> HIDE DEF C, k
  <2> QED BY <1>1, <2>2, FS_EmptySet
<1>3. ASSUME NEW i \in 2 .. GenTurns, Exists(<<r, "generator", i>>) PROVE i <= k
  <2> DEFINE q == <<r, "generator", i>>
  <2>1. q \in FollowUp /\ q[1] = r /\ q[2] = "generator" /\ q[3] = i
    BY Shape
  <2>2. \A j \in 1 .. (i - 1) : j > 1 => Exists(<<r, "generator", j>>)
    BY <1>3, <2>1 DEF TurnOrder, InTurn
  <2>3. CASE i = k + 1
    BY <1>3, <2>3
  <2>4. CASE i > k + 1
    <3>0. i \in Int
      BY TurnsAssumption
    <3>1. k + 1 \in 1 .. (i - 1) /\ k + 1 > 1
      <4> HIDE DEF k
      <4> QED BY <1>0, <3>0, <1>2, <2>4
    <3> QED BY <2>2, <3>1
  <2> HIDE DEF k
  <2> QED BY <1>1, <2>3, <2>4
<1>4. \A q \in C : \/ (q = Entry(r) /\ q[3] = 1)
                   \/ (q = <<r, "generator", q[3]>> /\ q[3] \in 2 .. GenTurns /\ Exists(q))
  <2> SUFFICES ASSUME NEW q \in C
               PROVE  \/ (q = Entry(r) /\ q[3] = 1)
                      \/ (q = <<r, "generator", q[3]>> /\ q[3] \in 2 .. GenTurns /\ Exists(q))
    OBVIOUS
  <2>1. q \in Slot /\ q[1] = r /\ q[2] \in {"entry", "generator"} /\ Exists(q)
    BY Shape DEF RunOf, Exists
  <2>2. CASE q[2] = "entry"
    BY <2>1, <2>2, Shape
  <2>3. CASE q[2] = "generator"
    <3>1. q = <<r, "generator", q[3]>> /\ q[3] \in 1 .. GenTurns /\ q \in FollowUp
      BY <2>1, <2>3, Shape
    <3>2. q[3] # 1
      BY <2>1, <3>1, NoFirstGenerator
    <3>3. q[3] \in 2 .. GenTurns
      BY <3>1, <3>2, TurnsAssumption
    <3> QED BY <2>1, <3>1, <3>3
  <2> QED BY <2>1, <2>2, <2>3
<1> HIDE DEF C, k
<1>5. \A q \in C : q[3] \in 1 .. k
  BY <1>1, <1>2, <1>3, <1>4, TurnsAssumption
<1>6. \A p, q \in C : p[3] = q[3] => p = q
  BY <1>4
<1>7. \A i \in 1 .. k : \E q \in C : q[3] = i
  BY <1>1, <1>5, <1>6, Filled
<1>8. \A i \in 2 .. k : Exists(<<r, "generator", i>>)
  <2> SUFFICES ASSUME NEW i \in 2 .. k PROVE Exists(<<r, "generator", i>>)
    OBVIOUS
  <2>1. PICK q \in C : q[3] = i
    BY <1>1, <1>7
  <2> QED BY <1>4, <2>1
<1> QED BY <1>2, <1>3, <1>8 DEF k

\* When a run has a follow-up, it has the first one of the reviewer.
LEMMA FirstReview ==
  ASSUME TurnOrder, NEW q \in FollowUp, InTurn(q)
  PROVE  Answers(q) = Entry(RunOf(q)) \/ \E p \in FollowUp : Exists(p) /\ Answers(p) = Entry(RunOf(q))
<1> DEFINE r == RunOf(q)
           first == <<r, "reviewer", 1>>
<1>1. r \in Run /\ r = q[1] /\ q \in Slot
  BY SlotFacts DEF RunOf
<1>2. Answers(first) = Entry(r)
  BY DEF Answers, ByReviewer, RunOf
<1>3. ASSUME NEW i \in 1 .. RevTurns, <<r, "reviewer", i>> \in FollowUp, Exists(<<r, "reviewer", i>>)
      PROVE  first \in FollowUp /\ Exists(first)
  <2> DEFINE p == <<r, "reviewer", i>>
  <2>1. InTurn(p) /\ p[1] = r /\ p[2] = "reviewer" /\ p[3] = i
    BY <1>3 DEF TurnOrder
  <2>2. CASE i = 1
    BY <1>3, <2>2
  <2>3. CASE i > 1
    <3>1. 1 \in 1 .. (i - 1) /\ 1 \in 1 .. RevTurns
      BY <2>3, TurnsAssumption
    <3>2. Exists(<<r, "reviewer", 1>>)
      BY <2>1, <3>1 DEF InTurn, ByReviewer
    <3> QED BY <1>1, <3>1, <3>2, Shape
  <2> QED BY <2>2, <2>3, TurnsAssumption
<1>4. CASE q[2] = "reviewer"
  <2>1. q = <<r, "reviewer", q[3]>> /\ q[3] \in 1 .. RevTurns
    BY <1>1, <1>4, Shape
  <2>2. CASE q[3] = 1
    BY <2>1, <2>2, <1>2
  <2>3. CASE q[3] # 1
    <3>1. 1 \in 1 .. (q[3] - 1) /\ 1 \in 1 .. RevTurns
      BY <2>1, <2>3, TurnsAssumption
    <3>2. Exists(first)
      BY <1>4, <1>1, <3>1 DEF InTurn, ByReviewer
    <3>3. first \in FollowUp
      BY <1>1, <3>1, Shape
    <3> QED BY <1>2, <3>2, <3>3
  <2> QED BY <2>2, <2>3
<1>5. CASE q[2] = "generator"
  <2>1. Answers(q) = <<r, "reviewer", q[3] - 1>> /\ Answers(q) \in Slot /\ Exists(Answers(q))
    BY <1>1, <1>5 DEF InTurn, Answers, ByReviewer
  <2>2. q[3] - 1 \in 1 .. RevTurns /\ Answers(q) \in FollowUp
    BY <2>1, Shape
  <2> QED BY <1>2, <1>3, <2>1, <2>2
<1>6. q[2] \in {"reviewer", "generator"}
  BY <1>1, Shape, SlotFacts DEF Entry
<1> QED BY <1>4, <1>5, <1>6

\* What is known of a job whose callback runs, when nobody polls.
LEMMA Serves ==
  ASSUME Poller = {}, TurnsInv
  PROVE  /\ \A s \in Slot : job[s].status # "none" => calls[s] # 0 /\ Exists(s)
         /\ \A s \in Slot : pc[s] # "idle" =>
              /\ serving[s] = s /\ s \notin watched /\ job[s].status # "none"
              /\ seen[s].status # "none" /\ seen[s].status \in JobStatuses
         /\ \A t \in Thread \ (Reconciler \cup {Submitter}) : t \in Slot
<1>1. \A s \in Slot : job[s].status # "none" => calls[s] # 0 /\ Exists(s)
  BY DEF TurnsInv, LaunchInv, StoredInv, ReservedIsUnsent, Unsent, Exists
<1>2. \A s \in Slot : pc[s] # "idle" =>
              /\ serving[s] = s /\ s \notin watched /\ job[s].status # "none"
              /\ seen[s].status # "none"
  BY ThreadFacts DEF TurnsInv, LaunchInv, Copies, ToldOnce
<1>3. \A s \in Slot : seen[s].status \in JobStatuses
  BY ThreadFacts, Rows DEF TurnsInv, LaunchInv, TypeOK
<1> QED BY <1>1, <1>2, <1>3, ThreadFacts

\* No message answers a job that is not stored.
LEMMA NotStored ==
  ASSUME TurnsInv, NEW s, job[s].status = "none"
  PROVE  Unanswered(s)
  BY DEF TurnsInv, TurnOrder, InTurn, Unanswered

\* The follow-up that is chosen answers the job, and is in turn.
LEMMA Chosen ==
  ASSUME Poller = {}, TurnsInv, NEW t \in Slot, pc[t] = "choose",
         NEW next, next = NextTurn(t), next # NoSlot, msg[next].status = "none",
         ByReviewer(t) \/ Turns(RunOf(t), FALSE) > 0
  PROVE  next \in FollowUp /\ Answers(next) = t /\ InTurn(next)
<1> DEFINE r == RunOf(t)
           entry == Entry(r)
<1>1. /\ r \in Run /\ r = t[1] /\ next \in FollowUp /\ ~Exists(next)
      /\ entry \in Slot /\ RunOf(entry) = r /\ ~ByReviewer(entry)
  BY SlotFacts, NextTurnType DEF RunOf, Exists, Entry, ByReviewer
<1>2. Exists(t) /\ Unanswered(t) /\ job[t].status = "completed"
  BY Serves DEF TurnsInv, OwnCopies, AnsweredLast, BeforeAnswer, Locked
<1>3. msg[entry].status = "completed"
  <2>1. CASE t[2] = "entry"
    <3>1. t = entry
      BY <2>1, <1>1, Shape
    <3> QED BY <3>1, <1>1 DEF TurnsInv, OwnCopies
  <2>2. CASE t[2] # "entry"
    <3>1. t \in FollowUp
      BY <2>2, Shape
    <3> QED BY <3>1, <1>2 DEF TurnsInv, TurnOrder, InTurn
  <2> QED BY <2>1, <2>2
<1>t. TypeOK /\ TurnOrder
  BY DEF TurnsInv, LaunchInv
<1>4. CASE ByReviewer(t)
  <2> DEFINE k == Turns(r, FALSE)
             i == t[3]
  <2>1. k \in Nat
    BY TurnsCount
  <2>2. t = <<r, "reviewer", i>> /\ i \in 1 .. RevTurns /\ t \in FollowUp /\ InTurn(t)
    BY <1>1, <1>2, <1>4, <1>t, Shape DEF TurnOrder
  <2>3. next = <<r, "generator", k + 1>> /\ k + 1 <= GenTurns
    <3> DEFINE turns == Turns(r, ~ByReviewer(t))
    <3>1. turns = k
      <4>1. (~ByReviewer(t)) = FALSE
        BY <1>4
      <4> QED BY <4>1, Zenon
    <3>2. NextTurn(t) = IF ByReviewer(t)
                        THEN IF turns + 1 <= GenTurns /\ Turns(r, TRUE) > 0
                             THEN <<r, "generator", turns + 1>> ELSE NoSlot
                        ELSE IF turns + 1 <= RevTurns THEN <<r, "reviewer", turns + 1>> ELSE NoSlot
      BY DEF NextTurn
    <3> HIDE DEF turns, k
    <3> QED BY <1>4, <3>1, <3>2
  <2>4. /\ k > 0
        /\ \A j \in 2 .. k : Exists(<<r, "generator", j>>)
        /\ \A j \in 2 .. GenTurns : Exists(<<r, "generator", j>>) => j <= k
    <3>1. k < GenTurns
      <4> HIDE DEF k
      <4> QED BY <2>1, <2>3, TurnsAssumption
    <3> QED BY <3>1, <1>1, <1>3, <1>t, <2>3, GeneratorTurns
  <2> HIDE DEF k
  <2>5. i <= k
    <3>1. CASE i = 1
      BY <2>1, <2>4, <3>1
    <3>2. CASE i # 1
      <4>1. Answers(t) = <<r, "generator", i>>
        BY <3>2, <1>4 DEF Answers
      <4>2. Exists(<<r, "generator", i>>) /\ <<r, "generator", i>> \in Slot
        BY <2>2, <4>1 DEF InTurn
      <4>3. i \in 2 .. GenTurns
        <5>1. i \in 1 .. GenTurns
          BY <4>2, Shape
        <5> QED BY <5>1, <3>2, TurnsAssumption
      <4> QED BY <2>4, <4>2, <4>3
    <3> QED BY <3>1, <3>2
  <2>6. i >= k
    <3>1. SUFFICES ASSUME i < k PROVE FALSE
      BY <2>1, <2>2, TurnsAssumption
    <3>2. i + 1 \in 2 .. k /\ i + 1 \in 1 .. GenTurns
      BY <2>1, <2>2, <2>3, <3>1, TurnsAssumption
    <3> DEFINE p == <<r, "generator", i + 1>>
    <3>3. p \in FollowUp /\ Exists(p)
      BY <1>1, <2>4, <3>2, Shape
    <3>4. Answers(p) = <<r, "reviewer", (i + 1) - 1>>
      BY DEF Answers, ByReviewer, RunOf
    <3>5. (i + 1) - 1 = i
      BY <2>2, TurnsAssumption
    <3> QED BY <1>2, <2>2, <3>3, <3>4, <3>5 DEF Unanswered
  <2>7. i = k
    BY <2>1, <2>2, <2>5, <2>6, TurnsAssumption
  <2>8. Answers(next) = t
    <3>1. Answers(next) = <<r, "reviewer", (k + 1) - 1>>
      BY <2>3 DEF Answers, ByReviewer, RunOf
    <3>2. (k + 1) - 1 = i
      BY <2>1, <2>7
    <3> QED BY <2>2, <3>1, <3>2
  <2>9. \A j \in 1 .. (next[3] - 1) : ByReviewer(next) \/ j > 1 => Exists(<<next[1], next[2], j>>)
    <3>1. next[1] = r /\ next[2] = "generator" /\ next[3] = k + 1 /\ ~ByReviewer(next)
      BY <2>3 DEF ByReviewer
    <3>2. \A j \in 1 .. ((k + 1) - 1) : j > 1 => j \in 2 .. k
      BY <2>1
    <3> QED BY <2>4, <3>1, <3>2
  <2>10. RunOf(next) = r
    BY <2>3 DEF RunOf
  <2> QED BY <1>1, <1>2, <1>3, <2>8, <2>9, <2>10 DEF InTurn
<1>5. CASE ~ByReviewer(t)
  <2> DEFINE k == Turns(r, TRUE)
             i == t[3]
  <2>1. k \in Nat
    BY TurnsCount
  <2>3. next = <<r, "reviewer", k + 1>> /\ k + 1 <= RevTurns
    <3> DEFINE turns == Turns(r, ~ByReviewer(t))
    <3>1. turns = k
      <4>1. (~ByReviewer(t)) = TRUE
        BY <1>5
      <4> QED BY <4>1, Zenon
    <3>2. NextTurn(t) = IF ByReviewer(t)
                        THEN IF turns + 1 <= GenTurns /\ Turns(r, TRUE) > 0
                             THEN <<r, "generator", turns + 1>> ELSE NoSlot
                        ELSE IF turns + 1 <= RevTurns THEN <<r, "reviewer", turns + 1>> ELSE NoSlot
      BY DEF NextTurn
    <3> HIDE DEF turns, k
    <3> QED BY <1>5, <3>1, <3>2
  <2>4. /\ \A j \in 1 .. k : Exists(<<r, "reviewer", j>>)
        /\ \A j \in 1 .. RevTurns : Exists(<<r, "reviewer", j>>) => j <= k
    <3>1. k < RevTurns
      <4> HIDE DEF k
      <4> QED BY <2>1, <2>3, TurnsAssumption
    <3> QED BY <3>1, <1>1, <1>t, <2>3, ReviewerTurns
  <2> HIDE DEF k
  <2>5. k + 1 \in 1 .. RevTurns
    BY <2>1, <2>3, TurnsAssumption
  <2>6. ByReviewer(next) /\ RunOf(next) = r /\ next[1] = r /\ next[2] = "reviewer" /\ next[3] = k + 1
    BY <2>3 DEF ByReviewer, RunOf
  <2>7. Answers(next) = t
    <3>1. CASE t[2] = "entry"
      <4>1. t = entry
        BY <3>1, <1>1, Shape
      <4>2. k = 0
        <5>1. SUFFICES ASSUME k # 0 PROVE FALSE
          OBVIOUS
        <5>2. 1 \in 1 .. k /\ 1 \in 1 .. RevTurns
          BY <2>1, <2>5, <5>1, TurnsAssumption
        <5>3. <<r, "reviewer", 1>> \in FollowUp /\ Exists(<<r, "reviewer", 1>>)
          BY <1>1, <2>4, <5>2, Shape
        <5>4. Answers(<<r, "reviewer", 1>>) = entry
          BY DEF Answers, ByReviewer, RunOf
        <5> QED BY <1>2, <4>1, <5>3, <5>4 DEF Unanswered
      <4> QED BY <2>6, <4>1, <4>2 DEF Answers
    <3>2. CASE t[2] # "entry"
      <4>1. t[2] = "generator" /\ t = <<r, "generator", i>> /\ i \in 1 .. GenTurns /\ t \in FollowUp /\ InTurn(t)
        BY <3>2, <1>1, <1>2, <1>5, <1>t, Shape DEF TurnOrder
      <4>2. i # 1
        BY <1>2, <1>t, <4>1, NoFirstGenerator
      <4>3. i - 1 <= k
        <5>1. Answers(t) = <<r, "reviewer", i - 1>> /\ Answers(t) \in Slot /\ Exists(Answers(t))
          BY <1>5, <4>1 DEF Answers, InTurn
        <5>2. i - 1 \in 1 .. RevTurns
          BY <5>1, Shape
        <5> QED BY <2>4, <5>1, <5>2
      <4>4. i > k
        <5>1. SUFFICES ASSUME i <= k PROVE FALSE
          BY <2>1, <4>1, TurnsAssumption
        <5>2. i \in 1 .. k /\ i \in 1 .. RevTurns
          BY <2>1, <2>5, <4>1, <5>1, TurnsAssumption
        <5>3. <<r, "reviewer", i>> \in FollowUp /\ Exists(<<r, "reviewer", i>>)
          BY <1>1, <2>4, <5>2, Shape
        <5>4. Answers(<<r, "reviewer", i>>) = <<r, "generator", i>>
          BY <4>2 DEF Answers, ByReviewer, RunOf
        <5> QED BY <1>2, <4>1, <5>3, <5>4 DEF Unanswered
      <4>5. k + 1 = i /\ k + 1 # 1
        BY <2>1, <4>1, <4>2, <4>3, <4>4, TurnsAssumption
      <4>6. Answers(next) = <<r, "generator", k + 1>>
        BY <2>6, <4>5 DEF Answers
      <4> QED BY <4>1, <4>5, <4>6
    <3> QED BY <3>1, <3>2
  <2>8. \A j \in 1 .. (next[3] - 1) : Exists(<<next[1], next[2], j>>)
    <3>1. \A j \in 1 .. ((k + 1) - 1) : j \in 1 .. k
      BY <2>1
    <3> QED BY <2>4, <2>6, <3>1
  <2> QED BY <1>1, <1>2, <1>3, <2>6, <2>7, <2>8 DEF InTurn
<1> QED BY <1>4, <1>5

\* What a step may do to messages and jobs.  Messages stay; a follow-up is added
\* by the thread of a job, which is done with answering; the message of a turn of
\* the user and a job change when the thread of that job says so, or are new.
MessagesOn ==
  /\ \A s \in Slot : Exists(s) => msg'[s].status # "none"
  /\ \A q \in FollowUp : msg'[q].status # "none" =>
       Exists(q) \/ \E t \in Slot : pc[t] = "reserve" /\ pc'[t] \notin BeforeAnswer /\ target[t] = q
  /\ \A r \in Run : \/ msg'[Entry(r)].status = msg[Entry(r)].status
                    \/ pc[Entry(r)] = "message"
                    \/ calls[Entry(r)] = 0

JobsOn ==
  \A s \in Slot : \/ job'[s].status = job[s].status
                  \/ pc[s] = "store"
                  \/ job[s].status = "none"

\* A follow-up that is in turn stays so.
LEMMA InTurnKept ==
  ASSUME TurnsInv, MessagesOn, JobsOn, NEW q \in FollowUp, InTurn(q), pc[Answers(q)] # "store",
         Exists(q) \/ pc[Answers(q)] \in {"choose", "reserve"}
  PROVE  InTurn(q)'
<1> DEFINE a == Answers(q)
           r == RunOf(q)
<1>0. r \in Run /\ q \in Slot /\ Entry(r) \in Slot
  BY SlotFacts
<1>1. a \in Slot /\ Exists(a) /\ job[a].status = "completed" /\ msg[Entry(r)].status = "completed"
  BY DEF InTurn
<1>2. msg'[a].status # "none"
  BY <1>1 DEF MessagesOn
<1>3. job'[a].status = "completed"
  BY <1>1 DEF JobsOn
<1>4. msg'[Entry(r)].status = "completed"
  <2>1. calls[Entry(r)] # 0
    BY <1>0, <1>1 DEF TurnsInv, StoredInv, Exists
  <2>2. pc[Entry(r)] # "message"
    <3>1. SUFFICES ASSUME pc[Entry(r)] = "message" PROVE FALSE
      OBVIOUS
    <3>2. Unanswered(Entry(r))
      BY <1>0, <3>1 DEF TurnsInv, AnsweredLast, BeforeAnswer
    <3>3. a = Entry(r)
      BY <3>2, FirstReview DEF TurnsInv, Unanswered
    <3>4. Exists(q)
      BY <3>1, <3>3
    <3> QED BY <3>2, <3>3, <3>4 DEF Unanswered
  <2> QED BY <1>0, <1>1, <2>1, <2>2 DEF MessagesOn
<1>5. ASSUME NEW i \in 1 .. (q[3] - 1), ByReviewer(q) \/ i > 1, Exists(<<q[1], q[2], i>>)
      PROVE  msg'[<<q[1], q[2], i>>].status # "none"
  <2>1. q = <<q[1], q[2], q[3]>> /\ q[1] \in Run
        /\ \/ q[2] = "reviewer" /\ q[3] \in 1 .. RevTurns
           \/ q[2] = "generator" /\ q[3] \in 1 .. GenTurns
    <3>1. q[2] # "entry"
      BY <1>0, Shape, SlotFacts
    <3>2. q[2] \in {"entry", "reviewer", "generator"} /\ q[1] \in Run
      BY <1>0, Shape
    <3>3. q[2] = "reviewer" => q[3] \in 1 .. RevTurns
      BY <1>0, Shape
    <3>4. q[2] = "generator" => q[3] \in 1 .. GenTurns
      BY <1>0, Shape
    <3>5. q = <<q[1], q[2], q[3]>>
      BY <1>0, Shape
    <3> QED BY <3>1, <3>2, <3>3, <3>4, <3>5
  <2>2. i \in 1 .. q[3]
    BY <2>1, TurnsAssumption
  <2>3. <<q[1], q[2], i>> \in FollowUp
    <3>1. CASE q[2] = "reviewer" /\ q[3] \in 1 .. RevTurns
      <4>1. i \in 1 .. RevTurns
        BY <2>2, <3>1, TurnsAssumption
      <4> QED BY <2>1, <3>1, <4>1, Shape
    <3>2. CASE q[2] = "generator" /\ q[3] \in 1 .. GenTurns
      <4>1. i \in 1 .. GenTurns
        BY <2>2, <3>2, TurnsAssumption
      <4> QED BY <2>1, <3>2, <4>1, Shape
    <3> QED BY <2>1, <3>1, <3>2
  <2> QED BY <1>5, <2>3, SlotFacts DEF MessagesOn
<1> HIDE DEF a
<1>6. \A i \in 1 .. (q[3] - 1) : ByReviewer(q) \/ i > 1 => msg'[<<q[1], q[2], i>>].status # "none"
  BY <1>5 DEF InTurn
<1> QED BY <1>1, <1>2, <1>3, <1>4, <1>6 DEF InTurn, Exists, a

\* The order of the turns is kept when the next follow-up is chosen by it.
LEMMA TurnOrderKept ==
  ASSUME Poller = {}, TurnsInv, MessagesOn, JobsOn,
         \A t \in Thread : pc'[t] = "reserve" =>
           \/ pc[t] = "reserve" /\ target'[t] = target[t]
           \/ pc[t] = "choose" /\ target'[t] \in FollowUp /\ InTurn(target'[t]) /\ Answers(target'[t]) = t
  PROVE  TurnOrder'
<1>1. ASSUME NEW t \in Thread, pc[t] = "reserve"
      PROVE  target[t] \in FollowUp /\ InTurn(target[t]) /\ Answers(target[t]) = t
  BY <1>1 DEF TurnsInv, LaunchInv, Aims, TurnOrder
<1>2. ASSUME NEW t \in Thread, pc'[t] = "reserve"
      PROVE  (InTurn(target[t]) /\ Answers(target[t]) = t)'
  <2>1. PICK q \in FollowUp : q = target'[t] /\ InTurn(q) /\ Answers(q) = t /\ pc[t] \in {"choose", "reserve"}
    BY <1>1, <1>2
  <2>2. InTurn(q)'
    BY <2>1, InTurnKept
  <2> QED BY <2>1, <2>2 DEF InTurn, Exists
<1>3. ASSUME NEW q \in FollowUp, Exists(q)' PROVE InTurn(q)'
  <2>1. CASE Exists(q)
    <3>1. InTurn(q) /\ Answers(q) \in Slot
      BY <2>1 DEF TurnsInv, TurnOrder, InTurn
    <3>2. pc[Answers(q)] # "store"
      BY <2>1, <3>1 DEF TurnsInv, AnsweredLast, BeforeAnswer, Unanswered
    <3> QED BY <2>1, <3>1, <3>2, InTurnKept
  <2>2. CASE ~Exists(q)
    <3>1. PICK t \in Slot : pc[t] = "reserve" /\ target[t] = q
      BY <1>3, <2>2 DEF MessagesOn, Exists
    <3>2. InTurn(q) /\ Answers(q) = t
      BY <1>1, <3>1, ThreadFacts
    <3> QED BY <3>1, <3>2, InTurnKept
  <2> QED BY <2>1, <2>2
<1>4. \A t \in Thread : (pc[t] = "reserve" => InTurn(target[t]) /\ Answers(target[t]) = t)'
  BY <1>2
<1> QED BY <1>3, <1>4 DEF TurnOrder

\* A job stays without an answer until its thread reserves it.
LEMMA AnsweredKept ==
  ASSUME Poller = {}, TurnsInv, MessagesOn,
         \A s \in Slot : s \in watched' => s \in watched \/ (Unanswered(s) /\ pc[s] = "idle"),
         \A s \in Slot : pc'[s] \in BeforeAnswer =>
           pc[s] \in BeforeAnswer \/ (Unanswered(s) /\ pc[s] = "idle"),
         \A t \in Thread : pc'[t] = "watch" =>
           target'[t] \in Slot /\ Unanswered(target'[t]) /\ pc[target'[t]] = "idle",
         watched' \subseteq Slot
  PROVE  AnsweredLast'
<1>1. ASSUME NEW s \in Slot, Unanswered(s), ~(pc[s] = "reserve" /\ pc'[s] \notin BeforeAnswer)
      PROVE  Unanswered(s)'
  <2>1. ASSUME NEW q \in FollowUp, msg'[q].status # "none" PROVE Answers(q) # s
    <3>1. CASE Exists(q)
      BY <1>1, <3>1 DEF Unanswered
    <3>2. CASE ~Exists(q)
      <4>1. PICK t \in Slot : pc[t] = "reserve" /\ pc'[t] \notin BeforeAnswer /\ target[t] = q
        BY <2>1, <3>2 DEF MessagesOn
      <4>2. Answers(q) = t
        BY <4>1, ThreadFacts DEF TurnsInv, TurnOrder
      <4> QED BY <1>1, <4>1, <4>2
    <3> QED BY <3>1, <3>2
  <2> QED BY <2>1 DEF Unanswered, Exists, Answers
<1>2. \A s \in Slot : s \in watched => Unanswered(s) /\ pc[s] = "idle"
  BY Serves DEF TurnsInv, AnsweredLast
<1>3. ASSUME NEW s \in Slot, s \in watched' PROVE Unanswered(s)'
  <2>1. Unanswered(s) /\ pc[s] = "idle"
    BY <1>2, <1>3
  <2> QED BY <1>1, <2>1
<1>4. ASSUME NEW s \in Slot, pc'[s] \in BeforeAnswer PROVE Unanswered(s)'
  <2>1. Unanswered(s)
    BY <1>4 DEF TurnsInv, AnsweredLast
  <2> QED BY <1>1, <1>4, <2>1
<1>5. ASSUME NEW t \in Thread, pc'[t] = "watch" PROVE (Unanswered(target[t]))'
  <2>1. PICK s \in Slot : s = target'[t] /\ Unanswered(s) /\ pc[s] = "idle"
    BY <1>5
  <2>2. Unanswered(s)'
    BY <1>1, <2>1
  <2> QED BY <2>1, <2>2 DEF Unanswered, Exists
<1>6. \A t \in Thread : (pc[t] = "watch" => Unanswered(target[t]))'
  BY <1>5
<1> QED BY <1>3, <1>4, <1>6 DEF AnsweredLast

\* A step of a thread that moves no message, and no job but for the flag processed.
LEMMA TurnsQuiet ==
  ASSUME Poller = {}, TurnsInv, LaunchInv', NEW t \in Thread,
         UNCHANGED <<msg, exec, watched, calls, serving>>,
         \A s \in Slot : job'[s].status = job[s].status,
         \A s \in Slot : \/ seen'[s].status = seen[s].status
                         \/ s = t /\ pc[t] = "lock",
         \A u \in Thread : u # t => pc'[u] = pc[u] /\ target'[u] = target[u],
         \A u \in Thread : \A o \in todo'[u] : o \in todo[u] \/ (Exists(o[1]) /\ o[2] # "submission_pending"),
         pc'[t] \notin {"execute", "save", "watch"},
         pc'[t] = "claim" => Exists(target'[t]),
         pc'[t] = "reserve" => pc[t] = "choose" /\ InTurn(target'[t]) /\ Answers(target'[t]) = t,
         t \in Slot =>
           /\ pc[t] # "idle"
           /\ pc'[t] \in BeforeAnswer => pc[t] \in BeforeAnswer
           /\ pc'[t] \in Locked => pc[t] \in Locked \cup {"lock"}
           /\ pc[t] = "lock" => pc'[t] = "session" /\ seen'[t].status = job[t].status
           /\ pc'[t] \in {"recover", "choose", "reserve"} =>
                pc[t] \in {"recover", "choose"} \/ seen[t].status = "completed"
           /\ pc'[t] \in {"touch", "chain", "recover", "choose", "reserve"} =>
                pc[t] \in {"touch", "chain", "recover", "choose"}
  PROVE  TurnsInv'
<1>1. StoredInv'
  <2>1. \A s \in Slot : /\ (calls[s] = 0 => job[s].status = "none" /\ exec[s] = "none")'
                        /\ (msg[s].status = "submission_pending" => job[s].status = "none")'
    BY DEF TurnsInv, StoredInv
  <2>2. \A r \in Run : (calls[Entry(r)] = 0 => ~Exists(Entry(r)))'
    BY DEF TurnsInv, StoredInv, Exists
  <2>3. \A u \in Thread : (pc[u] \in {"claim", "execute", "save"} => Exists(target[u]))'
    BY DEF TurnsInv, StoredInv, Exists
  <2>4. \A u \in Thread : (pc[u] = "save" => calls[target[u]] # 0 /\ job[target[u]].status = "none")'
    BY SlotFacts DEF TurnsInv, LaunchInv, Aims, Launching, StoredInv
  <2>5. \A u \in Thread : \A o \in todo'[u] : Exists(o[1])' /\ o[2] # "submission_pending"
    BY DEF TurnsInv, StoredInv, Exists
  <2> QED BY <2>1, <2>2, <2>3, <2>4, <2>5 DEF StoredInv
<1>2. ToldOnce'
  <2>1. \A s \in Slot : (pc[s] # "idle" => serving[s] = s /\ s \notin watched)'
    BY ThreadFacts DEF TurnsInv, ToldOnce
  <2>2. \A u \in Thread : pc'[u] = "watch" => pc[u] = "watch" /\ target'[u] = target[u] /\ u # t
    OBVIOUS
  <2>3. ASSUME NEW u \in Thread, pc'[u] = "watch"
        PROVE  target'[u] \notin watched' /\ pc'[target'[u]] = "idle"
    <3>1. target[u] \in Slot /\ target[u] \in Thread /\ target[u] \notin watched /\ pc[target[u]] = "idle"
      BY <2>2, <2>3, ThreadFacts, SlotFacts DEF TurnsInv, LaunchInv, Aims, ToldOnce
    <3> QED BY <2>2, <2>3, <3>1
  <2>4. ASSUME NEW u \in Thread, pc'[u] = "watch", NEW v \in Thread, pc'[v] = "watch", target'[v] = target'[u]
        PROVE  v = u
    BY <2>2, <2>4 DEF TurnsInv, ToldOnce
  <2> QED BY <2>1, <2>3, <2>4 DEF ToldOnce
<1>3. OwnCopies'
  <2>1. \A s \in Slot : (pc[s] \in Locked => seen[s].status = job[s].status)'
    BY ThreadFacts DEF TurnsInv, OwnCopies
  <2>2. \A s \in Slot : (pc[s] \in {"recover", "choose", "reserve"} => seen[s].status = "completed")'
    BY ThreadFacts DEF TurnsInv, OwnCopies
  <2>3. \A r \in Run : (pc[Entry(r)] \in {"touch", "chain", "recover", "choose", "reserve"} =>
                          msg[Entry(r)].status = seen[Entry(r)].status)'
    BY ThreadFacts, SlotFacts DEF TurnsInv, OwnCopies
  <2> QED BY <2>1, <2>2, <2>3 DEF OwnCopies
<1>4. MessagesOn /\ JobsOn
  BY DEF MessagesOn, JobsOn, Exists
<1>5. AnsweredLast'
  <2>1. \A s \in Slot : pc'[s] \in BeforeAnswer => pc[s] \in BeforeAnswer
    BY ThreadFacts
  <2>2. \A u \in Thread : pc'[u] = "watch" =>
           target'[u] \in Slot /\ Unanswered(target'[u]) /\ pc[target'[u]] = "idle"
    BY SlotFacts DEF TurnsInv, LaunchInv, Aims, ToldOnce, AnsweredLast
  <2>3. watched' \subseteq Slot
    BY DEF TurnsInv, LaunchInv, TypeOK
  <2> QED BY <1>4, <2>1, <2>2, <2>3, AnsweredKept
<1>6. TurnOrder'
  <2>1. \A u \in Thread : pc'[u] = "reserve" => target'[u] \in FollowUp
    BY DEF LaunchInv, Aims
  <2>2. \A u \in Thread : pc'[u] = "reserve" =>
           \/ pc[u] = "reserve" /\ target'[u] = target[u]
           \/ pc[u] = "choose" /\ target'[u] \in FollowUp /\ InTurn(target'[u]) /\ Answers(target'[u]) = u
    BY <2>1
  <2> QED BY <1>4, <2>2, TurnOrderKept
<1> QED BY <1>1, <1>2, <1>3, <1>5, <1>6 DEF TurnsInv

\* The job is read under its lock.
LEMMA TakeLockTurns == ASSUME Poller = {}, TurnsInv, NEW t \in Thread, TakeLock(t) PROVE TurnsInv'
<1>0. LaunchInv' /\ pc \in [Thread -> PCs]
  BY TakeLockKeeps DEF TurnsInv, LaunchInv, TypeOK
<1>1. /\ pc[t] \in {"lock"} /\ pc'[t] \in {"session"}
      /\ \A u \in Thread : u # t => pc'[u] = pc[u]
  BY <1>0 DEF TakeLock, Goes
<1>2. UNCHANGED <<msg, exec, watched, calls, serving, target, todo, job>>
  BY DEF TakeLock, rest, rows, provider
<1>3. \A s \in Slot : seen'[s].status = seen[s].status \/ (s = t /\ pc[t] = "lock")
  BY <1>1, ThreadFacts DEF TurnsInv, LaunchInv, TypeOK, TakeLock
<1>4. t \in Slot => seen'[t].status = job[t].status
  BY <1>1, Serves, ThreadFacts DEF TurnsInv, LaunchInv, TypeOK, TakeLock
<1> QED BY <1>0, <1>1, <1>2, <1>3, <1>4, TurnsQuiet DEF BeforeAnswer, Locked

\* The session is read.
LEMMA ReadSessionTurns == ASSUME Poller = {}, TurnsInv, NEW t \in Thread, ReadSession(t) PROVE TurnsInv'
<1>0. LaunchInv' /\ pc \in [Thread -> PCs]
  BY ReadSessionKeeps DEF TurnsInv, LaunchInv, TypeOK
<1>1. /\ pc[t] \in {"session"} /\ pc'[t] \in {"learn", "message"}
      /\ \A u \in Thread : u # t => pc'[u] = pc[u]
  BY <1>0 DEF ReadSession, Goes
<1>2. UNCHANGED <<msg, exec, watched, calls, serving, target, todo, job, seen>>
  BY DEF ReadSession, rest, rows, provider
<1> QED BY <1>0, <1>1, <1>2, TurnsQuiet DEF BeforeAnswer, Locked, Guarded, Launching

\* The session is saved.
LEMMA LearnSessionTurns == ASSUME Poller = {}, TurnsInv, NEW t \in Thread, LearnSession(t) PROVE TurnsInv'
<1>0. LaunchInv' /\ pc \in [Thread -> PCs]
  BY LearnSessionKeeps DEF TurnsInv, LaunchInv, TypeOK
<1>1. /\ pc[t] \in {"learn"} /\ pc'[t] \in {"message"}
      /\ \A u \in Thread : u # t => pc'[u] = pc[u]
  BY <1>0 DEF LearnSession, Goes
<1>2. UNCHANGED <<msg, exec, watched, calls, serving, target, todo, job, seen>>
  BY DEF LearnSession, rest, local, provider, SaveView
<1> QED BY <1>0, <1>1, <1>2, TurnsQuiet DEF BeforeAnswer, Locked, Guarded, Launching

\* The session is saved.
LEMMA TouchSessionTurns == ASSUME Poller = {}, TurnsInv, NEW t \in Thread, TouchSession(t) PROVE TurnsInv'
<1>0. LaunchInv' /\ pc \in [Thread -> PCs]
  BY TouchSessionKeeps DEF TurnsInv, LaunchInv, TypeOK
<1>1. /\ pc[t] \in {"touch"} /\ pc'[t] \in {"idle", "chain"}
      /\ \A u \in Thread : u # t => pc'[u] = pc[u]
  BY <1>0 DEF TouchSession, Goes
<1>2. UNCHANGED <<msg, exec, watched, calls, serving, target, todo, job, seen>>
  BY DEF TouchSession, rest, local, provider, SaveView
<1> QED BY <1>0, <1>1, <1>2, TurnsQuiet DEF BeforeAnswer, Locked, Guarded, Launching

\* The session is saved.
LEMMA ResaveSessionTurns == ASSUME Poller = {}, TurnsInv, NEW t \in Thread, ResaveSession(t) PROVE TurnsInv'
<1>0. LaunchInv' /\ pc \in [Thread -> PCs]
  BY ResaveSessionKeeps DEF TurnsInv, LaunchInv, TypeOK
<1>1. /\ pc[t] \in {"resave"} /\ pc'[t] \in {"idle", "mark"}
      /\ \A u \in Thread : u # t => pc'[u] = pc[u]
  BY <1>0 DEF ResaveSession, Goes
<1>2. UNCHANGED <<msg, exec, watched, calls, serving, target, todo, job, seen>>
  BY DEF ResaveSession, rest, local, provider, SaveView
<1> QED BY <1>0, <1>1, <1>2, TurnsQuiet DEF BeforeAnswer, Locked, Guarded, Launching

\* The run ends.
LEMMA CompleteRunTurns == ASSUME Poller = {}, TurnsInv, NEW t \in Thread, CompleteRun(t) PROVE TurnsInv'
<1>0. LaunchInv' /\ pc \in [Thread -> PCs]
  BY CompleteRunKeeps DEF TurnsInv, LaunchInv, TypeOK
<1>1. /\ pc[t] \in {"complete", "finalize"} /\ pc'[t] \in {"idle", "mark"}
      /\ \A u \in Thread : u # t => pc'[u] = pc[u]
  BY <1>0 DEF CompleteRun, Goes
<1>2. UNCHANGED <<msg, exec, watched, calls, serving, target, todo, job, seen>>
  BY DEF CompleteRun, rest, local, provider
<1> QED BY <1>0, <1>1, <1>2, TurnsQuiet DEF BeforeAnswer, Locked, Guarded, Launching

\* The callback on the stack has returned.
LEMMA NestedReturnsTurns == ASSUME Poller = {}, TurnsInv, NEW t \in Thread, NestedReturns(t) PROVE TurnsInv'
<1>0. LaunchInv' /\ pc \in [Thread -> PCs]
  BY NestedReturnsKeeps DEF TurnsInv, LaunchInv, TypeOK
<1>1. /\ pc[t] \in {"nested"} /\ pc'[t] \in {"reread", "idle", "resave", "mark"}
      /\ \A u \in Thread : u # t => pc'[u] = pc[u]
  BY <1>0 DEF NestedReturns, Goes, AfterWatch, AfterLaunch
<1>2. UNCHANGED <<msg, exec, watched, calls, serving, target, todo, job, seen>>
  BY DEF NestedReturns, rest, local, rows, provider
<1> QED BY <1>0, <1>1, <1>2, TurnsQuiet DEF BeforeAnswer, Locked, Guarded, Launching

\* The session is read.
LEMMA RereadSessionTurns == ASSUME Poller = {}, TurnsInv, NEW t \in Thread, RereadSession(t) PROVE TurnsInv'
<1>0. LaunchInv' /\ pc \in [Thread -> PCs]
  BY RereadSessionKeeps DEF TurnsInv, LaunchInv, TypeOK
<1>1. /\ pc[t] \in {"reread"} /\ pc'[t] \in {"resync"}
      /\ \A u \in Thread : u # t => pc'[u] = pc[u]
  BY <1>0 DEF RereadSession, Goes
<1>2. UNCHANGED <<msg, exec, watched, calls, serving, target, todo, job, seen>>
  BY DEF RereadSession, rest, rows, provider
<1> QED BY <1>0, <1>1, <1>2, TurnsQuiet DEF BeforeAnswer, Locked, Guarded, Launching

\* The thread is done.
LEMMA SaveTurnFailsTurns == ASSUME Poller = {}, TurnsInv, NEW t \in Thread, SaveTurnFails(t) PROVE TurnsInv'
<1>0. LaunchInv' /\ pc \in [Thread -> PCs]
  BY SaveTurnFailsKeeps DEF TurnsInv, LaunchInv, TypeOK
<1>1. /\ pc[t] \in {"save"} /\ pc'[t] \in {"idle"}
      /\ \A u \in Thread : u # t => pc'[u] = pc[u]
  BY <1>0 DEF SaveTurnFails, Goes
<1>2. UNCHANGED <<msg, exec, watched, calls, serving, target, todo, job, seen>>
  BY DEF SaveTurnFails, rest, local, rows, provider
<1> QED BY <1>0, <1>1, <1>2, TurnsQuiet DEF BeforeAnswer, Locked, Guarded, Launching

\* A job of the active run that has completed is answered.
LEMMA ReadForChainTurns == ASSUME Poller = {}, TurnsInv, NEW t \in Thread, ReadForChain(t) PROVE TurnsInv'
<1>0. LaunchInv' /\ pc \in [Thread -> PCs]
  BY ReadForChainKeeps DEF TurnsInv, LaunchInv, TypeOK
<1>1. /\ pc[t] = "chain" /\ pc'[t] \in {"mark", "recover", "complete"}
      /\ pc'[t] = "recover" => seen[t].status = "completed"
      /\ \A u \in Thread : u # t => pc'[u] = pc[u]
  BY <1>0 DEF ReadForChain, Goes
<1>2. UNCHANGED <<msg, exec, watched, calls, serving, target, todo, job, seen>>
  BY DEF ReadForChain, rows, provider
<1> QED BY <1>0, <1>1, <1>2, TurnsQuiet DEF BeforeAnswer, Locked, Guarded, Launching

\* The next turn is chosen.
LEMMA ChooseTurns == ASSUME Poller = {}, TurnsInv, NEW t \in Thread, Choose(t) PROVE TurnsInv'
<1>0. LaunchInv' /\ pc \in [Thread -> PCs] /\ target \in [Thread -> FollowUp \cup {NoSlot}]
  BY ChooseKeeps DEF TurnsInv, LaunchInv, TypeOK
<1> DEFINE next == NextTurn(serving[t])
<1>1. pc[t] = "choose" /\ target' = [target EXCEPT ![t] = next]
  BY DEF Choose
<1>2. UNCHANGED <<msg, exec, watched, calls, serving, todo, job, seen>>
  BY DEF Choose, rows, provider
<1>3. t \in Slot /\ serving[t] = t
  BY <1>1, ThreadFacts, Serves DEF TurnsInv, LaunchInv, Roles, Guarded, Launching
<1>4. /\ pc'[t] \in {"complete", "reserve", "mark"}
      /\ \A u \in Thread : u # t => pc'[u] = pc[u]
      /\ pc'[t] = "reserve" =>
           next # NoSlot /\ msg[next].status = "none" /\ (ByReviewer(t) \/ Turns(RunOf(t), FALSE) > 0)
  <2> HIDE DEF next
  <2>1. \/ Goes(t, "complete")
        \/ /\ next # NoSlot
           /\ Goes(t, IF msg[next].status = "none"
                      THEN IF ByReviewer(t) \/ Turns(RunOf(t), FALSE) > 0 THEN "reserve" ELSE "mark"
                      ELSE IF msg[next].status \in Waiting THEN "mark" ELSE "complete")
    BY <1>3 DEF Choose, next
  <2> QED BY <1>0, <2>1 DEF Goes
<1>5. pc'[t] = "reserve" => InTurn(target'[t]) /\ Answers(target'[t]) = t
  <2>1. SUFFICES ASSUME pc'[t] = "reserve" PROVE InTurn(next) /\ Answers(next) = t
    BY <1>0, <1>1
  <2>2. next = NextTurn(t)
    BY <1>3
  <2> HIDE DEF next
  <2> QED BY <1>1, <1>3, <1>4, <2>1, <2>2, Chosen
<1>6. \A u \in Thread : u # t => target'[u] = target[u]
  BY <1>0, <1>1
<1> HIDE DEF next
<1> QED BY <1>0, <1>1, <1>2, <1>3, <1>4, <1>5, <1>6, TurnsQuiet DEF BeforeAnswer, Locked, Guarded, Launching

\* The job gets no other status.
LEMMA MarkProcessedTurns == ASSUME Poller = {}, TurnsInv, NEW t \in Thread, MarkProcessed(t) PROVE TurnsInv'
<1>0. LaunchInv' /\ pc \in [Thread -> PCs] /\ job \in [Slot -> JobRow] /\ seen \in [Thread -> JobRow]
  BY MarkProcessedKeeps DEF TurnsInv, LaunchInv, TypeOK
<1>1. /\ pc[t] = "mark" /\ pc'[t] = "idle"
      /\ \A u \in Thread : u # t => pc'[u] = pc[u]
  BY <1>0 DEF MarkProcessed, Goes
<1>2. UNCHANGED <<msg, exec, watched, calls, serving, target, todo, seen>>
  BY DEF MarkProcessed, local, provider
<1>3. t \in Slot /\ serving[t] = t
  BY <1>1, ThreadFacts, Serves DEF TurnsInv, LaunchInv, Roles, Guarded, Launching
<1>4. seen[t].status = job[t].status
  BY <1>1, <1>3 DEF TurnsInv, OwnCopies, Locked
<1>5. \A s \in Slot : job'[s].status = job[s].status
  <2>1. job' = [job EXCEPT ![t] = [seen[t] EXCEPT !.processed = TRUE]]
    BY <1>3 DEF MarkProcessed
  <2>2. [seen[t] EXCEPT !.processed = TRUE].status = seen[t].status
    BY <1>0, Rows
  <2> QED BY <1>0, <1>4, <2>1, <2>2
<1> QED BY <1>0, <1>1, <1>2, <1>5, TurnsQuiet DEF BeforeAnswer, Locked, Guarded, Launching

\* Only a message that exists is claimed.
LEMMA RecheckTurns == ASSUME Poller = {}, TurnsInv, NEW t \in Thread, Recheck(t) PROVE TurnsInv'
<1>0. LaunchInv' /\ pc \in [Thread -> PCs]
  BY RecheckKeeps DEF TurnsInv, LaunchInv, TypeOK
<1>1. /\ pc[t] \in {"check", "acquire"} /\ pc'[t] \in {"claim", "idle", "resave", "mark"}
      /\ pc'[t] = "claim" => msg[target[t]] = Reserved
      /\ \A u \in Thread : u # t => pc'[u] = pc[u]
  BY <1>0 DEF Recheck, Goes, AfterLaunch, CanLaunch
<1>2. UNCHANGED <<msg, exec, watched, calls, serving, target, todo, job, seen>>
  BY DEF Recheck, rows, local, provider
<1>3. pc'[t] = "claim" => Exists(target'[t])
  BY <1>1, <1>2 DEF Reserved, Exists
<1> QED BY <1>0, <1>1, <1>2, <1>3, TurnsQuiet DEF BeforeAnswer, Locked, Guarded, Launching

\* Messages without a job are listed.
LEMMA ListTurns == ASSUME Poller = {}, TurnsInv, NEW t \in Thread, List(t) PROVE TurnsInv'
<1>0. LaunchInv' /\ pc \in [Thread -> PCs] /\ todo \in [Thread -> SUBSET (FollowUp \X (MsgStatuses \ Unsent))]
  BY ListKeeps DEF TurnsInv, LaunchInv, TypeOK
<1>1. /\ pc[t] \in {"list", "supersede"}
      /\ pc'[t] \in {"idle", "recover", "start", "supersede", "cancel", "drop"}
      /\ \A u \in Thread : u # t => pc'[u] = pc[u]
  BY <1>0 DEF List, Goes, AfterCancel
<1>2. UNCHANGED <<msg, exec, watched, calls, serving, target, job, seen>>
  BY DEF List, rows, provider
<1>3. t \notin Slot
  BY <1>1 DEF TurnsInv, LaunchInv, Roles, Locked, Guarded, Launching
<1>4. \A u \in Thread : \A o \in todo'[u] : o \in todo[u] \/ (Exists(o[1]) /\ o[2] # "submission_pending")
  <2>1. ASSUME NEW rs, NEW o \in Orphans(rs) PROVE Exists(o[1]) /\ o[2] # "submission_pending"
    <3>1. PICK s \in FollowUp : o = <<s, Resolution[msg[s].status]>> /\ msg[s].status \in DOMAIN Resolution
      BY <2>1 DEF Orphans
    <3>2. msg[s].status \in {"reserved", "submission_pending"}
      BY <3>1 DEF Resolution
    <3> QED BY <3>1, <3>2 DEF Resolution, Exists
  <2>2. PICK rs : todo' = [todo EXCEPT ![t] = Orphans(rs)]
    BY DEF List
  <2> QED BY <1>0, <2>1, <2>2
<1> QED BY <1>0, <1>1, <1>2, <1>3, <1>4, TurnsQuiet

\* A round of the reconciler begins.
LEMMA ReconcileTurns == ASSUME Poller = {}, TurnsInv, NEW t \in Thread, Reconcile(t) PROVE TurnsInv'
<1>0. LaunchInv' /\ pc \in [Thread -> PCs]
  BY ReconcileKeeps DEF TurnsInv, LaunchInv, TypeOK
<1>1. /\ pc'[t] = "list"
      /\ \A u \in Thread : u # t => pc'[u] = pc[u]
  BY <1>0 DEF Reconcile, Goes
<1>2. UNCHANGED <<msg, exec, watched, calls, serving, target, todo, job, seen>>
  BY DEF Reconcile, rows, provider
<1>3. t \notin Slot
  BY ThreadFacts DEF Reconcile
<1> QED BY <1>0, <1>1, <1>2, <1>3, TurnsQuiet

\* A turn of the user is submitted.
LEMMA SubmitTurns == ASSUME Poller = {}, TurnsInv, Submit PROVE TurnsInv'
<1>0. LaunchInv' /\ pc \in [Thread -> PCs] /\ Submitter \in Thread
  BY SubmitKeeps, ThreadFacts DEF TurnsInv, LaunchInv, TypeOK
<1>1. /\ pc'[Submitter] = "list"
      /\ \A u \in Thread : u # Submitter => pc'[u] = pc[u]
  BY <1>0 DEF Submit, Goes
<1>2. UNCHANGED <<msg, exec, watched, calls, serving, target, todo, job, seen>>
  BY DEF Submit, rows, provider
<1>3. Submitter \notin Slot
  BY ThreadFacts
<1> QED BY <1>0, <1>1, <1>2, <1>3, TurnsQuiet

\* A step of a thread on the way of a follow-up to the CLI.
LEMMA TurnsLaunch ==
  ASSUME Poller = {}, TurnsInv, LaunchInv', MessagesOn, NEW t \in Thread,
         UNCHANGED <<watched, serving, seen>>,
         \A s \in Slot : calls[s] # 0 => calls'[s] # 0,
         \A s \in Slot : exec'[s] = exec[s] \/ calls'[s] # 0,
         \A s \in Slot : \/ job'[s] = job[s]
                         \/ /\ job[s].status = "none" /\ calls[s] # 0
                            /\ msg'[s].status # "submission_pending"
                            /\ \A u \in Thread : pc'[u] = "save" => target'[u] # s,
         \A s \in Slot : msg'[s].status = "submission_pending" =>
           msg[s].status = "submission_pending" \/ (calls[s] = 0 /\ job' = job),
         \A r \in Run : msg'[Entry(r)] = msg[Entry(r)],
         \A u \in Thread : u # t => pc'[u] = pc[u] /\ target'[u] = target[u],
         \A u \in Thread : \A o \in todo'[u] : o \in todo[u] \/ (Exists(o[1]) /\ o[2] # "submission_pending"),
         pc'[t] \in {"claim", "execute", "save"} => target'[t] \in FollowUp /\ Exists(target'[t]),
         pc'[t] = "save" => calls'[target'[t]] # 0 /\ job[target'[t]].status = "none",
         pc'[t] = "watch" => job[target'[t]].status = "none",
         pc'[t] # "reserve",
         t \in Slot => pc[t] \in Locked /\ pc'[t] \notin BeforeAnswer
  PROVE  TurnsInv'
<1>l. t \in Slot => pc[t] \notin {"idle", "store"}
  BY DEF Locked, Guarded, Launching
<1>j. JobsOn
  BY DEF JobsOn
<1>1. StoredInv'
  <2>1. \A s \in Slot : (calls[s] = 0 => job[s].status = "none" /\ exec[s] = "none")'
    BY DEF TurnsInv, StoredInv
  <2>2. \A s \in Slot : (msg[s].status = "submission_pending" => job[s].status = "none")'
    BY DEF TurnsInv, StoredInv
  <2>3. \A r \in Run : (calls[Entry(r)] = 0 => ~Exists(Entry(r)))'
    BY SlotFacts DEF TurnsInv, StoredInv, Exists
  <2>4. \A u \in Thread : (pc[u] \in {"claim", "execute", "save"} => Exists(target[u]))'
    <3>1. \A u \in Thread : pc'[u] \in {"claim", "execute", "save"} => target'[u] \in Slot /\ Exists(target'[u])
      BY SlotFacts DEF TurnsInv, StoredInv, LaunchInv, Aims, Launching
    <3> QED BY <3>1 DEF MessagesOn, Exists
  <2>5. \A u \in Thread : (pc[u] = "save" => calls[target[u]] # 0 /\ job[target[u]].status = "none")'
    <3>1. ASSUME NEW u \in Thread, pc'[u] = "save"
          PROVE  target'[u] \in Slot /\ calls'[target'[u]] # 0 /\ job[target'[u]].status = "none"
      BY <3>1, SlotFacts DEF TurnsInv, StoredInv, LaunchInv, Aims, Launching
    <3>2. ASSUME NEW u \in Thread, pc'[u] = "save" PROVE job'[target'[u]].status = "none"
      BY <3>1, <3>2
    <3> QED BY <3>1, <3>2
  <2>6. \A u \in Thread : \A o \in todo'[u] : Exists(o[1])' /\ o[2] # "submission_pending"
    <3>1. \A u \in Thread : \A o \in todo'[u] : o[1] \in Slot
      BY SlotFacts DEF LaunchInv, TypeOK
    <3>2. \A u \in Thread : \A o \in todo'[u] : Exists(o[1]) /\ o[2] # "submission_pending"
      BY DEF TurnsInv, StoredInv
    <3> QED BY <3>1, <3>2 DEF MessagesOn, Exists
  <2> QED BY <2>1, <2>2, <2>3, <2>4, <2>5, <2>6 DEF StoredInv
<1>w. ASSUME NEW u \in Thread, pc'[u] = "watch"
      PROVE  /\ target'[u] \in Slot /\ target'[u] # t
             /\ target'[u] \notin watched /\ pc[target'[u]] = "idle" /\ Unanswered(target'[u])
             /\ u # t => pc[u] = "watch" /\ target'[u] = target[u]
             /\ u = t <=> job[target'[u]].status = "none"
  <2>1. target'[u] \in Slot
    BY <1>w, SlotFacts DEF LaunchInv, Aims
  <2>2. CASE u = t
    <3>1. job[target'[u]].status = "none"
      BY <1>w, <2>2
    <3>2. target'[u] \notin watched /\ pc[target'[u]] = "idle" /\ Unanswered(target'[u])
      BY <2>1, <3>1, Serves, NotStored DEF TurnsInv, LaunchInv, TypeOK
    <3> QED BY <1>l, <2>1, <2>2, <3>1, <3>2
  <2>3. CASE u # t
    <3>1. pc[u] = "watch" /\ target'[u] = target[u]
      BY <1>w, <2>3
    <3> QED BY <1>l, <2>1, <2>3, <3>1 DEF TurnsInv, LaunchInv, Aims, ToldOnce, AnsweredLast
  <2> QED BY <2>2, <2>3
<1>2. ToldOnce'
  <2>1. \A s \in Slot : (pc[s] # "idle" => serving[s] = s /\ s \notin watched)'
    BY <1>l, ThreadFacts DEF TurnsInv, ToldOnce
  <2>2. ASSUME NEW u \in Thread, pc'[u] = "watch"
        PROVE  target'[u] \notin watched' /\ pc'[target'[u]] = "idle"
    BY <1>w, <2>2, ThreadFacts
  <2>3. ASSUME NEW u \in Thread, pc'[u] = "watch", NEW v \in Thread, pc'[v] = "watch", target'[v] = target'[u]
        PROVE  v = u
    BY <1>w, <2>3 DEF TurnsInv, ToldOnce
  <2> QED BY <2>1, <2>2, <2>3 DEF ToldOnce
<1>3. OwnCopies'
  <2>0. \A s \in Slot : pc[s] # "idle" => job[s].status # "none"
    BY Serves
  <2>1. \A s \in Slot : (pc[s] \in Locked => seen[s].status = job[s].status)'
    <3>1. ASSUME NEW s \in Slot, pc'[s] \in Locked PROVE pc[s] \in Locked /\ pc[s] # "idle"
      BY <3>1, ThreadFacts DEF Locked, Guarded, Launching
    <3> QED BY <2>0, <3>1 DEF TurnsInv, OwnCopies
  <2>2. \A s \in Slot : (pc[s] \in {"recover", "choose", "reserve"} => seen[s].status = "completed")'
    BY ThreadFacts DEF TurnsInv, OwnCopies, BeforeAnswer
  <2>3. \A r \in Run : (pc[Entry(r)] \in {"touch", "chain", "recover", "choose", "reserve"} =>
                          msg[Entry(r)].status = seen[Entry(r)].status)'
    BY ThreadFacts, SlotFacts DEF TurnsInv, OwnCopies, BeforeAnswer
  <2> QED BY <2>1, <2>2, <2>3 DEF OwnCopies
<1>5. AnsweredLast'
  <2>1. \A s \in Slot : pc'[s] \in BeforeAnswer => pc[s] \in BeforeAnswer
    BY ThreadFacts
  <2>2. \A u \in Thread : pc'[u] = "watch" =>
           target'[u] \in Slot /\ Unanswered(target'[u]) /\ pc[target'[u]] = "idle"
    BY <1>w
  <2>3. watched' \subseteq Slot
    BY DEF TurnsInv, LaunchInv, TypeOK
  <2> QED BY <2>1, <2>2, <2>3, AnsweredKept
<1>6. TurnOrder'
  <2>1. \A u \in Thread : pc'[u] = "reserve" => pc[u] = "reserve" /\ target'[u] = target[u]
    OBVIOUS
  <2> QED BY <1>j, <2>1, TurnOrderKept
<1> QED BY <1>1, <1>2, <1>3, <1>5, <1>6 DEF TurnsInv

\* The follow-up that is reserved was chosen.
LEMMA ReserveTurns == ASSUME Poller = {}, TurnsInv, NEW t \in Thread, Reserve(t) PROVE TurnsInv'
<1>0. LaunchInv' /\ pc \in [Thread -> PCs] /\ msg \in [Slot -> MsgRow]
  BY ReserveKeeps DEF TurnsInv, LaunchInv, TypeOK
<1>1. /\ pc[t] = "reserve" /\ pc'[t] \in {"acquire", "idle", "resave", "mark"}
      /\ \A u \in Thread : u # t => pc'[u] = pc[u]
  BY <1>0 DEF Reserve, Goes, AfterLaunch
<1>2. UNCHANGED <<watched, serving, seen, calls, exec, job, target, todo>>
  BY DEF Reserve, provider, local
<1>3. t \in Slot /\ target[t] \in FollowUp /\ target[t] \in Slot
  BY <1>1, ThreadFacts, SlotFacts DEF TurnsInv, LaunchInv, Roles, Aims, Guarded, Launching
<1>4. /\ \A s \in Slot : msg'[s] = msg[s] \/ (s = target[t] /\ msg'[s].status = "reserved")
  <2>1. msg' = msg \/ msg' = [msg EXCEPT ![target[t]] = Reserved]
    BY DEF Reserve
  <2> QED BY <1>0, <1>3, <2>1 DEF Reserved
<1>5. MessagesOn
  BY <1>1, <1>3, <1>4, SlotFacts DEF MessagesOn, BeforeAnswer, Exists
<1>6. \A r \in Run : msg'[Entry(r)] = msg[Entry(r)]
  BY <1>3, <1>4, SlotFacts
<1>7. \A s \in Slot : msg'[s].status = "submission_pending" => msg[s].status = "submission_pending"
  BY <1>4
<1> QED BY <1>0, <1>1, <1>2, <1>5, <1>6, <1>7, TurnsLaunch DEF BeforeAnswer, Locked

\* A message that is claimed has not been sent.
LEMMA ClaimTurns == ASSUME Poller = {}, TurnsInv, NEW t \in Thread, Claim(t) PROVE TurnsInv'
<1>0. LaunchInv' /\ pc \in [Thread -> PCs] /\ msg \in [Slot -> MsgRow]
  BY ClaimKeeps DEF TurnsInv, LaunchInv, TypeOK
<1>1. /\ pc[t] = "claim" /\ pc'[t] = "execute"
      /\ \A u \in Thread : u # t => pc'[u] = pc[u]
  BY <1>0 DEF Claim, Goes
<1>2. UNCHANGED <<watched, serving, seen, calls, exec, job, target, todo>>
  BY DEF Claim, provider, local
<1>3. target[t] \in FollowUp /\ target[t] \in Slot /\ calls[target[t]] = 0 /\ Exists(target[t])
  BY <1>1, SlotFacts DEF TurnsInv, LaunchInv, Aims, LaunchesFresh, StoredInv, Launching
<1>4. /\ \A s \in Slot : msg'[s] = msg[s] \/ (s = target[t] /\ msg'[s].status = "submission_pending")
  BY <1>0, <1>3 DEF Claim
<1>5. MessagesOn
  BY <1>3, <1>4, SlotFacts DEF MessagesOn, Exists
<1>6. \A r \in Run : msg'[Entry(r)] = msg[Entry(r)]
  BY <1>3, <1>4, SlotFacts
<1>7. \A s \in Slot : msg'[s].status = "submission_pending" => msg[s].status = "submission_pending" \/ calls[s] = 0
  BY <1>3, <1>4
<1> QED BY <1>0, <1>1, <1>2, <1>3, <1>5, <1>6, <1>7, TurnsLaunch DEF BeforeAnswer, Locked, Guarded, Launching

\* A message that is sent has no job yet.
LEMMA ExecuteTurns == ASSUME Poller = {}, TurnsInv, NEW t \in Thread, Execute(t) PROVE TurnsInv'
<1>0. /\ LaunchInv' /\ pc \in [Thread -> PCs] /\ calls \in [Slot -> Nat] /\ exec \in [Slot -> JobStatuses]
  BY ExecuteKeeps DEF TurnsInv, LaunchInv, TypeOK
<1>1. /\ pc[t] = "execute" /\ pc'[t] = "save"
      /\ \A u \in Thread : u # t => pc'[u] = pc[u]
  BY <1>0 DEF Execute, Goes
<1>2. UNCHANGED <<watched, serving, seen, msg, job, target, todo>>
  BY DEF Execute, rows, local
<1>3. /\ target[t] \in FollowUp /\ target[t] \in Slot /\ calls[target[t]] = 0 /\ Exists(target[t])
      /\ job[target[t]].status = "none"
  BY <1>1, SlotFacts DEF TurnsInv, LaunchInv, Aims, LaunchesFresh, StoredInv, Launching
<1>4. \A s \in Slot : \/ s # target[t] /\ calls'[s] = calls[s] /\ exec'[s] = exec[s]
                      \/ s = target[t] /\ calls'[s] = 1
  BY <1>0, <1>3 DEF Execute
<1>5. MessagesOn
  BY <1>2 DEF MessagesOn, Exists
<1> QED BY <1>0, <1>1, <1>2, <1>3, <1>4, <1>5, TurnsLaunch DEF BeforeAnswer, Locked, Guarded, Launching

\* A job that is saved is the first one of its message.
LEMMA SaveTurnTurns == ASSUME Poller = {}, TurnsInv, NEW t \in Thread, SaveTurn(t) PROVE TurnsInv'
<1>0. LaunchInv' /\ pc \in [Thread -> PCs] /\ msg \in [Slot -> MsgRow] /\ job \in [Slot -> JobRow]
  BY SaveTurnKeeps DEF TurnsInv, LaunchInv, TypeOK
<1>1. /\ pc[t] = "save" /\ pc'[t] = "watch"
      /\ \A u \in Thread : u # t => pc'[u] = pc[u]
  BY <1>0 DEF SaveTurn, Goes
<1>2. UNCHANGED <<watched, serving, seen, calls, exec, target, todo>>
  BY DEF SaveTurn, provider, local
<1>3. /\ target[t] \in FollowUp /\ target[t] \in Slot /\ calls[target[t]] # 0 /\ Exists(target[t])
      /\ job[target[t]].status = "none"
  BY <1>1, SlotFacts DEF TurnsInv, LaunchInv, Aims, StoredInv, Launching
<1>4. \A s \in Slot : \/ msg'[s] = msg[s] /\ job'[s] = job[s]
                      \/ s = target[t] /\ msg'[s].status = "pending"
  BY <1>0, <1>3 DEF SaveTurn
<1>5. MessagesOn
  BY <1>3, <1>4, SlotFacts DEF MessagesOn, Exists
<1>6. \A r \in Run : msg'[Entry(r)] = msg[Entry(r)]
  BY <1>3, <1>4, SlotFacts
<1>7. \A s \in Slot : msg'[s].status = "submission_pending" => msg[s].status = "submission_pending"
  BY <1>4
<1>8. \A u \in Thread : pc'[u] = "save" => target'[u] # target[t]
  <2>1. \A u \in Thread : pc[u] # "save" \/ u = t
    BY <1>1 DEF TurnsInv, LaunchInv, OneLauncher, Launching
  <2> QED BY <1>1, <2>1
<1> QED BY <1>0, <1>1, <1>2, <1>3, <1>4, <1>5, <1>6, <1>7, <1>8, TurnsLaunch DEF BeforeAnswer, Locked, Guarded, Launching

\* What is saved from a list is a message that exists.
LEMMA CancelTurns == ASSUME Poller = {}, TurnsInv, NEW t \in Thread, Cancel(t) PROVE TurnsInv'
<1>0. /\ LaunchInv' /\ pc \in [Thread -> PCs] /\ msg \in [Slot -> MsgRow]
      /\ todo \in [Thread -> SUBSET (FollowUp \X (MsgStatuses \ Unsent))]
  BY CancelKeeps DEF TurnsInv, LaunchInv, TypeOK
<1>1. PICK o \in todo[t] :
        /\ msg' = [msg EXCEPT ![o[1]] = [status |-> o[2], attached |-> FALSE]]
        /\ todo' = [todo EXCEPT ![t] = @ \ {o}]
        /\ \/ \E x \in {"idle", "recover", "start", "supersede"} : Goes(t, x)
           \/ UNCHANGED pc
  BY DEF Cancel, AfterCancel
<1>2. /\ pc[t] \in {"cancel", "drop"} /\ pc'[t] \in {"cancel", "drop", "idle", "recover", "start", "supersede"}
      /\ \A u \in Thread : u # t => pc'[u] = pc[u]
  BY <1>0, <1>1 DEF Cancel, Goes
<1>3. UNCHANGED <<watched, serving, seen, calls, exec, job, target>>
  BY DEF Cancel, provider
<1>4. t \notin Slot
  BY <1>2 DEF TurnsInv, LaunchInv, Roles, Locked, Guarded, Launching
<1>5. /\ o[1] \in FollowUp /\ o[1] \in Slot /\ o[2] \in MsgStatuses \ Unsent
      /\ Exists(o[1]) /\ o[2] # "submission_pending"
  BY <1>0, SlotFacts DEF TurnsInv, StoredInv
<1>6. \A s \in Slot : msg'[s] = msg[s] \/ (s = o[1] /\ msg'[s].status = o[2])
  BY <1>0, <1>1, <1>5
<1>7. MessagesOn
  BY <1>5, <1>6, SlotFacts DEF MessagesOn, Exists, Unsent
<1>8. \A r \in Run : msg'[Entry(r)] = msg[Entry(r)]
  BY <1>5, <1>6, SlotFacts
<1>9. \A s \in Slot : msg'[s].status = "submission_pending" => msg[s].status = "submission_pending"
  BY <1>5, <1>6
<1>10. \A u \in Thread : todo'[u] \subseteq todo[u]
  BY <1>0, <1>1
<1> QED BY <1>0, <1>2, <1>3, <1>4, <1>7, <1>8, <1>9, <1>10, TurnsLaunch

\* What is synchronised is a message that exists.
LEMMA SyncAttachedTurns == ASSUME Poller = {}, TurnsInv, NEW t \in Thread, SyncAttached(t) PROVE TurnsInv'
<1>0. /\ LaunchInv' /\ pc \in [Thread -> PCs] /\ msg \in [Slot -> MsgRow]
      /\ todo \in [Thread -> SUBSET (FollowUp \X (MsgStatuses \ Unsent))]
  BY SyncAttachedKeeps DEF TurnsInv, LaunchInv, TypeOK
<1>1. PICK o \in todo[t] :
        /\ msg' = [msg EXCEPT ![o[1]] = [status |-> o[2], attached |-> TRUE]]
        /\ \E x \in {"idle", "resave", "mark"} : Goes(t, x)
  BY DEF SyncAttached, AfterLaunch
<1>2. /\ pc[t] = "resync" /\ pc'[t] \in {"idle", "resave", "mark"}
      /\ \A u \in Thread : u # t => pc'[u] = pc[u]
  BY <1>0, <1>1 DEF SyncAttached, Goes
<1>3. UNCHANGED <<watched, serving, seen, calls, exec, job, target>>
  BY DEF SyncAttached, provider
<1>5. /\ o[1] \in FollowUp /\ o[1] \in Slot /\ o[2] \in MsgStatuses \ Unsent
      /\ Exists(o[1]) /\ o[2] # "submission_pending"
  BY <1>0, SlotFacts DEF TurnsInv, StoredInv
<1>6. \A s \in Slot : msg'[s] = msg[s] \/ (s = o[1] /\ msg'[s].status = o[2])
  BY <1>0, <1>1, <1>5
<1>7. MessagesOn
  BY <1>5, <1>6, SlotFacts DEF MessagesOn, Exists, Unsent
<1>8. \A r \in Run : msg'[Entry(r)] = msg[Entry(r)]
  BY <1>5, <1>6, SlotFacts
<1>9. \A s \in Slot : msg'[s].status = "submission_pending" => msg[s].status = "submission_pending"
  BY <1>5, <1>6
<1>10. \A u \in Thread : todo'[u] \subseteq todo[u]
  BY <1>0 DEF SyncAttached
<1> QED BY <1>0, <1>2, <1>3, <1>7, <1>8, <1>9, <1>10, TurnsLaunch DEF BeforeAnswer, Locked, Guarded, Launching

\* What is recovered is a message that exists; a job that is attached is new.
LEMMA RecoverTurns == ASSUME Poller = {}, TurnsInv, NEW t \in Thread, Recover(t) PROVE TurnsInv'
<1>0. /\ LaunchInv' /\ pc \in [Thread -> PCs] /\ msg \in [Slot -> MsgRow] /\ job \in [Slot -> JobRow]
      /\ target \in [Thread -> FollowUp \cup {NoSlot}]
      /\ todo \in [Thread -> SUBSET (FollowUp \X (MsgStatuses \ Unsent))] /\ exec \in [Slot -> JobStatuses]
  BY RecoverKeeps DEF TurnsInv, LaunchInv, TypeOK
<1>1. UNCHANGED <<watched, serving, seen, calls, exec>> /\ pc[t] = "recover" /\ GuardFree(t)
  BY DEF Recover, provider
<1>2. t \in Slot => seen[t].status = "completed"
  BY <1>1 DEF TurnsInv, OwnCopies
<1>3. ASSUME NEW s \in FollowUp, msg[s].status = "submission_pending", Attach(t, s),
             target' = [target EXCEPT ![t] = s]
      PROVE  TurnsInv'
  <2>1. /\ pc'[t] = "watch" /\ target'[t] = s
        /\ \A u \in Thread : u # t => pc'[u] = pc[u] /\ target'[u] = target[u]
    BY <1>0, <1>3 DEF Attach, Goes
  <2>2. s \in Slot /\ job[s].status = "none" /\ calls[s] # 0 /\ exec[s] # "submission_pending" /\ Exists(s)
    BY <1>0, <1>3, SlotFacts DEF Attach, TurnsInv, StoredInv, Exists, JobStatuses, Terminal
  <2>3. \A x \in Slot : \/ msg'[x] = msg[x] /\ job'[x] = job[x]
                        \/ x = s /\ msg'[x].status = "pending"
    BY <1>0, <1>3, <2>2 DEF Attach
  <2>4. MessagesOn
    BY <1>3, <2>2, <2>3, SlotFacts DEF MessagesOn, Exists
  <2>5. \A r \in Run : msg'[Entry(r)] = msg[Entry(r)]
    BY <1>3, <2>3, SlotFacts
  <2>6. \A x \in Slot : msg'[x].status = "submission_pending" => msg[x].status = "submission_pending"
    BY <2>3
  <2>7. \A u \in Thread : pc'[u] # "save"
    <3>1. \A u \in Thread : pc[u] # "save"
      BY <1>1 DEF GuardFree, HasGuard, Guarded, Launching
    <3> QED BY <2>1, <3>1
  <2>8. \A u \in Thread : \A o \in todo'[u] : o \in todo[u] \/ (Exists(o[1]) /\ o[2] # "submission_pending")
    BY <1>0, <1>3, <2>2 DEF Attach
  <2> QED BY <1>0, <1>1, <2>1, <2>2, <2>3, <2>4, <2>5, <2>6, <2>7, <2>8, TurnsLaunch
          DEF BeforeAnswer, Locked
<1>4. ASSUME NEW s \in FollowUp, Exists(s), NEW st \in {"submission_unknown", "failed"}, GiveUp(t, s, st),
             target' = [target EXCEPT ![t] = s]
      PROVE  TurnsInv'
  <2>1. /\ pc'[t] = "finalize"
        /\ \A u \in Thread : u # t => pc'[u] = pc[u] /\ target'[u] = target[u]
    BY <1>0, <1>4 DEF GiveUp, Goes
  <2>2. UNCHANGED <<job, todo>> /\ s \in Slot
    BY <1>4, SlotFacts DEF GiveUp
  <2>3. \A x \in Slot : msg'[x] = msg[x] \/ (x = s /\ msg'[x].status = st)
    BY <1>0, <1>4, <2>2 DEF GiveUp
  <2>4. MessagesOn
    BY <1>4, <2>3, SlotFacts DEF MessagesOn, Exists
  <2>5. \A r \in Run : msg'[Entry(r)] = msg[Entry(r)]
    BY <1>4, <2>3, SlotFacts
  <2>6. \A x \in Slot : msg'[x].status = "submission_pending" => msg[x].status = "submission_pending"
    BY <2>3
  <2> QED BY <1>0, <1>1, <2>1, <2>2, <2>4, <2>5, <2>6, TurnsLaunch DEF BeforeAnswer, Locked
<1>5. ASSUME NEW x \in {"check", "idle", "choose"}, Goes(t, x), UNCHANGED <<rows, todo>>,
             \A u \in Thread : u # t => target'[u] = target[u]
      PROVE  TurnsInv'
  <2>1. pc'[t] \in {"check", "idle", "choose"} /\ \A u \in Thread : u # t => pc'[u] = pc[u]
    BY <1>0, <1>5 DEF Goes
  <2>2. UNCHANGED <<msg, job, todo>>
    BY <1>5 DEF rows
  <2> QED BY <1>0, <1>1, <1>2, <1>5, <2>1, <2>2, TurnsQuiet DEF BeforeAnswer, Locked, Guarded, Launching
<1>6. ASSUME NEW r, NEW s \in Unattached(r, "submission_pending"), RecoverPending(t, s),
             target' = [target EXCEPT ![t] = s]
      PROVE  TurnsInv'
  <2>1. s \in FollowUp /\ msg[s].status = "submission_pending"
    BY <1>6 DEF Unattached
  <2> QED BY <1>3, <1>4, <1>6, <2>1 DEF RecoverPending, Exists
<1>7. ASSUME NEW r, NEW s \in Unattached(r, "reserved"), RecoverReserved(t, s),
             target' = [target EXCEPT ![t] = s]
      PROVE  TurnsInv'
  <2>1. s \in FollowUp /\ msg[s].status = "reserved"
    BY <1>7 DEF Unattached
  <2>2. \A u \in Thread : u # t => target'[u] = target[u]
    BY <1>0, <1>7
  <2>3. CASE Goes(t, "check") /\ UNCHANGED <<rows, todo>>
    BY <1>5, <2>2, <2>3
  <2>4. CASE GiveUp(t, s, "failed")
    BY <1>4, <1>7, <2>1, <2>4 DEF Exists
  <2> QED BY <1>7, <2>3, <2>4 DEF RecoverReserved
<1>8. \/ \E r : \E s \in Unattached(r, "submission_pending") : RecoverPending(t, s) /\ target' = [target EXCEPT ![t] = s]
      \/ \E r : \E s \in Unattached(r, "reserved") : RecoverReserved(t, s) /\ target' = [target EXCEPT ![t] = s]
      \/ \E x \in {"idle", "choose"} : Goes(t, x) /\ UNCHANGED <<rows, target, todo>>
  BY DEF Recover
<1>9. ASSUME NEW x \in {"idle", "choose"}, Goes(t, x), UNCHANGED <<rows, target, todo>> PROVE TurnsInv'
  BY <1>5, <1>9
<1> QED BY <1>6, <1>7, <1>8, <1>9

\* The copy of a job that has ended is saved by its own thread.
LEMMA StoreJobTurns == ASSUME Poller = {}, TurnsInv, NEW t \in Thread, StoreJob(t) PROVE TurnsInv'
<1>0. /\ LaunchInv' /\ pc \in [Thread -> PCs] /\ job \in [Slot -> JobRow]
  BY StoreJobKeeps DEF TurnsInv, LaunchInv, TypeOK
<1>1. /\ pc[t] = "store" /\ pc'[t] \in {"lock", "session"}
      /\ \A u \in Thread : u # t => pc'[u] = pc[u]
  BY <1>0 DEF StoreJob, Goes
<1>2. UNCHANGED <<msg, exec, watched, calls, serving, seen, target, todo>>
  BY DEF StoreJob, local, provider
<1>3. t \in Slot /\ serving[t] = t /\ job[t].status # "none" /\ seen[t].status # "none"
  BY <1>1, ThreadFacts, Serves DEF TurnsInv, LaunchInv, Roles, Locked, Guarded, Launching
<1>4. job'[t] = seen[t] /\ \A s \in Slot : s # t => job'[s] = job[s]
  BY <1>0, <1>3 DEF StoreJob
<1>w. \A u \in Thread : pc'[u] \in {"save", "watch", "reserve"} => pc[u] = pc'[u]
  BY <1>1
<1>5. StoredInv'
  <2>1. \A s \in Slot : /\ (calls[s] = 0 => job[s].status = "none" /\ exec[s] = "none")'
                        /\ (msg[s].status = "submission_pending" => job[s].status = "none")'
    BY <1>2, <1>3, <1>4 DEF TurnsInv, StoredInv
  <2>2. \A r \in Run : (calls[Entry(r)] = 0 => ~Exists(Entry(r)))'
    BY <1>2 DEF TurnsInv, StoredInv, Exists
  <2>3. \A u \in Thread : (pc[u] \in {"claim", "execute", "save"} => Exists(target[u]))'
    BY <1>1, <1>2 DEF TurnsInv, StoredInv, Exists
  <2>4. ASSUME NEW u \in Thread, pc'[u] = "save" PROVE calls'[target'[u]] # 0 /\ job'[target'[u]].status = "none"
    <3>1. pc[u] = "save" /\ target'[u] = target[u]
      BY <1>2, <1>w, <2>4
    <3>2. target[u] \in Slot
      BY <3>1, SlotFacts DEF TurnsInv, LaunchInv, Aims, Launching
    <3> QED BY <1>2, <1>3, <1>4, <3>1, <3>2 DEF TurnsInv, StoredInv
  <2>5. \A u \in Thread : \A o \in todo'[u] : Exists(o[1])' /\ o[2] # "submission_pending"
    BY <1>2 DEF TurnsInv, StoredInv, Exists
  <2> QED BY <2>1, <2>2, <2>3, <2>4, <2>5 DEF StoredInv
<1>6. ToldOnce'
  <2>1. \A s \in Slot : (pc[s] # "idle" => serving[s] = s /\ s \notin watched)'
    BY <1>1, <1>2, ThreadFacts DEF TurnsInv, ToldOnce
  <2>2. ASSUME NEW u \in Thread, pc'[u] = "watch"
        PROVE  target'[u] \notin watched' /\ pc'[target'[u]] = "idle"
    <3>1. pc[u] = "watch" /\ target[u] \in Slot
      BY <1>w, <2>2, SlotFacts DEF TurnsInv, LaunchInv, Aims
    <3> QED BY <1>1, <1>2, <3>1, ThreadFacts DEF TurnsInv, ToldOnce
  <2>3. ASSUME NEW u \in Thread, pc'[u] = "watch", NEW v \in Thread, pc'[v] = "watch", target'[v] = target'[u]
        PROVE  v = u
    BY <1>w, <1>2, <2>3 DEF TurnsInv, ToldOnce
  <2> QED BY <2>1, <2>2, <2>3 DEF ToldOnce
<1>7. OwnCopies'
  <2>1. \A s \in Slot : (pc[s] \in Locked => seen[s].status = job[s].status)'
    BY <1>1, <1>2, <1>4, ThreadFacts DEF TurnsInv, OwnCopies
  <2>2. \A s \in Slot : (pc[s] \in {"recover", "choose", "reserve"} => seen[s].status = "completed")'
    BY <1>1, <1>2, ThreadFacts DEF TurnsInv, OwnCopies
  <2>3. \A r \in Run : (pc[Entry(r)] \in {"touch", "chain", "recover", "choose", "reserve"} =>
                          msg[Entry(r)].status = seen[Entry(r)].status)'
    BY <1>1, <1>2, ThreadFacts, SlotFacts DEF TurnsInv, OwnCopies
  <2> QED BY <2>1, <2>2, <2>3 DEF OwnCopies
<1>8. MessagesOn /\ JobsOn
  BY <1>1, <1>2, <1>4 DEF MessagesOn, JobsOn, Exists
<1>9. AnsweredLast'
  <2>1. \A s \in Slot : pc'[s] \in BeforeAnswer => pc[s] \in BeforeAnswer
    BY <1>1, ThreadFacts DEF BeforeAnswer
  <2>2. \A u \in Thread : pc'[u] = "watch" =>
           target'[u] \in Slot /\ Unanswered(target'[u]) /\ pc[target'[u]] = "idle"
    BY <1>2, <1>w, SlotFacts DEF TurnsInv, LaunchInv, Aims, ToldOnce, AnsweredLast
  <2>3. watched' \subseteq Slot
    BY <1>2 DEF TurnsInv, LaunchInv, TypeOK
  <2> QED BY <1>2, <1>8, <2>1, <2>2, <2>3, AnsweredKept
<1>10. TurnOrder'
  BY <1>2, <1>8, <1>w, TurnOrderKept
<1> QED BY <1>0, <1>5, <1>6, <1>7, <1>9, <1>10 DEF TurnsInv

\* The message takes over the status of the job before that is answered.
LEMMA SyncMessageTurns == ASSUME Poller = {}, TurnsInv, NEW t \in Thread, SyncMessage(t) PROVE TurnsInv'
<1>0. /\ LaunchInv' /\ pc \in [Thread -> PCs] /\ msg \in [Slot -> MsgRow]
  BY SyncMessageKeeps DEF TurnsInv, LaunchInv, TypeOK
<1>1. /\ pc[t] = "message" /\ pc'[t] \in {"touch", "idle"}
      /\ \A u \in Thread : u # t => pc'[u] = pc[u]
  BY <1>0 DEF SyncMessage, Goes
<1>2. UNCHANGED <<job, exec, watched, calls, serving, seen, target, todo>>
  BY DEF SyncMessage, local, provider
<1>3. /\ t \in Slot /\ serving[t] = t /\ job[t].status # "none" /\ Exists(t)
      /\ seen[t].status # "none" /\ seen[t].status # "submission_pending"
  BY <1>1, ThreadFacts, Serves
     DEF TurnsInv, LaunchInv, Roles, Locked, Guarded, Launching, JobStatuses, Terminal
<1>4. msg'[t].status = seen[t].status /\ \A s \in Slot : s # t => msg'[s] = msg[s]
  BY <1>0, <1>3 DEF SyncMessage
<1>w. \A u \in Thread : pc'[u] \in {"claim", "execute", "save", "watch", "reserve"} => pc[u] = pc'[u]
  BY <1>1
<1>8. MessagesOn /\ JobsOn
  BY <1>1, <1>2, <1>3, <1>4, SlotFacts DEF MessagesOn, JobsOn, Exists
<1>5. StoredInv'
  <2>1. \A s \in Slot : /\ (calls[s] = 0 => job[s].status = "none" /\ exec[s] = "none")'
                        /\ (msg[s].status = "submission_pending" => job[s].status = "none")'
    BY <1>2, <1>3, <1>4 DEF TurnsInv, StoredInv
  <2>2. \A r \in Run : (calls[Entry(r)] = 0 => ~Exists(Entry(r)))'
    <3>1. calls[t] # 0
      BY <1>3, Serves
    <3> QED BY <1>2, <1>4, <3>1, SlotFacts DEF TurnsInv, StoredInv, Exists
  <2>3. \A u \in Thread : (pc[u] \in {"claim", "execute", "save"} => Exists(target[u]))'
    <3>1. \A u \in Thread : pc'[u] \in {"claim", "execute", "save"} => target[u] \in Slot /\ Exists(target[u])
      BY <1>w, SlotFacts DEF TurnsInv, StoredInv, LaunchInv, Aims, Launching
    <3> QED BY <1>2, <1>8, <3>1 DEF MessagesOn, Exists
  <2>4. \A u \in Thread : (pc[u] = "save" => calls[target[u]] # 0 /\ job[target[u]].status = "none")'
    BY <1>2, <1>w DEF TurnsInv, StoredInv
  <2>5. \A u \in Thread : \A o \in todo'[u] : Exists(o[1])' /\ o[2] # "submission_pending"
    <3>1. \A u \in Thread : \A o \in todo[u] : o[1] \in Slot /\ Exists(o[1]) /\ o[2] # "submission_pending"
      BY SlotFacts DEF TurnsInv, LaunchInv, TypeOK, StoredInv
    <3> QED BY <1>2, <1>8, <3>1 DEF MessagesOn, Exists
  <2> QED BY <2>1, <2>2, <2>3, <2>4, <2>5 DEF StoredInv
<1>6. ToldOnce'
  <2>1. \A s \in Slot : (pc[s] # "idle" => serving[s] = s /\ s \notin watched)'
    BY <1>1, <1>2, ThreadFacts DEF TurnsInv, ToldOnce
  <2>2. ASSUME NEW u \in Thread, pc'[u] = "watch"
        PROVE  target'[u] \notin watched' /\ pc'[target'[u]] = "idle"
    <3>1. pc[u] = "watch" /\ target[u] \in Slot
      BY <1>w, <2>2, SlotFacts DEF TurnsInv, LaunchInv, Aims
    <3> QED BY <1>1, <1>2, <3>1, ThreadFacts DEF TurnsInv, ToldOnce
  <2>3. ASSUME NEW u \in Thread, pc'[u] = "watch", NEW v \in Thread, pc'[v] = "watch", target'[v] = target'[u]
        PROVE  v = u
    BY <1>w, <1>2, <2>3 DEF TurnsInv, ToldOnce
  <2> QED BY <2>1, <2>2, <2>3 DEF ToldOnce
<1>7. OwnCopies'
  <2>1. \A s \in Slot : (pc[s] \in Locked => seen[s].status = job[s].status)'
    BY <1>1, <1>2, ThreadFacts DEF TurnsInv, OwnCopies, Locked
  <2>2. \A s \in Slot : (pc[s] \in {"recover", "choose", "reserve"} => seen[s].status = "completed")'
    BY <1>1, <1>2, ThreadFacts DEF TurnsInv, OwnCopies
  <2>3. \A r \in Run : (pc[Entry(r)] \in {"touch", "chain", "recover", "choose", "reserve"} =>
                          msg[Entry(r)].status = seen[Entry(r)].status)'
    BY <1>1, <1>2, <1>4, ThreadFacts, SlotFacts DEF TurnsInv, OwnCopies
  <2> QED BY <2>1, <2>2, <2>3 DEF OwnCopies
<1>9. AnsweredLast'
  <2>1. \A s \in Slot : pc'[s] \in BeforeAnswer => pc[s] \in BeforeAnswer
    BY <1>1, ThreadFacts DEF BeforeAnswer
  <2>2. \A u \in Thread : pc'[u] = "watch" =>
           target'[u] \in Slot /\ Unanswered(target'[u]) /\ pc[target'[u]] = "idle"
    BY <1>2, <1>w, SlotFacts DEF TurnsInv, LaunchInv, Aims, ToldOnce, AnsweredLast
  <2>3. watched' \subseteq Slot
    BY <1>2 DEF TurnsInv, LaunchInv, TypeOK
  <2> QED BY <1>2, <1>8, <2>1, <2>2, <2>3, AnsweredKept
<1>10. TurnOrder'
  BY <1>2, <1>8, <1>w, TurnOrderKept
<1> QED BY <1>0, <1>5, <1>6, <1>7, <1>9, <1>10 DEF TurnsInv

\* A step that tells the thread of a job that it has ended, or registers a watch.
LEMMA TurnsTold ==
  ASSUME Poller = {}, TurnsInv, LaunchInv', NEW s \in Slot, Unanswered(s), pc[s] = "idle",
         \A u \in Thread : pc[u] = "watch" /\ target[u] = s => pc'[u] # "watch",
         UNCHANGED <<msg, job, exec, calls, target, todo>>,
         \/ watched' = watched \cup {s} /\ pc'[s] = "idle"
         \/ watched' = watched \ {s} /\ pc'[s] \in {"store", "lock"} /\ serving'[s] = s,
         \A u \in Thread : u # s =>
           /\ serving'[u] = serving[u] /\ seen'[u] = seen[u]
           /\ pc'[u] = pc[u] \/ (pc[u] = "watch" /\ pc'[u] \in {"nested", "reread", "idle", "resave", "mark"})
  PROVE  TurnsInv'
<1>w. \A u \in Thread : pc'[u] \in {"claim", "execute", "save", "watch", "reserve"} => pc[u] = pc'[u]
  BY ThreadFacts
<1>p. /\ \A x \in Slot : x # s => pc'[x] = pc[x] \/ pc'[x] \notin BeforeAnswer
      /\ \A x \in Slot : x # s /\ pc'[x] # "idle" => pc[x] # "idle"
      /\ \A x \in Slot : x # s /\ pc'[x] \in Locked => pc[x] \in Locked
  BY ThreadFacts DEF BeforeAnswer, Locked, Guarded
<1>8. MessagesOn /\ JobsOn
  BY DEF MessagesOn, JobsOn, Exists
<1>5. StoredInv'
  <2>1. \A x \in Slot : /\ (calls[x] = 0 => job[x].status = "none" /\ exec[x] = "none")'
                        /\ (msg[x].status = "submission_pending" => job[x].status = "none")'
    BY DEF TurnsInv, StoredInv
  <2>2. \A r \in Run : (calls[Entry(r)] = 0 => ~Exists(Entry(r)))'
    BY DEF TurnsInv, StoredInv, Exists
  <2>3. \A u \in Thread : (pc[u] \in {"claim", "execute", "save"} => Exists(target[u]))'
    BY <1>w DEF TurnsInv, StoredInv, Exists
  <2>4. \A u \in Thread : (pc[u] = "save" => calls[target[u]] # 0 /\ job[target[u]].status = "none")'
    BY <1>w DEF TurnsInv, StoredInv
  <2>5. \A u \in Thread : \A o \in todo'[u] : Exists(o[1])' /\ o[2] # "submission_pending"
    BY DEF TurnsInv, StoredInv, Exists
  <2> QED BY <2>1, <2>2, <2>3, <2>4, <2>5 DEF StoredInv
<1>6. ToldOnce'
  <2>1. \A x \in Slot : (pc[x] # "idle" => serving[x] = x /\ x \notin watched)'
    BY <1>p, ThreadFacts DEF TurnsInv, ToldOnce
  <2>2. ASSUME NEW u \in Thread, pc'[u] = "watch"
        PROVE  target'[u] \notin watched' /\ pc'[target'[u]] = "idle"
    <3>1. pc[u] = "watch" /\ target[u] \in Slot /\ target[u] # s
      BY <1>w, <2>2, SlotFacts DEF TurnsInv, LaunchInv, Aims
    <3>2. pc[target[u]] = "idle" /\ target[u] \notin watched
      BY <3>1 DEF TurnsInv, ToldOnce
    <3> QED BY <1>p, <3>1, <3>2
  <2>3. ASSUME NEW u \in Thread, pc'[u] = "watch", NEW v \in Thread, pc'[v] = "watch", target'[v] = target'[u]
        PROVE  v = u
    BY <1>w, <2>3 DEF TurnsInv, ToldOnce
  <2> QED BY <2>1, <2>2, <2>3 DEF ToldOnce
<1>7. OwnCopies'
  <2>1. \A x \in Slot : (pc[x] \in Locked => seen[x].status = job[x].status)'
    BY <1>p, ThreadFacts DEF TurnsInv, OwnCopies, Locked, Guarded, Launching
  <2>2. \A x \in Slot : (pc[x] \in {"recover", "choose", "reserve"} => seen[x].status = "completed")'
    BY <1>p, ThreadFacts DEF TurnsInv, OwnCopies, BeforeAnswer
  <2>3. \A r \in Run : (pc[Entry(r)] \in {"touch", "chain", "recover", "choose", "reserve"} =>
                          msg[Entry(r)].status = seen[Entry(r)].status)'
    BY <1>p, ThreadFacts, SlotFacts DEF TurnsInv, OwnCopies, BeforeAnswer
  <2> QED BY <2>1, <2>2, <2>3 DEF OwnCopies
<1>9. AnsweredLast'
  <2>1. \A x \in Slot : pc'[x] \in BeforeAnswer => pc[x] \in BeforeAnswer \/ (Unanswered(x) /\ pc[x] = "idle")
    BY <1>p
  <2>2. \A u \in Thread : pc'[u] = "watch" =>
           target'[u] \in Slot /\ Unanswered(target'[u]) /\ pc[target'[u]] = "idle"
    BY <1>w, SlotFacts DEF TurnsInv, LaunchInv, Aims, ToldOnce, AnsweredLast
  <2>3. watched' \subseteq Slot
    BY DEF TurnsInv, LaunchInv, TypeOK
  <2>4. \A x \in Slot : x \in watched' => x \in watched \/ (Unanswered(x) /\ pc[x] = "idle")
    OBVIOUS
  <2> QED BY <1>8, <2>1, <2>2, <2>3, <2>4, AnsweredKept
<1>10. TurnOrder'
  BY <1>8, <1>w, TurnOrderKept
<1> QED BY <1>5, <1>6, <1>7, <1>9, <1>10 DEF TurnsInv

\* The end of a launched job is told by the watch, or by the thread that asks for it.
LEMMA WatchTurns == ASSUME Poller = {}, TurnsInv, NEW t \in Thread, Watch(t) PROVE TurnsInv'
<1> DEFINE s == target[t]
<1>0. /\ LaunchInv' /\ pc \in [Thread -> PCs] /\ serving \in [Thread -> Slot \cup {NoSlot}]
      /\ seen \in [Thread -> JobRow]
  BY WatchKeeps DEF TurnsInv, LaunchInv, TypeOK
<1>1. pc[t] = "watch" /\ UNCHANGED <<msg, job, exec, calls, target, todo>>
  BY DEF Watch, rows
<1>2. /\ s \in Slot /\ s \in Thread /\ Unanswered(s) /\ pc[s] = "idle" /\ s # t /\ s \notin watched
      /\ \A u \in Thread : pc[u] = "watch" /\ target[u] = s => u = t
  BY <1>1, ThreadFacts, SlotFacts DEF TurnsInv, LaunchInv, Aims, AnsweredLast, ToldOnce
<1>3. CASE watched' = watched \cup {s} /\ Goes(t, AfterWatch(t)) /\ UNCHANGED <<host, serving, seen>>
  <2>1. /\ pc'[t] \in {"reread", "idle", "resave", "mark"}
        /\ \A u \in Thread : u # t => pc'[u] = pc[u]
    BY <1>0, <1>3 DEF Goes, AfterWatch, AfterLaunch
  <2> HIDE DEF s
  <2> QED BY <1>0, <1>1, <1>2, <1>3, <2>1, TurnsTold
<1>4. CASE /\ CallsBack(s, host[t]) /\ UNCHANGED watched
           /\ pc' = [pc EXCEPT ![t] = "nested", ![s] = FirstStep(s)]
  <2>1. /\ pc'[t] = "nested" /\ pc'[s] \in {"store", "lock"}
        /\ \A u \in Thread : u # t /\ u # s => pc'[u] = pc[u]
    BY <1>0, <1>2, <1>4 DEF FirstStep
  <2>2. /\ serving'[s] = s
        /\ \A u \in Thread : u # s => serving'[u] = serving[u] /\ seen'[u] = seen[u]
    BY <1>0, <1>2, <1>4 DEF CallsBack
  <2>3. watched' = watched \ {s}
    BY <1>2, <1>4
  <2> HIDE DEF s
  <2> QED BY <1>0, <1>1, <1>2, <2>1, <2>2, <2>3, TurnsTold
<1> QED BY <1>3, <1>4 DEF Watch

\* The provider tells the end of a job once.
LEMMA CallbackTurns == ASSUME Poller = {}, TurnsInv, NEW s \in Slot, Callback(s) PROVE TurnsInv'
<1>0. /\ LaunchInv' /\ pc \in [Thread -> PCs] /\ serving \in [Thread -> Slot \cup {NoSlot}]
      /\ seen \in [Thread -> JobRow] /\ s \in Thread
  BY CallbackKeeps, ThreadFacts DEF TurnsInv, LaunchInv, TypeOK
<1>1. /\ s \in watched /\ pc[s] = "idle" /\ watched' = watched \ {s}
      /\ UNCHANGED <<msg, job, exec, calls, target, todo>>
  BY DEF Callback, rows
<1>2. Unanswered(s) /\ \A u \in Thread : ~(pc[u] = "watch" /\ target[u] = s)
  BY <1>1 DEF TurnsInv, AnsweredLast, ToldOnce
<1>3. /\ pc'[s] \in {"store", "lock"}
      /\ \A u \in Thread : u # s => pc'[u] = pc[u]
  BY <1>0 DEF Callback, Goes, FirstStep
<1>4. /\ serving'[s] = s
      /\ \A u \in Thread : u # s => serving'[u] = serving[u] /\ seen'[u] = seen[u]
  BY <1>0 DEF Callback, CallsBack
<1> QED BY <1>0, <1>1, <1>2, <1>3, <1>4, TurnsTold

\* A CLI that ends was started.
LEMMA FinishTurns == ASSUME Poller = {}, TurnsInv, NEW s \in Slot, Finish(s) PROVE TurnsInv'
<1>0. /\ LaunchInv' /\ pc \in [Thread -> PCs] /\ exec \in [Slot -> JobStatuses]
      /\ Submitter \in Thread /\ Submitter \notin Slot
  BY FinishKeeps, ThreadFacts DEF TurnsInv, LaunchInv, TypeOK
<1>1. UNCHANGED <<msg, job, watched, calls, pc, serving, seen, target, todo>>
  BY DEF Finish, rows, local
<1>2. \A x \in Slot : exec'[x] = exec[x] \/ calls'[x] # 0
  BY <1>0, <1>1 DEF Finish, TurnsInv, StoredInv
<1>3. pc'[Submitter] \notin {"claim", "execute", "save", "watch", "reserve"}
  BY <1>1 DEF TurnsInv, LaunchInv, Roles
<1>4. MessagesOn
  BY <1>1 DEF MessagesOn, Exists
<1> QED BY <1>0, <1>1, <1>2, <1>3, <1>4, TurnsLaunch

\* Nothing happens.
LEMMA StutterTurns == ASSUME Poller = {}, TurnsInv, UNCHANGED vars PROVE TurnsInv'
<1>0. LaunchInv' /\ Submitter \in Thread /\ Submitter \notin Slot
  BY StutterKeeps, ThreadFacts DEF TurnsInv
<1>1. UNCHANGED <<msg, job, exec, watched, calls, pc, serving, seen, target, todo>>
  BY DEF vars, rows, provider, local
<1>3. pc'[Submitter] \notin {"claim", "execute", "save", "watch", "reserve"}
  BY <1>1 DEF TurnsInv, LaunchInv, Roles
<1>4. MessagesOn
  BY <1>1 DEF MessagesOn, Exists
<1> QED BY <1>0, <1>1, <1>3, <1>4, TurnsLaunch

\* The message of a new turn of the user answers nothing, and nothing answers it.
LEMMA StartRunTurns == ASSUME Poller = {}, TurnsInv, StartRun PROVE TurnsInv'
<1> DEFINE s == Entry(submitted)
<1>0. /\ LaunchInv' /\ pc \in [Thread -> PCs] /\ exec \in [Slot -> JobStatuses] /\ calls \in [Slot -> Nat]
      /\ msg \in [Slot -> MsgRow] /\ job \in [Slot -> JobRow]
      /\ Submitter \in Thread /\ Submitter \notin Slot
  BY StartRunKeeps, ThreadFacts DEF TurnsInv, LaunchInv, TypeOK
<1>1. /\ pc[Submitter] = "start" /\ pc'[Submitter] = "idle" /\ watched' = watched \cup {s}
      /\ \A u \in Thread : u # Submitter => pc'[u] = pc[u]
      /\ UNCHANGED <<serving, seen, target, todo>>
  BY <1>0 DEF StartRun, Goes, local
<1>2. s \in Slot /\ s \notin FollowUp /\ calls[s] = 0
  BY <1>1, SlotFacts DEF TurnsInv, LaunchInv, EntriesFresh
<1>3. job[s].status = "none" /\ pc[s] = "idle" /\ Unanswered(s)
  BY <1>2, Serves, NotStored
<1>4. /\ \A x \in Slot : x # s => msg'[x] = msg[x] /\ job'[x] = job[x] /\ exec'[x] = exec[x] /\ calls'[x] = calls[x]
      /\ msg'[s].status = "pending" /\ calls'[s] # 0
  BY <1>0, <1>2 DEF StartRun
<1>w. \A u \in Thread : pc'[u] \in {"claim", "execute", "save", "watch", "reserve"} => pc[u] = pc'[u]
  BY <1>1
<1> HIDE DEF s
<1>8. MessagesOn /\ JobsOn
  <2>1. \A r \in Run : msg'[Entry(r)].status = msg[Entry(r)].status \/ calls[Entry(r)] = 0
    BY <1>2, <1>4, SlotFacts
  <2>2. \A q \in FollowUp : q # s /\ q \in Slot
    BY <1>2, SlotFacts
  <2> QED BY <1>3, <1>4, <2>1, <2>2 DEF MessagesOn, JobsOn, Exists
<1>5. StoredInv'
  <2>1. \A x \in Slot : /\ (calls[x] = 0 => job[x].status = "none" /\ exec[x] = "none")'
                        /\ (msg[x].status = "submission_pending" => job[x].status = "none")'
    BY <1>4 DEF TurnsInv, StoredInv
  <2>2. \A r \in Run : (calls[Entry(r)] = 0 => ~Exists(Entry(r)))'
    BY <1>4, SlotFacts DEF TurnsInv, StoredInv, Exists
  <2>3. \A u \in Thread : (pc[u] \in {"claim", "execute", "save"} => Exists(target[u]))'
    <3>1. \A u \in Thread : pc'[u] \in {"claim", "execute", "save"} => target[u] \in Slot /\ Exists(target[u])
      BY <1>w, SlotFacts DEF TurnsInv, StoredInv, LaunchInv, Aims, Launching
    <3> QED BY <1>1, <1>8, <3>1 DEF MessagesOn, Exists
  <2>4. ASSUME NEW u \in Thread, pc'[u] = "save" PROVE calls'[target'[u]] # 0 /\ job'[target'[u]].status = "none"
    <3>1. pc[u] = "save" /\ target[u] \in Slot /\ target[u] # s
      BY <1>w, <1>2, <2>4, SlotFacts DEF TurnsInv, LaunchInv, Aims, Launching
    <3> QED BY <1>1, <1>4, <3>1 DEF TurnsInv, StoredInv
  <2>5. \A u \in Thread : \A o \in todo'[u] : Exists(o[1])' /\ o[2] # "submission_pending"
    <3>1. \A u \in Thread : \A o \in todo[u] : o[1] \in Slot /\ Exists(o[1]) /\ o[2] # "submission_pending"
      BY SlotFacts DEF TurnsInv, LaunchInv, TypeOK, StoredInv
    <3> QED BY <1>1, <1>8, <3>1 DEF MessagesOn, Exists
  <2> QED BY <2>1, <2>2, <2>3, <2>4, <2>5 DEF StoredInv
<1>6. ToldOnce'
  <2>1. \A x \in Slot : (pc[x] # "idle" => serving[x] = x /\ x \notin watched)'
    BY <1>0, <1>1, <1>3, ThreadFacts DEF TurnsInv, ToldOnce
  <2>2. ASSUME NEW u \in Thread, pc'[u] = "watch"
        PROVE  target'[u] \notin watched' /\ pc'[target'[u]] = "idle"
    <3>1. pc[u] = "watch" /\ target[u] \in Slot /\ target[u] # s
      BY <1>w, <1>2, <2>2, SlotFacts DEF TurnsInv, LaunchInv, Aims
    <3> QED BY <1>0, <1>1, <3>1, ThreadFacts DEF TurnsInv, ToldOnce
  <2>3. ASSUME NEW u \in Thread, pc'[u] = "watch", NEW v \in Thread, pc'[v] = "watch", target'[v] = target'[u]
        PROVE  v = u
    BY <1>w, <1>1, <2>3 DEF TurnsInv, ToldOnce
  <2> QED BY <2>1, <2>2, <2>3 DEF ToldOnce
<1>7. OwnCopies'
  <2>0. \A x \in Slot : pc'[x] = pc[x] /\ (pc[x] # "idle" => x # s)
    BY <1>0, <1>1, <1>3, ThreadFacts
  <2>1. \A x \in Slot : (pc[x] \in Locked => seen[x].status = job[x].status)'
    <3>1. "idle" \notin Locked
      BY DEF Locked, Guarded, Launching
    <3> QED BY <1>1, <1>4, <2>0, <3>1 DEF TurnsInv, OwnCopies
  <2>2. \A x \in Slot : (pc[x] \in {"recover", "choose", "reserve"} => seen[x].status = "completed")'
    BY <1>1, <2>0 DEF TurnsInv, OwnCopies
  <2>3. \A r \in Run : (pc[Entry(r)] \in {"touch", "chain", "recover", "choose", "reserve"} =>
                          msg[Entry(r)].status = seen[Entry(r)].status)'
    BY <1>1, <1>4, <2>0, SlotFacts DEF TurnsInv, OwnCopies
  <2> QED BY <2>1, <2>2, <2>3 DEF OwnCopies
<1>9. AnsweredLast'
  <2>1. \A x \in Slot : pc'[x] \in BeforeAnswer => pc[x] \in BeforeAnswer
    BY <1>0, <1>1, ThreadFacts
  <2>2. \A u \in Thread : pc'[u] = "watch" =>
           target'[u] \in Slot /\ Unanswered(target'[u]) /\ pc[target'[u]] = "idle"
    BY <1>1, <1>w, SlotFacts DEF TurnsInv, LaunchInv, Aims, ToldOnce, AnsweredLast
  <2>3. watched' \subseteq Slot /\ \A x \in Slot : x \in watched' => x \in watched \/ (Unanswered(x) /\ pc[x] = "idle")
    BY <1>1, <1>2, <1>3 DEF TurnsInv, LaunchInv, TypeOK
  <2> QED BY <1>8, <2>1, <2>2, <2>3, AnsweredKept
<1>10. TurnOrder'
  BY <1>1, <1>8, <1>w, TurnOrderKept
<1> QED BY <1>0, <1>5, <1>6, <1>7, <1>9, <1>10 DEF TurnsInv

\* A crash leaves the rows.
LEMMA CrashTurns == ASSUME Poller = {}, TurnsInv, Crash PROVE TurnsInv'
<1>0. LaunchInv'
  BY CrashKeeps DEF TurnsInv
<1>1. /\ \A t \in Thread : pc'[t] = "idle" /\ todo'[t] = {}
      /\ \A s \in Slot : exec'[s] = "none"
      /\ watched' = {} /\ UNCHANGED <<msg, job, calls>>
  BY DEF Crash, Everywhere, EverySlot, rows
<1>2. "idle" \notin Locked /\ "idle" \notin BeforeAnswer
  BY DEF Locked, Guarded, Launching, BeforeAnswer
<1>3. StoredInv'
  BY <1>1 DEF TurnsInv, StoredInv, Exists
<1>4. ToldOnce'
  BY <1>1, ThreadFacts DEF ToldOnce
<1>5. OwnCopies'
  BY <1>1, <1>2, ThreadFacts, SlotFacts DEF OwnCopies
<1>6. AnsweredLast'
  BY <1>1, <1>2, ThreadFacts DEF AnsweredLast
<1>7. TurnOrder'
  BY <1>1 DEF TurnsInv, TurnOrder, InTurn, Exists
<1> QED BY <1>0, <1>3, <1>4, <1>5, <1>6, <1>7 DEF TurnsInv

\* At the beginning there is no message.
LEMMA TurnsInitial == Init => TurnsInv
<1> SUFFICES ASSUME Init PROVE TurnsInv
  OBVIOUS
<1>0. LaunchInv
  BY Initial
<1>1. /\ \A t \in Thread : pc[t] = "idle" /\ todo[t] = {}
      /\ \A s \in Slot : exec[s] = "none" /\ ~Exists(s) /\ job[s].status = "none"
      /\ watched = {}
  BY DEF Init, Everywhere, EverySlot, Exists, NoJob
<1>2. "idle" \notin Locked /\ "idle" \notin BeforeAnswer
  BY DEF Locked, Guarded, Launching, BeforeAnswer
<1>3. StoredInv
  BY <1>1, SlotFacts DEF StoredInv, Exists
<1>4. ToldOnce
  BY <1>1, ThreadFacts DEF ToldOnce
<1>5. OwnCopies
  BY <1>1, <1>2, ThreadFacts, SlotFacts DEF OwnCopies
<1>6. AnsweredLast
  BY <1>1, <1>2, ThreadFacts DEF AnsweredLast
<1>7. TurnOrder
  BY <1>1, SlotFacts DEF TurnOrder
<1> QED BY <1>0, <1>3, <1>4, <1>5, <1>6, <1>7 DEF TurnsInv

\* Every step keeps the order of the turns.
LEMMA TurnsKept == ASSUME Poller = {} PROVE TurnsInv /\ [Next]_vars => TurnsInv'
<1> SUFFICES ASSUME TurnsInv, [Next]_vars PROVE TurnsInv'
  OBVIOUS
<1>1. ASSUME NEW t \in Thread, Step(t) PROVE TurnsInv'
  BY <1>1, StoreJobTurns, TakeLockTurns, ReadSessionTurns, LearnSessionTurns, SyncMessageTurns,
     TouchSessionTurns, ReadForChainTurns, ChooseTurns, ReserveTurns, ResaveSessionTurns,
     CompleteRunTurns, MarkProcessedTurns, RecheckTurns, ClaimTurns, ExecuteTurns, SaveTurnTurns,
     WatchTurns, NestedReturnsTurns, RecoverTurns, RereadSessionTurns, SyncAttachedTurns,
     ListTurns, CancelTurns DEF Step
<1>2. ASSUME NEW t \in Thread, SaveTurnFails(t) PROVE TurnsInv'
  BY <1>2, SaveTurnFailsTurns
<1>3. ASSUME NEW s \in Slot, Callback(s) \/ Finish(s) PROVE TurnsInv'
  BY <1>3, CallbackTurns, FinishTurns
<1>4. ASSUME NEW t \in Reconciler, Reconcile(t) PROVE TurnsInv'
  BY <1>4, ReconcileTurns, ThreadFacts
<1>5. CASE Submit \/ StartRun \/ Crash \/ UNCHANGED vars
  BY <1>5, SubmitTurns, StartRunTurns, CrashTurns, StutterTurns
<1> QED BY <1>1, <1>2, <1>3, <1>4, <1>5 DEF Next

\* When nobody polls, a follow-up only exists after the completed job that it
\* answers: the completed turns of an agent are all it has, so that the number of
\* the next turn, which the code counts, is the one after the turn answered.
THEOREM TurnsFollow == ASSUME Poller = {} PROVE Spec => []TurnsInv
<1>1. TurnsInv /\ [Next]_vars => TurnsInv'
  BY TurnsKept
<1> QED BY <1>1, TurnsInitial, PTL DEF Spec

\* When nobody polls, a follow-up is sent to a CLI only when the job it answers has
\* completed.
THEOREM TurnsTaken == ASSUME Poller = {} PROVE Spec => []TakeTurns
<1>1. TurnsInv => TakeTurns
  <2> SUFFICES ASSUME TurnsInv, NEW s \in FollowUp, calls[s] > 0
               PROVE  Answers(s) \in Slot /\ "completed" \in {exec[Answers(s)], job[Answers(s)].status}
    BY DEF TakeTurns
  <2>1. Exists(s)
    BY SlotFacts DEF TurnsInv, LaunchInv, ReservedIsUnsent, Unsent, Exists
  <2> QED BY <2>1 DEF TurnsInv, TurnOrder, InTurn
<1> QED BY <1>1, TurnsFollow, PTL

-----------------------------------------------------------------------------
(* The drain.                                                               *)

-----------------------------------------------------------------------------
(* The rows of jobs, JobInv.                                               *)

\* Steps that leave jobs alone, and bring no thread to look at one or to save one.
LEMMA Untouched ==
  ASSUME JobInv, UNCHANGED <<exec, job, calls, serving, seen>>,
         \A t \in Slot \cup Poller : pc[t] \in {"idle", "lock"} => pc'[t] \in {"idle", "lock"},
         \A t \in Thread : pc'[t] = "save" => pc[t] = "save" /\ target'[t] = target[t]
  PROVE  JobInv'
  BY DEF JobInv

\* Most of what a thread does is about sessions and messages.
LEMMA QuietSteps ==
  ASSUME LaunchInv, JobInv, NEW t \in Thread,
         \/ ReadSession(t) \/ LearnSession(t) \/ SyncMessage(t) \/ TouchSession(t) \/ ReadForChain(t)
         \/ Choose(t) \/ Reserve(t) \/ ResaveSession(t) \/ CompleteRun(t) \/ Recheck(t) \/ Claim(t)
         \/ NestedReturns(t) \/ RereadSession(t) \/ SyncAttached(t) \/ List(t) \/ Cancel(t)
  PROVE  JobInv'
<1>1. /\ UNCHANGED <<exec, job, calls, serving, seen>>
      /\ pc[t] \notin {"idle", "lock", "save"} /\ pc'[t] # "save"
      /\ \A u \in Thread : u # t => pc'[u] = pc[u] /\ target'[u] = target[u]
  <2> USE DEF LaunchInv, TypeOK, Goes, rows, provider, local, rest
  <2>1. CASE ReadSession(t) \/ LearnSession(t) \/ SyncMessage(t)
    BY <2>1 DEF ReadSession, LearnSession, SyncMessage
  <2>2. CASE TouchSession(t) \/ ReadForChain(t) \/ ResaveSession(t) \/ CompleteRun(t)
    BY <2>2 DEF TouchSession, ReadForChain, ResaveSession, CompleteRun
  <2>3. CASE Choose(t)
    BY <2>3 DEF Choose
  <2>4. CASE Reserve(t) \/ Recheck(t) \/ Claim(t)
    BY <2>4 DEF Reserve, Recheck, Claim, AfterLaunch
  <2>5. CASE NestedReturns(t) \/ RereadSession(t) \/ SyncAttached(t)
    BY <2>5 DEF NestedReturns, RereadSession, SyncAttached, AfterWatch, AfterLaunch
  <2>6. CASE List(t)
    BY <2>6 DEF List, AfterCancel
  <2>7. CASE Cancel(t)
    BY <2>7 DEF Cancel, AfterCancel
  <2> QED BY <2>1, <2>2, <2>3, <2>4, <2>5, <2>6, <2>7
<1>2. \A u \in Slot \cup Poller : pc[u] \in {"idle", "lock"} => pc'[u] \in {"idle", "lock"}
  BY <1>1, ThreadFacts
<1> QED BY <1>1, <1>2, Untouched

\* A row is saved as its copy says, which for a job that goes on is the row.
LEMMA SavedCopy ==
  ASSUME LaunchInv, JobInv, NEW t \in Thread, StoreJob(t) \/ MarkProcessed(t)
  PROVE  JobInv'
<1>1. /\ t \in Slot \cup Poller /\ pc[t] \notin {"idle", "lock"}
      /\ serving[t] \in Slot /\ job[serving[t]].status # "none"
      /\ seen[t] \in JobRow /\ seen[t].status \in JobStatuses \ {"none"}
  BY ThreadFacts, Rows DEF LaunchInv, TypeOK, Roles, Copies, StoreJob, MarkProcessed, Goes, Guarded, Launching
<1>2. UNCHANGED <<exec, calls, serving, seen, target>>
  BY DEF StoreJob, MarkProcessed, provider, local
<1>3. \A s \in Slot : job'[s].status = IF s = serving[t] THEN seen[t].status ELSE job[s].status
  <2>1. CASE StoreJob(t)
    BY <1>1, <2>1 DEF LaunchInv, TypeOK, StoreJob
  <2>2. CASE MarkProcessed(t)
    <3>1. [seen[t] EXCEPT !.processed = TRUE].status = seen[t].status
      BY <1>1, Rows
    <3>2. job' = [job EXCEPT ![serving[t]] = [seen[t] EXCEPT !.processed = TRUE]]
      BY <2>2 DEF MarkProcessed
    <3> QED BY <1>1, <3>1, <3>2 DEF LaunchInv, TypeOK
  <2> QED BY <2>1, <2>2
<1>4. /\ \A u \in Slot \cup Poller : pc[u] \in {"idle", "lock"} => pc'[u] \in {"idle", "lock"}
      /\ \A u \in Thread : pc'[u] = "save" => pc[u] = "save"
  BY <1>1, ThreadFacts DEF LaunchInv, TypeOK, StoreJob, MarkProcessed, Goes
<1>5. ASSUME NEW s \in Slot
      PROVE  /\ calls[s] = 0 => job'[s].status = "none"
             /\ exec[s] = "pending" => job'[s].status \in {"none", "pending"}
             /\ job[s].status # "none" => job'[s].status # "none"
  BY <1>1, <1>3, SlotFacts DEF JobInv, JobStatuses, Terminal
<1>6. \A r \in Run : Entry(r) \in Slot
  BY SlotFacts
<1> QED BY <1>2, <1>4, <1>5, <1>6 DEF JobInv

\* Under the lock of a job its row is read again.
LEMMA LockedCopy ==
  ASSUME LaunchInv, JobInv, NEW t \in Thread, TakeLock(t)
  PROVE  JobInv'
<1>1. /\ UNCHANGED <<exec, job, calls, serving, target>> /\ t \in Slot \cup Poller
      /\ \A u \in Thread : u # t => pc'[u] = pc[u] /\ seen'[u] = seen[u]
      /\ seen'[t] = job[serving[t]] /\ pc'[t] = "session"
  BY ThreadFacts DEF LaunchInv, TypeOK, Roles, TakeLock, Goes, rows, provider, rest, Guarded, Launching
<1> QED BY <1>1, ThreadFacts DEF JobInv, Terminal

\* A follow-up is executed that nobody has looked at.
LEMMA ExecutedJob ==
  ASSUME LaunchInv, JobInv, NEW t \in Thread, Execute(t)
  PROVE  JobInv'
<1> DEFINE s == target[t]
<1>1. s \in FollowUp /\ s \in Slot /\ calls[s] = 0 /\ job[s].status = "none"
  BY SlotFacts DEF LaunchInv, Aims, Launching, LaunchesFresh, Execute, JobInv
<1>2. /\ UNCHANGED <<job, serving, seen, target>> /\ calls'[s] = 1
      /\ pc[t] \notin {"idle", "lock"} /\ \A u \in Thread : u # t => pc'[u] = pc[u]
      /\ \A q \in Slot : q # s => exec'[q] = exec[q] /\ calls'[q] = calls[q]
  BY <1>1 DEF LaunchInv, TypeOK, Execute, Goes, rows, local, rest
<1>3. \A u \in Slot \cup Poller : pc[u] # "idle" => serving[u] # s
  BY <1>1 DEF LaunchInv, Copies
<1>4. \A u \in Slot \cup Poller : pc'[u] \notin {"idle", "lock"} /\ serving[u] = s => FALSE
  <2>1. \A u \in Slot \cup Poller : u \in Thread
    BY ThreadFacts
  <2> QED BY <1>2, <1>3, <2>1
<1>5. \A u \in Thread : pc'[u] = "save" => calls'[target[u]] # 0
  <2>1. ASSUME NEW u \in Thread, u # t, pc[u] = "save" PROVE target[u] \in Slot /\ calls[target[u]] # 0
    BY <2>1, SlotFacts DEF LaunchInv, Aims, Launching, JobInv
  <2> QED BY <1>2, <2>1
<1>6. \A q \in Slot : calls'[q] = 0 => q # s /\ calls[q] = 0
  BY <1>2
<1>7. ASSUME NEW q \in Slot, exec'[q] = "pending", NEW u \in Slot \cup Poller, serving[u] = q,
             pc'[u] \notin {"idle", "lock"}
      PROVE  seen[u].status \notin Terminal
  <2>1. q # s /\ exec[q] = "pending" /\ u \in Thread /\ pc[u] \notin {"idle", "lock"}
    BY <1>2, <1>4, <1>7, ThreadFacts
  <2> QED BY <1>7, <2>1 DEF JobInv
<1>8. \A r \in Run : Entry(r) \in Slot /\ Entry(r) # s
  BY <1>1, SlotFacts
<1>9. \A q \in Slot : exec'[q] = "pending" => job[q].status \in {"none", "pending"}
  BY <1>1, <1>2 DEF JobInv
<1> QED BY <1>2, <1>5, <1>6, <1>7, <1>8, <1>9 DEF JobInv

\* The row of a follow-up that is launched or attached says that it goes on, or
\* what the provider says.
LEMMA SavedRow ==
  ASSUME LaunchInv, JobInv, NEW t \in Thread, SaveTurn(t) \/ Recover(t)
  PROVE  JobInv'
<1>1. /\ UNCHANGED <<exec, calls, serving, seen>>
      /\ pc[t] \notin {"idle", "lock"} /\ pc'[t] # "save"
      /\ \A u \in Thread : u # t => pc'[u] = pc[u] /\ target'[u] = target[u]
  <2> USE DEF LaunchInv, TypeOK, Goes, rows, provider, local, rest
  <2>1. CASE SaveTurn(t)
    BY <2>1 DEF SaveTurn
  <2>2. CASE Recover(t)
    BY <2>2 DEF Recover, RecoverPending, RecoverReserved, Attach, GiveUp
  <2> QED BY <2>1, <2>2
<1>2. \A s \in Slot : \/ job'[s] = job[s]
                      \/ /\ calls[s] # 0 /\ job'[s].status # "none"
                         /\ exec[s] = "pending" => job'[s].status = "pending"
  <2>1. CASE SaveTurn(t)
    <3>1. target[t] \in Slot /\ calls[target[t]] # 0
      BY <2>1, SlotFacts DEF LaunchInv, Aims, Launching, SaveTurn, JobInv
    <3>2. job' = [job EXCEPT ![target[t]] = [status |-> "pending", processed |-> FALSE]]
      BY <2>1 DEF SaveTurn
    <3> QED BY <3>1, <3>2 DEF LaunchInv, TypeOK
  <2>2. CASE Recover(t)
    <3>1. job' = job \/ \E s \in FollowUp : Attach(t, s)
      BY <2>2 DEF Recover, RecoverPending, RecoverReserved, GiveUp, Unattached, rows
    <3>2. ASSUME NEW s \in FollowUp, Attach(t, s) PROVE <1>2
      <4>1. exec[s] # "none" /\ job' = [job EXCEPT ![s] = [status |-> exec[s], processed |-> FALSE]] /\ s \in Slot
        BY <3>2, SlotFacts DEF Attach
      <4>2. calls[s] # 0
        BY <4>1 DEF JobInv
      <4> QED BY <4>1, <4>2 DEF LaunchInv, TypeOK
    <3> QED BY <3>1, <3>2
  <2> QED BY <2>1, <2>2
<1>3. \A u \in Slot \cup Poller : pc[u] \in {"idle", "lock"} => pc'[u] \in {"idle", "lock"}
  BY <1>1, ThreadFacts
<1>4. /\ \A s \in Slot : calls'[s] = 0 => job'[s].status = "none" /\ exec'[s] = "none"
      /\ \A s \in Slot : exec'[s] = "pending" => job'[s].status \in {"none", "pending"}
  BY <1>1, <1>2 DEF JobInv
<1>5. \A r \in Run : exec'[Entry(r)] = "pending" => job'[Entry(r)].status # "none"
  BY <1>1, <1>2, SlotFacts DEF JobInv
<1>6. \A u \in Thread : pc'[u] = "save" => calls'[target'[u]] # 0
  BY <1>1 DEF JobInv
<1> QED BY <1>1, <1>3, <1>4, <1>5, <1>6 DEF JobInv

\* What a request sees of a job that goes on is no end.
LEMMA ObservedJob ==
  ASSUME LaunchInv, JobInv, NEW s \in Slot, exec[s] = "pending", job[s].status # "none"
  PROVE  Observed(s).status = "pending"
<1>1. job[s] \in JobRow /\ job[s].status = "pending"
  BY DEF LaunchInv, TypeOK, JobInv
<1>2. Observed(s) = [job[s] EXCEPT !.status = "pending"]
  BY <1>1 DEF Observed, Terminal
<1> QED BY <1>1, <1>2, Rows DEF JobStatuses

\* A request or a callback looks at a job.
LEMMA LookedAt ==
  ASSUME LaunchInv, JobInv, NEW t \in Slot \cup Poller, NEW s \in Slot, job[s].status # "none",
         UNCHANGED <<exec, job, calls, target>>,
         serving'[t] = s, seen'[t] = Observed(s),
         \A u \in Slot \cup Poller : u # t =>
           /\ serving'[u] = serving[u] /\ seen'[u] = seen[u]
           /\ pc[u] \in {"idle", "lock"} => pc'[u] \in {"idle", "lock"},
         \A u \in Thread : pc'[u] = "save" => pc[u] = "save"
  PROVE  JobInv'
  BY ObservedJob DEF JobInv, Terminal

LEMMA PolledJob ==
  ASSUME LaunchInv, JobInv, NEW t \in Poller, NEW s \in Slot, Poll(t, s)
  PROVE  JobInv'
<1>1. FirstStep(s) # "save"
  BY DEF FirstStep
<1> QED BY <1>1, LookedAt, ThreadFacts DEF LaunchInv, TypeOK, Poll, Goes, rows, provider, rest

LEMMA CalledBackJob ==
  ASSUME LaunchInv, JobInv, NEW s \in Slot, Callback(s)
  PROVE  JobInv'
<1>1. FirstStep(s) # "save" /\ job[s].status # "none"
  BY DEF FirstStep, LaunchInv, TypeOK, Callback
<1> QED BY <1>1, LookedAt, ThreadFacts DEF LaunchInv, TypeOK, Callback, CallsBack, Goes, rows

LEMMA WatchedJob ==
  ASSUME LaunchInv, JobInv, NEW t \in Thread, Watch(t)
  PROVE  JobInv'
<1> DEFINE s == target[t]
<1>1. /\ s \in Slot /\ job[s].status # "none"
      /\ pc[t] = "watch" /\ UNCHANGED <<exec, job, calls, target>>
  BY SlotFacts DEF LaunchInv, Aims, Watch, rows
<1>2. CASE UNCHANGED <<host, serving, seen>> /\ Goes(t, AfterWatch(t))
  <2>1. \A u \in Slot \cup Poller : pc[u] \in {"idle", "lock"} => pc'[u] \in {"idle", "lock"}
    BY <1>1, <1>2, ThreadFacts DEF LaunchInv, TypeOK, Goes
  <2>2. \A u \in Thread : pc'[u] = "save" => pc[u] = "save"
    BY <1>2 DEF LaunchInv, TypeOK, Goes, AfterWatch, AfterLaunch
  <2> QED BY <1>1, <1>2, <2>1, <2>2, Untouched
<1>3. CASE CallsBack(s, host[t]) /\ pc' = [pc EXCEPT ![t] = "nested", ![s] = FirstStep(s)]
  <2>1. s \in Thread /\ s \in Slot \cup Poller
    BY <1>1, ThreadFacts
  <2>2. /\ serving'[s] = s /\ seen'[s] = Observed(s)
        /\ \A u \in Slot \cup Poller : u # s =>
             /\ serving'[u] = serving[u] /\ seen'[u] = seen[u]
             /\ pc[u] \in {"idle", "lock"} => pc'[u] \in {"idle", "lock"}
    BY <1>1, <1>3, <2>1, ThreadFacts DEF LaunchInv, TypeOK, CallsBack
  <2>3. \A u \in Thread : pc'[u] = "save" => pc[u] = "save"
    BY <1>1, <1>3, <2>1 DEF LaunchInv, TypeOK, FirstStep
  <2> QED BY <1>1, <2>1, <2>2, <2>3, LookedAt
<1> QED BY <1>2, <1>3 DEF Watch

\* A CLI ends, or a turn starts, that nobody has looked at.
LEMMA FinishedJob ==
  ASSUME LaunchInv, JobInv, NEW s \in Slot, Finish(s)
  PROVE  JobInv'
<1>1. /\ UNCHANGED <<job, calls, serving, seen, pc, target>>
      /\ \A q \in Slot : exec'[q] = "pending" => exec[q] = "pending"
      /\ \A q \in Slot : exec[q] = "none" => exec'[q] = "none"
  BY DEF LaunchInv, TypeOK, Finish, rows, local, Terminal
<1> QED BY <1>1, SlotFacts DEF JobInv

LEMMA StartedJob ==
  ASSUME LaunchInv, JobInv, StartRun
  PROVE  JobInv'
<1> DEFINE s == Entry(submitted)
<1>1. submitted \in Run /\ s \in Slot /\ calls[s] = 0 /\ job[s].status = "none"
  BY SlotFacts DEF LaunchInv, EntriesFresh, StartRun, JobInv
<1>2. /\ UNCHANGED <<serving, seen, target>> /\ \A u \in Slot \cup Poller : pc'[u] = pc[u]
      /\ \A u \in Thread : pc'[u] = "save" => pc[u] = "save"
      /\ job'[s].status = "pending" /\ calls'[s] = 1
      /\ \A q \in Slot : q # s => job'[q] = job[q] /\ exec'[q] = exec[q] /\ calls'[q] = calls[q]
  BY <1>1, ThreadFacts DEF LaunchInv, TypeOK, StartRun, Goes, local, rest
<1>3. \A u \in Slot \cup Poller : pc[u] # "idle" => serving[u] # s
  BY <1>1 DEF LaunchInv, Copies
<1>4. \A u \in Thread : pc'[u] = "save" => calls'[target'[u]] # 0
  <2>1. ASSUME NEW u \in Thread, pc[u] = "save" PROVE target[u] \in Slot /\ calls[target[u]] # 0
    BY <2>1, SlotFacts DEF LaunchInv, Aims, Launching, JobInv
  <2> QED BY <1>2, <2>1
<1> QED BY <1>1, <1>2, <1>3, <1>4, SlotFacts DEF JobInv

\* Every step of the chain keeps the rows of jobs.
LEMMA ChainJobs ==
  ASSUME LaunchInv, JobInv, NEW t \in Thread, Step(t)
  PROVE  JobInv'
  BY QuietSteps, SavedCopy, LockedCopy, ExecutedJob, SavedRow, WatchedJob DEF Step

-----------------------------------------------------------------------------
(* The steps that AgentRun does not have.                                   *)

\* A refused turn leaves everything as it was.
LEMMA Refused ==
  ASSUME LaunchInv, JobInv, RefuseTurn
  PROVE  LaunchInv' /\ JobInv'
<1>1. /\ pc[Submitter] = "start" /\ pc' = [pc EXCEPT ![Submitter] = "idle"]
      /\ UNCHANGED <<active, msg, job, exec, watched, calls, serving, seen, view, target, direct, todo,
                     host, submitted, faults>>
  BY DEF RefuseTurn, Goes, rows, provider, local, rest
<1>2. /\ pc \in [Thread -> PCs] /\ pc'[Submitter] = "idle"
      /\ \A t \in Thread : t # Submitter => pc'[t] = pc[t]
  BY <1>1, ThreadFacts DEF LaunchInv, TypeOK
<1>3. pc' \in [Thread -> PCs]
  BY <1>1, <1>2 DEF PCs
<1>4. TypeOK'
  BY <1>1, <1>3 DEF LaunchInv, TypeOK
<1>5. OncePerFollowUp' /\ ReservedIsUnsent'
  BY <1>1 DEF LaunchInv, OncePerFollowUp, ReservedIsUnsent
<1>6. Roles' /\ Copies'
  BY <1>1, <1>2, ThreadFacts DEF LaunchInv, Roles, Copies
<1>7. Aims' /\ OneLauncher' /\ LaunchesFresh'
  BY <1>1, <1>2, ThreadFacts DEF LaunchInv, Aims, OneLauncher, LaunchesFresh, Launching
<1>8. EntriesFresh'
  BY <1>1, <1>2 DEF LaunchInv, EntriesFresh
<1>9. JobInv'
  BY <1>1, <1>2, ThreadFacts DEF JobInv
<1> QED BY <1>4, <1>5, <1>6, <1>7, <1>8, <1>9 DEF LaunchInv

\* The status looks at a job that has ended.
LEMMA SyncedEnded ==
  ASSUME LaunchInv, JobInv, NEW s \in Slot, job[s].status # "none", SyncEnded(s)
  PROVE  LaunchInv' /\ JobInv'
<1>1. /\ pc[Asker] = "idle" /\ pc' = [pc EXCEPT ![Asker] = "lock"]
      /\ serving' = [serving EXCEPT ![Asker] = s] /\ seen' = [seen EXCEPT ![Asker] = job[s]]
      /\ UNCHANGED <<active, msg, job, exec, watched, calls, view, target, direct, todo, host, submitted, faults>>
      /\ Asker \in Poller /\ Asker \in Thread /\ Asker \notin Reconciler /\ Asker # Submitter
  BY DrainAssumption, ThreadFacts DEF SyncEnded, Goes, rows, provider, rest
<1>2. /\ pc'[Asker] = "lock" /\ serving'[Asker] = s /\ seen'[Asker] = job[s]
      /\ \A t \in Thread : t # Asker => pc'[t] = pc[t] /\ serving'[t] = serving[t] /\ seen'[t] = seen[t]
  BY <1>1 DEF LaunchInv, TypeOK
<1>3. TypeOK'
  <2>1. pc' \in [Thread -> PCs]
    BY <1>1 DEF LaunchInv, TypeOK, PCs
  <2> QED BY <1>1, <2>1 DEF LaunchInv, TypeOK
<1>4. OncePerFollowUp' /\ ReservedIsUnsent'
  BY <1>1 DEF LaunchInv, OncePerFollowUp, ReservedIsUnsent
<1>5. Roles' /\ Copies'
  BY <1>1, <1>2, ThreadFacts DEF LaunchInv, Roles, Copies
<1>6. Aims' /\ OneLauncher' /\ LaunchesFresh'
  BY <1>1, <1>2, ThreadFacts DEF LaunchInv, Aims, OneLauncher, LaunchesFresh, Launching
<1>7. EntriesFresh'
  BY <1>1, <1>2, ThreadFacts DEF LaunchInv, EntriesFresh
<1>8. JobInv'
  BY <1>1, <1>2, ThreadFacts DEF JobInv
<1> QED BY <1>3, <1>4, <1>5, <1>6, <1>7, <1>8 DEF LaunchInv

\* A run that counts as stale is ended.
LEMMA EndedStale ==
  ASSUME LaunchInv, JobInv, EndStaleRun
  PROVE  LaunchInv' /\ JobInv'
<1>1. /\ active' = NoRun
      /\ UNCHANGED <<msg, job, exec, watched, calls, pc, serving, seen, view, target, direct, todo,
                     host, submitted, faults>>
  BY DEF EndStaleRun, provider, local, rest
<1>2. TypeOK'
  BY <1>1 DEF LaunchInv, TypeOK
<1>3. OncePerFollowUp' /\ ReservedIsUnsent' /\ Roles' /\ Copies' /\ Aims' /\ OneLauncher'
  BY <1>1 DEF LaunchInv, OncePerFollowUp, ReservedIsUnsent, Roles, Copies, Aims, OneLauncher
<1>4. LaunchesFresh' /\ EntriesFresh'
  BY <1>1 DEF LaunchInv, LaunchesFresh, EntriesFresh
<1>5. JobInv'
  BY <1>1 DEF JobInv
<1> QED BY <1>2, <1>3, <1>4, <1>5 DEF LaunchInv

-----------------------------------------------------------------------------
(* The status, LockInv.                                                     *)

\* Jobs stay in the table, and the chain starts no turn of a user.
LEMMA StepJobs ==
  ASSUME LaunchInv, JobInv, NEW t \in Thread, Step(t)
  PROVE  /\ \A s \in Slot : job[s].status # "none" => job'[s].status # "none"
         /\ \A r \in Run : exec'[Entry(r)] = "pending" => exec[Entry(r)] = "pending"
<1>1. CASE UNCHANGED <<exec, job>>
  BY <1>1
<1>2. CASE StoreJob(t)
  <2>1. seen[t].status # "none" /\ UNCHANGED exec
    BY <1>2, ThreadFacts DEF LaunchInv, Roles, Copies, StoreJob, Guarded, Launching, provider
  <2> QED BY <1>2, <2>1 DEF LaunchInv, TypeOK, StoreJob
<1>3. CASE MarkProcessed(t)
  <2>1. seen[t].status # "none" /\ seen[t] \in JobRow /\ UNCHANGED exec
    BY <1>3, ThreadFacts DEF LaunchInv, TypeOK, Roles, Copies, MarkProcessed, Guarded, Launching, provider
  <2>2. [seen[t] EXCEPT !.processed = TRUE].status # "none"
    BY <2>1, Rows
  <2>3. job' = [job EXCEPT ![serving[t]] = [seen[t] EXCEPT !.processed = TRUE]]
    BY <1>3 DEF MarkProcessed
  <2> QED BY <2>1, <2>2, <2>3 DEF LaunchInv, TypeOK
<1>4. CASE Execute(t)
  BY <1>4, SlotFacts DEF LaunchInv, TypeOK, Aims, Launching, Execute, rows
<1>5. CASE SaveTurn(t)
  BY <1>5 DEF LaunchInv, TypeOK, SaveTurn, provider
<1>6. CASE Recover(t)
  <2>1. UNCHANGED exec
    BY <1>6 DEF Recover, provider
  <2>2. job' = job \/ \E s \in FollowUp : Attach(t, s)
    BY <1>6 DEF Recover, RecoverPending, RecoverReserved, GiveUp, Unattached, rows
  <2>3. ASSUME NEW s \in FollowUp, Attach(t, s)
        PROVE  \A q \in Slot : job[q].status # "none" => job'[q].status # "none"
    BY <2>3 DEF LaunchInv, TypeOK, Attach
  <2> QED BY <2>1, <2>2, <2>3
<1>7. StoreJob(t) \/ MarkProcessed(t) \/ Execute(t) \/ SaveTurn(t) \/ Recover(t) \/ UNCHANGED <<exec, job>>
  <2>1. CASE TakeLock(t) \/ ReadSession(t) \/ LearnSession(t) \/ SyncMessage(t) \/ TouchSession(t) \/ ReadForChain(t)
    BY <2>1 DEF TakeLock, ReadSession, LearnSession, SyncMessage, TouchSession, ReadForChain, rows, provider
  <2>2. CASE Choose(t) \/ Reserve(t) \/ ResaveSession(t) \/ CompleteRun(t) \/ Recheck(t) \/ Claim(t)
    BY <2>2 DEF Choose, Reserve, ResaveSession, CompleteRun, Recheck, Claim, rows, provider
  <2>3. CASE Watch(t) \/ NestedReturns(t) \/ RereadSession(t) \/ SyncAttached(t) \/ List(t) \/ Cancel(t)
    BY <2>3 DEF Watch, NestedReturns, RereadSession, SyncAttached, List, Cancel, rows, provider
  <2> QED BY <2>1, <2>2, <2>3 DEF Step
<1> QED BY <1>1, <1>2, <1>3, <1>4, <1>5, <1>6, <1>7

\* What the chain does hides no turn from the status.
LEMMA ChainStatus ==
  ASSUME DrainInv, Chain
  PROVE  LaunchInv' /\ JobInv' /\ LockInv' /\ HumanTurnsWait'
<1>1. /\ LaunchInv' /\ JobInv'
      /\ \A s \in Slot : job[s].status # "none" => job'[s].status # "none"
      /\ \A r \in Run : exec'[Entry(r)] = "pending" => exec[Entry(r)] = "pending"
  <2>1. ASSUME NEW t \in Thread, Step(t) PROVE <1>1
    <3>1. LaunchInv'
      BY <2>1, Keeps DEF DrainInv, Next
    <3> QED BY <2>1, <3>1, ChainJobs, StepJobs DEF DrainInv
  <2>2. ASSUME NEW s \in Slot, Callback(s) PROVE <1>1
    <3>1. UNCHANGED <<exec, job>>
      BY <2>2 DEF Callback, rows
    <3> QED BY <2>2, <3>1, CallbackKeeps, CalledBackJob DEF DrainInv
  <2>3. ASSUME NEW s \in Slot, Finish(s) PROVE <1>1
    <3>1. UNCHANGED job /\ \A q \in Slot : exec'[q] = "pending" => exec[q] = "pending"
      BY <2>3 DEF DrainInv, LaunchInv, TypeOK, Finish, rows, Terminal
    <3> QED BY <2>3, <3>1, FinishKeeps, FinishedJob, SlotFacts DEF DrainInv
  <2> QED BY <2>1, <2>2, <2>3 DEF Chain
<1>2. UNCHANGED <<draining, entering, phase, left, busy, ready>>
  BY DEF Chain
<1>3. left \subseteq Slot
  BY DEF DrainInv, DrainTypeOK
<1>4. LockInv' /\ HumanTurnsWait'
  BY <1>1, <1>2, <1>3 DEF DrainInv, LockInv, HumanTurnsWait
<1> QED BY <1>1, <1>4

\* A turn enters only when no status is computed and no drain goes on.
LEMMA TurnStatus ==
  ASSUME DrainInv, BeginTurn \/ EnterTurn \/ RefuseTurn \/ StartTurn
  PROVE  LaunchInv' /\ JobInv' /\ LockInv' /\ HumanTurnsWait'
<1>1. CASE BeginTurn
  <2>1. UNCHANGED <<exec, job, calls, serving, seen, target, draining, entering, phase, left, busy, ready>>
    BY <1>1 DEF BeginTurn, Submit, drainVars, status, rows, provider
  <2>2. /\ \A t \in Slot \cup Poller : pc'[t] = pc[t]
        /\ \A t \in Thread : pc'[t] = "save" => pc[t] = "save"
    BY <1>1, ThreadFacts DEF BeginTurn, Submit, Goes, DrainInv, LaunchInv, TypeOK
  <2>3. LaunchInv' /\ JobInv'
    BY <1>1, <2>1, <2>2, SubmitKeeps, Untouched DEF BeginTurn, DrainInv
  <2> QED BY <2>1, <2>3 DEF DrainInv, LockInv, HumanTurnsWait
<1>2. CASE EnterTurn
  <2>1. UNCHANGED vars /\ UNCHANGED <<exec, job, calls, serving, seen, target, pc>>
    BY <1>2 DEF EnterTurn, vars, rows, provider, local
  <2>2. LaunchInv' /\ JobInv'
    BY <2>1, StutterKeeps, Untouched DEF DrainInv
  <2>3. /\ entering' /\ ~draining' /\ phase' \in {"off", "requested"}
        /\ UNCHANGED <<draining, phase, left, busy, ready>>
    BY <1>2 DEF EnterTurn, MaintenanceFree, status
  <2> QED BY <2>1, <2>2, <2>3 DEF DrainInv, LockInv, HumanTurnsWait
<1>3. CASE RefuseTurn
  <2>1. UNCHANGED <<exec, job, draining, entering, phase, left, busy, ready>>
    BY <1>3 DEF RefuseTurn, drainVars, status, rows, provider
  <2> QED BY <1>3, <2>1, Refused DEF DrainInv, LockInv, HumanTurnsWait
<1>4. CASE StartTurn
  <2>1. LaunchInv' /\ JobInv'
    BY <1>4, StartRunKeeps, StartedJob DEF StartTurn, DrainInv
  <2>2. /\ entering /\ ~entering' /\ UNCHANGED <<draining, phase, left, busy, ready>>
        /\ \A s \in Slot : job[s].status # "none" => job'[s].status # "none"
    BY <1>4 DEF StartTurn, StartRun, status, DrainInv, LaunchInv, TypeOK
  <2>3. ~draining /\ phase \in {"off", "requested"} /\ ~ready /\ left \subseteq Slot
    BY <2>2 DEF DrainInv, LockInv, DrainTypeOK
  <2> QED BY <2>1, <2>2, <2>3 DEF DrainInv, LockInv, HumanTurnsWait
<1> QED BY <1>1, <1>2, <1>3, <1>4

\* Steps of the status that only read.
LEMMA ReadingSteps ==
  ASSUME DrainInv,
         \/ Request \/ BeginStatus \/ ListEnded \/ FindJobs \/ FindMessages \/ ListActive
         \/ ReadSessions \/ Report
  PROVE  LaunchInv' /\ JobInv' /\ LockInv' /\ HumanTurnsWait'
<1>1. UNCHANGED vars /\ UNCHANGED <<exec, job, calls, serving, seen, target, pc>>
  BY DEF Request, BeginStatus, ListEnded, FindJobs, FindMessages, ListActive, ReadSessions, Report,
     vars, rows, provider, local
<1>2. LaunchInv' /\ JobInv'
  BY <1>1, StutterKeeps, Untouched DEF DrainInv
<1>3. \A r \in Run : exec[Entry(r)] = "pending" => job[Entry(r)].status = "pending" /\ Entry(r) \in Slot
  BY SlotFacts DEF DrainInv, JobInv
<1>4. CASE Request
  BY <1>1, <1>2, <1>4 DEF Request, DrainInv, DrainTypeOK, LockInv, HumanTurnsWait
<1>5. CASE BeginStatus
  BY <1>1, <1>2, <1>5 DEF BeginStatus, DrainInv, DrainTypeOK, LockInv, HumanTurnsWait
<1>6. CASE ListEnded
  BY <1>1, <1>2, <1>6 DEF ListEnded, DrainInv, DrainTypeOK, LockInv, HumanTurnsWait, Terminal
<1>7. CASE FindJobs \/ FindMessages
  BY <1>1, <1>2, <1>7 DEF FindJobs, FindMessages, DrainInv, DrainTypeOK, LockInv, HumanTurnsWait
<1>8. CASE ListActive
  BY <1>1, <1>2, <1>3, <1>8 DEF ListActive, DrainInv, DrainTypeOK, LockInv, HumanTurnsWait
<1>9. CASE ReadSessions
  BY <1>1, <1>2, <1>9 DEF ReadSessions, Asked, DrainInv, DrainTypeOK, LockInv, HumanTurnsWait
<1>10. CASE Report
  BY <1>1, <1>2, <1>10 DEF Report, DrainInv, DrainTypeOK, LockInv, HumanTurnsWait
<1> QED BY <1>2, <1>4, <1>5, <1>6, <1>7, <1>8, <1>9, <1>10

\* Steps of the status that ask for a job, or reconcile the chat.
LEMMA ActingSteps ==
  ASSUME DrainInv,
         \/ \E s \in Slot : AskJob(s) \/ SyncEnded(s)
         \/ ListSessions \/ EndStaleRun
  PROVE  LaunchInv' /\ JobInv' /\ LockInv' /\ HumanTurnsWait'
<1>1. ASSUME NEW s \in Slot, AskJob(s) PROVE LaunchInv' /\ JobInv' /\ LockInv' /\ HumanTurnsWait'
  <2>1. LaunchInv' /\ JobInv'
    BY <1>1, PollKeeps, PolledJob, DrainAssumption DEF AskJob, DrainInv
  <2>2. /\ UNCHANGED <<exec, job, draining, entering, phase, ready>> /\ left' = left \ {s}
        /\ busy' = (busy \/ (phase = "active" /\ seen'[Asker].status \notin Terminal))
        /\ phase \in {"jobs", "active"}
    BY <1>1 DEF AskJob, Poll, rows, provider
  <2>3. seen'[Asker] = Observed(s)
    BY <1>1, ThreadFacts, DrainAssumption DEF AskJob, Poll, DrainInv, LaunchInv, TypeOK
  <2>4. \A r \in Run : s = Entry(r) /\ exec[s] = "pending" => Observed(s).status \notin Terminal
    BY ObservedJob DEF DrainInv, JobInv, Terminal
  <2> QED BY <2>1, <2>2, <2>3, <2>4 DEF DrainInv, DrainTypeOK, LockInv, HumanTurnsWait
<1>2. ASSUME NEW s \in Slot, SyncEnded(s) PROVE LaunchInv' /\ JobInv' /\ LockInv' /\ HumanTurnsWait'
  <2>1. /\ UNCHANGED <<exec, job, draining, entering, phase, busy, ready>> /\ left' = left \ {s}
        /\ phase = "ended" /\ job[s].status # "none"
    BY <1>2 DEF SyncEnded, rows, provider, DrainInv, LockInv
  <2>2. LaunchInv' /\ JobInv'
    BY <1>2, <2>1, SyncedEnded DEF DrainInv
  <2> QED BY <2>1, <2>2 DEF DrainInv, DrainTypeOK, LockInv, HumanTurnsWait
<1>3. CASE ListSessions
  <2>1. Resolver \in Thread /\ Resolver \notin Slot \cup Poller
    BY DrainAssumption, ThreadAssumption, ThreadFacts
  <2>2. /\ UNCHANGED <<exec, job, calls, serving, seen, target, draining, entering, left, busy, ready>>
        /\ phase = "ended" /\ phase' = "follow"
    BY <1>3 DEF ListSessions, Reconcile, rows, provider
  <2>3. /\ \A t \in Slot \cup Poller : pc'[t] = pc[t]
        /\ \A t \in Thread : pc'[t] = "save" => pc[t] = "save"
    BY <1>3, <2>1, ThreadFacts DEF ListSessions, Reconcile, Goes, DrainInv, LaunchInv, TypeOK
  <2>4. LaunchInv' /\ JobInv'
    BY <1>3, <2>1, <2>2, <2>3, ReconcileKeeps, Untouched DEF ListSessions, DrainInv
  <2> QED BY <2>2, <2>4 DEF DrainInv, DrainTypeOK, LockInv, HumanTurnsWait
<1>4. CASE EndStaleRun
  <2>1. /\ UNCHANGED <<exec, job, draining, entering, left, busy, ready>>
        /\ phase = "stale" /\ phase' = "staleJobs"
    BY <1>4 DEF EndStaleRun, provider
  <2> QED BY <1>4, <2>1, EndedStale DEF DrainInv, DrainTypeOK, LockInv, HumanTurnsWait
<1> QED BY <1>1, <1>2, <1>3, <1>4

-----------------------------------------------------------------------------
(* What threads do with their copies, QuietInv.                             *)

\* What a step of a thread does with its copies: other threads keep theirs; a copy
\* of the session that may be saved later is kept or was just read; the chain goes
\* on for a run only; and what is to be saved of messages was just read, too.
CopyStep(t) ==
  /\ \A u \in Thread \ {t} :
       /\ view'[u] = view[u] /\ todo'[u] = todo[u] /\ target'[u] = target[u]
       /\ pc'[u] = pc[u] \/ (pc[u] = "idle" /\ pc'[u] \in {"lock", "store"})
  /\ pc'[t] \in Copying =>
       \/ pc[t] \in Copying /\ view'[t] = view[t]
       \/ view'[t] = active /\ active' = active
  /\ pc'[t] \in LaunchSteps => (pc[t] \in LaunchSteps /\ view'[t] = view[t]) \/ view'[t] # NoRun
  /\ pc'[t] \in {"cancel", "drop"} =>
       \A o \in todo'[t] : (pc[t] \in {"cancel", "drop"} /\ o \in todo[t]) \/ msg[o[1]].status # "pending"
  /\ pc'[t] \notin {"cancel", "drop"} =>
       \A o \in todo'[t] : \/ pc[t] \notin {"cancel", "drop"} /\ o \in todo[t]
                           \/ exec[o[1]] # "none" /\ o[2] = exec[o[1]]

\* It saves its copy of the session, or ends the run, or leaves the session alone.
ActiveStep(t) == active' \in {active, NoRun} \/ (pc[t] \in Copying /\ active' = view[t])

\* Steps of get_job, and the end of the side effects.
LEMMA ServingCopies ==
  ASSUME LaunchInv, NEW t \in Thread,
         \/ StoreJob(t) \/ TakeLock(t) \/ ReadSession(t) \/ LearnSession(t) \/ SyncMessage(t)
         \/ TouchSession(t) \/ MarkProcessed(t)
  PROVE  CopyStep(t) /\ ActiveStep(t)
<1>1. /\ UNCHANGED <<todo, target>> /\ pc[t] \notin {"cancel", "drop"} /\ pc'[t] \notin {"cancel", "drop"}
      /\ \A u \in Thread \ {t} : view'[u] = view[u] /\ pc'[u] = pc[u]
      /\ pc'[t] \notin LaunchSteps
  BY DEF LaunchInv, TypeOK, StoreJob, TakeLock, ReadSession, LearnSession, SyncMessage, TouchSession,
     MarkProcessed, Goes, local, LaunchSteps, Launching
<1>2. CASE StoreJob(t) \/ TakeLock(t) \/ MarkProcessed(t)
  <2>1. active' = active /\ pc'[t] \notin Copying
    BY <1>2 DEF LaunchInv, TypeOK, StoreJob, TakeLock, MarkProcessed, Goes, rows, Copying, Launching
  <2> QED BY <1>1, <2>1 DEF CopyStep, ActiveStep
<1>3. CASE ReadSession(t)
  <2>1. active' = active /\ view'[t] = active
    BY <1>3 DEF LaunchInv, TypeOK, ReadSession, rows
  <2> QED BY <1>1, <2>1 DEF CopyStep, ActiveStep
<1>4. CASE LearnSession(t) \/ SyncMessage(t) \/ TouchSession(t)
  <2>1. active' \in {active, view[t]} /\ UNCHANGED view /\ pc[t] \in Copying
    BY <1>4 DEF LearnSession, SyncMessage, TouchSession, SaveView, local, Copying
  <2> QED BY <1>1, <2>1 DEF CopyStep, ActiveStep
<1> QED BY <1>2, <1>3, <1>4

\* Steps of the chain up to the launch.
LEMMA ChainCopies ==
  ASSUME LaunchInv, NEW t \in Thread,
         \/ ReadForChain(t) \/ Choose(t) \/ Reserve(t) \/ ResaveSession(t) \/ CompleteRun(t)
  PROVE  CopyStep(t) /\ ActiveStep(t)
<1>1. /\ UNCHANGED todo /\ pc[t] \notin {"cancel", "drop"} /\ pc'[t] \notin {"cancel", "drop"}
      /\ \A u \in Thread \ {t} : view'[u] = view[u] /\ pc'[u] = pc[u] /\ target'[u] = target[u]
  <2> USE DEF LaunchInv, TypeOK, Goes, local
  <2>1. CASE ReadForChain(t) \/ ResaveSession(t) \/ CompleteRun(t)
    BY <2>1 DEF ReadForChain, ResaveSession, CompleteRun
  <2>2. CASE Choose(t)
    BY <2>2 DEF Choose
  <2>3. CASE Reserve(t)
    BY <2>3 DEF Reserve, AfterLaunch
  <2> QED BY <2>1, <2>2, <2>3
<1>2. CASE ReadForChain(t)
  <2>1. active' = active /\ view'[t] = active
    BY <1>2 DEF LaunchInv, TypeOK, ReadForChain, rows
  <2>2. RunOf(serving[t]) # NoRun
    <3>1. serving[t] \in Slot
      BY <1>2, ThreadFacts DEF LaunchInv, Roles, Copies, ReadForChain, Guarded, Launching
    <3> QED BY <3>1, SlotFacts DEF Run, NoRun
  <2>3. pc'[t] \in LaunchSteps => active # NoRun
    BY <1>2, <2>2 DEF LaunchInv, TypeOK, ReadForChain, Goes, LaunchSteps, Launching
  <2> QED BY <1>1, <2>1, <2>3 DEF CopyStep, ActiveStep
<1>3. CASE Choose(t) \/ Reserve(t)
  <2>1. active' = active /\ UNCHANGED view /\ pc[t] \in Copying /\ pc[t] \in LaunchSteps
    BY <1>3 DEF Choose, Reserve, rows, local, Copying, LaunchSteps
  <2> QED BY <1>1, <2>1 DEF CopyStep, ActiveStep
<1>4. CASE ResaveSession(t) \/ CompleteRun(t)
  <2>1. /\ UNCHANGED view /\ pc[t] \in Copying /\ pc'[t] \in {"idle", "mark"}
        /\ active' \in {active, view[t], NoRun}
    BY <1>4 DEF LaunchInv, TypeOK, ResaveSession, CompleteRun, SaveView, Goes, local, Copying
  <2>2. pc'[t] \notin Copying /\ pc'[t] \notin LaunchSteps
    BY <2>1 DEF Copying, LaunchSteps, Launching
  <2> QED BY <1>1, <2>1, <2>2 DEF CopyStep, ActiveStep
<1> QED BY <1>2, <1>3, <1>4

\* Steps of the launch.
LEMMA LaunchCopies ==
  ASSUME LaunchInv, NEW t \in Thread,
         \/ Recheck(t) \/ Claim(t) \/ Execute(t) \/ SaveTurn(t) \/ Watch(t) \/ NestedReturns(t)
  PROVE  CopyStep(t) /\ ActiveStep(t)
<1>1. /\ UNCHANGED <<todo, target, view>> /\ pc[t] \in Copying
      /\ pc[t] \notin {"cancel", "drop"} /\ pc'[t] \notin {"cancel", "drop"}
      /\ pc'[t] \in LaunchSteps => pc[t] \in LaunchSteps
  <2> USE DEF LaunchInv, TypeOK, Goes, local, LaunchSteps, Launching, Copying
  <2>1. CASE Recheck(t) \/ Claim(t)
    BY <2>1 DEF Recheck, Claim, AfterLaunch
  <2>2. CASE Execute(t) \/ SaveTurn(t)
    BY <2>2 DEF Execute, SaveTurn
  <2>3. CASE NestedReturns(t)
    BY <2>3 DEF NestedReturns, AfterWatch, AfterLaunch
  <2>4. CASE Watch(t)
    BY <2>4 DEF Watch, AfterWatch, AfterLaunch, FirstStep
  <2> QED BY <2>1, <2>2, <2>3, <2>4
<1>2. active' \in {active, view[t]}
  BY DEF Recheck, Claim, Execute, SaveTurn, Watch, NestedReturns, SaveView, rows
<1>3. \A u \in Thread \ {t} : pc'[u] = pc[u] \/ (pc[u] = "idle" /\ pc'[u] \in {"lock", "store"})
  <2>1. CASE Recheck(t) \/ Claim(t) \/ Execute(t) \/ SaveTurn(t) \/ NestedReturns(t)
    BY <2>1 DEF LaunchInv, TypeOK, Recheck, Claim, Execute, SaveTurn, NestedReturns, Goes
  <2>2. CASE Watch(t)
    BY <2>2 DEF LaunchInv, TypeOK, Watch, Goes, FirstStep
  <2> QED BY <2>1, <2>2
<1> QED BY <1>1, <1>2, <1>3 DEF CopyStep, ActiveStep

\* Steps of the recovery.
LEMMA RecoveryCopies ==
  ASSUME LaunchInv, NEW t \in Thread, Recover(t) \/ RereadSession(t) \/ SyncAttached(t)
  PROVE  CopyStep(t) /\ ActiveStep(t)
<1>1. CASE Recover(t)
  <2>1. /\ UNCHANGED view /\ pc[t] = "recover" /\ pc'[t] \notin {"cancel", "drop"}
        /\ \A u \in Thread \ {t} : pc'[u] = pc[u] /\ target'[u] = target[u] /\ todo'[u] = todo[u]
    BY <1>1 DEF LaunchInv, TypeOK, Recover, RecoverPending, RecoverReserved, Attach, GiveUp, Goes
  <2>2. \/ active' = active /\ todo' = todo
        \/ \E s \in FollowUp : /\ active' = view[t] /\ exec[s] # "none"
                               /\ todo' = [todo EXCEPT ![t] = {<<s, exec[s]>>}]
    BY <1>1 DEF Recover, RecoverPending, RecoverReserved, Attach, GiveUp, SaveView, Unattached, rows
  <2>3. active' \in {active, view[t]}
    BY <2>2
  <2>4. \A o \in todo'[t] : o \in todo[t] \/ (exec[o[1]] # "none" /\ o[2] = exec[o[1]])
    BY <2>2 DEF LaunchInv, TypeOK
  <2>5. pc[t] \in Copying /\ pc[t] \in LaunchSteps
    BY <2>1 DEF Copying, LaunchSteps
  <2> QED BY <2>1, <2>3, <2>4, <2>5 DEF CopyStep, ActiveStep
<1>2. CASE RereadSession(t)
  <2>1. /\ UNCHANGED <<active, todo, target>> /\ view'[t] = active
        /\ pc[t] = "reread" /\ pc'[t] = "resync"
        /\ \A u \in Thread \ {t} : pc'[u] = pc[u] /\ view'[u] = view[u]
    BY <1>2 DEF LaunchInv, TypeOK, RereadSession, Goes, rows
  <2>2. pc'[t] \notin LaunchSteps
    BY <2>1 DEF LaunchSteps, Launching
  <2> QED BY <2>1, <2>2 DEF CopyStep, ActiveStep
<1>3. CASE SyncAttached(t)
  <2>1. /\ UNCHANGED <<active, view, target>> /\ todo'[t] = {}
        /\ pc[t] = "resync" /\ pc'[t] \in {"resave", "idle", "mark"}
        /\ \A u \in Thread \ {t} : pc'[u] = pc[u] /\ todo'[u] = todo[u]
    BY <1>3 DEF LaunchInv, TypeOK, SyncAttached, AfterLaunch, Goes
  <2>2. pc'[t] \notin LaunchSteps /\ pc[t] \in Copying
    BY <2>1 DEF LaunchSteps, Launching, Copying
  <2> QED BY <2>1, <2>2 DEF CopyStep, ActiveStep
<1> QED BY <1>1, <1>2, <1>3

\* Steps of the cancellation.
LEMMA CancelCopies ==
  ASSUME LaunchInv, NEW t \in Thread, List(t) \/ Cancel(t)
  PROVE  CopyStep(t) /\ ActiveStep(t)
<1>1. /\ UNCHANGED <<view, target>> /\ pc[t] \in {"list", "supersede", "cancel", "drop"}
      /\ \A u \in Thread \ {t} : pc'[u] = pc[u] /\ todo'[u] = todo[u]
      /\ active' \in {active, view[t]}
  BY DEF LaunchInv, TypeOK, List, Cancel, SaveView, Goes, rows
<1>2. pc[t] \in Copying
  BY <1>1 DEF Copying
<1>3. AfterCancel(t) \in LaunchSteps => view[t] # NoRun
  BY DEF AfterCancel, LaunchSteps, Launching
<1>4. AfterCancel(t) \notin {"cancel", "drop"}
  BY DEF AfterCancel
<1>5. CASE List(t)
  <2> DEFINE found == Orphans(IF pc[t] = "list" THEN Run \ {view[t]} ELSE {view[t]})
  <2>1. \A o \in found : msg[o[1]].status # "pending"
    BY DEF Orphans, Resolution
  <2>2. /\ todo'[t] = found
        /\ pc'[t] = IF pc[t] = "list" THEN IF found = {} THEN AfterCancel(t) ELSE "cancel"
                    ELSE IF found = {} THEN "start" ELSE "drop"
    BY <1>5 DEF LaunchInv, TypeOK, List, Goes
  <2> HIDE DEF found
  <2>3. pc'[t] \in {"cancel", "drop", "start"} \/ (found = {} /\ pc'[t] = AfterCancel(t))
    BY <2>2
  <2>4. pc'[t] \in LaunchSteps => view[t] # NoRun
    BY <1>3, <2>3 DEF LaunchSteps, Launching
  <2>5. pc'[t] \notin {"cancel", "drop"} => found = {}
    BY <2>2
  <2> QED BY <1>1, <1>2, <2>1, <2>2, <2>4, <2>5 DEF CopyStep, ActiveStep
<1>6. CASE Cancel(t)
  <2>1. /\ todo'[t] \subseteq todo[t] /\ pc[t] \in {"cancel", "drop"}
        /\ pc'[t] = pc[t] \/ (todo'[t] = {} /\ pc'[t] \in {AfterCancel(t), "start"})
    BY <1>6 DEF LaunchInv, TypeOK, Cancel, Goes
  <2>2. pc'[t] \in LaunchSteps => view[t] # NoRun
    BY <1>3, <2>1 DEF LaunchSteps, Launching
  <2> QED BY <1>1, <1>2, <1>4, <2>1, <2>2 DEF CopyStep, ActiveStep
<1> QED BY <1>5, <1>6

LEMMA StepCopies ==
  ASSUME LaunchInv, NEW t \in Thread, Step(t)
  PROVE  CopyStep(t) /\ ActiveStep(t)
  BY ServingCopies, ChainCopies, LaunchCopies, RecoveryCopies, CancelCopies DEF Step

\* A CLI is started by Execute only.
LEMMA StepCalls ==
  ASSUME LaunchInv, JobInv, NEW t \in Thread, Step(t)
  PROVE  /\ \A s \in Slot : calls[s] # 0 => calls'[s] # 0 /\ (exec'[s] = "pending" => exec[s] = "pending")
         /\ \A s \in Slot : exec'[s] = "pending" =>
              \/ exec[s] = "pending"
              \/ pc[t] = "execute" /\ pc'[t] = "save" /\ target'[t] = s
<1>1. CASE UNCHANGED <<exec, calls>>
  BY <1>1
<1>2. CASE Execute(t)
  <2>1. target[t] \in Slot /\ calls[target[t]] = 0
    BY <1>2, SlotFacts DEF LaunchInv, Aims, Launching, LaunchesFresh, Execute
  <2>2. /\ pc[t] = "execute" /\ pc'[t] = "save" /\ target' = target
        /\ \A s \in Slot : s # target[t] => exec'[s] = exec[s] /\ calls'[s] = calls[s]
    BY <1>2 DEF LaunchInv, TypeOK, Execute, Goes, local
  <2> QED BY <2>1, <2>2
<1>3. Execute(t) \/ UNCHANGED <<exec, calls>>
  <2>1. CASE StoreJob(t) \/ TakeLock(t) \/ ReadSession(t) \/ LearnSession(t) \/ SyncMessage(t) \/ TouchSession(t)
             \/ ReadForChain(t) \/ MarkProcessed(t)
    BY <2>1 DEF StoreJob, TakeLock, ReadSession, LearnSession, SyncMessage, TouchSession, ReadForChain,
       MarkProcessed, provider
  <2>2. CASE Choose(t) \/ Reserve(t) \/ ResaveSession(t) \/ CompleteRun(t) \/ Recheck(t) \/ Claim(t) \/ SaveTurn(t)
    BY <2>2 DEF Choose, Reserve, ResaveSession, CompleteRun, Recheck, Claim, SaveTurn, provider
  <2>3. CASE Watch(t) \/ NestedReturns(t) \/ Recover(t) \/ RereadSession(t) \/ SyncAttached(t) \/ List(t) \/ Cancel(t)
    BY <2>3 DEF Watch, NestedReturns, Recover, RereadSession, SyncAttached, List, Cancel, provider
  <2> QED BY <2>1, <2>2, <2>3 DEF Step
<1> QED BY <1>1, <1>2, <1>3

\* The message of a CLI that runs stays in flight.
LEMMA StepInFlight ==
  ASSUME LaunchInv, JobInv, AttachedInv, InStep, NEW t \in Thread, Step(t),
         NEW s \in Slot, exec[s] = "pending", msg[s].status = "pending"
  PROVE  msg'[s].status = "pending"
<1> USE DEF LaunchInv, TypeOK
<1>1. CASE UNCHANGED msg
  BY <1>1
<1>2. CASE SyncMessage(t)
  <2>1. /\ t \in Slot \cup Poller /\ pc[t] \notin {"idle", "lock"} /\ seen[t].status # "none"
        /\ seen[t].status \in JobStatuses
    BY <1>2, ThreadFacts, Rows DEF Roles, Copies, SyncMessage, Guarded, Launching
  <2>2. serving[t] = s => seen[t].status = "pending"
    BY <2>1 DEF JobInv, JobStatuses, Terminal
  <2> QED BY <1>2, <2>2 DEF SyncMessage
<1>3. CASE Reserve(t)
  BY <1>3 DEF Reserve
<1>4. CASE Claim(t)
  <2>1. target[t] # s
    BY <1>4 DEF Claim, LaunchesFresh, JobInv
  <2> QED BY <1>4, <2>1 DEF Claim
<1>5. CASE SaveTurn(t)
  BY <1>5 DEF SaveTurn
<1>6. CASE Recover(t)
  <2>1. \/ msg' = msg
        \/ \E q \in FollowUp : msg' = [msg EXCEPT ![q] = [status |-> "pending", attached |-> TRUE]]
        \/ \E q \in FollowUp, st \in MsgStatuses :
             /\ msg' = [msg EXCEPT ![q] = [status |-> st, attached |-> FALSE]]
             /\ msg[q].status \in {"reserved", "submission_pending"}
    BY <1>6 DEF Recover, RecoverPending, RecoverReserved, Attach, GiveUp, Unattached, rows, MsgStatuses
  <2> QED BY <2>1
<1>7. CASE SyncAttached(t)
  <2>1. PICK o \in todo[t] : msg' = [msg EXCEPT ![o[1]] = [status |-> o[2], attached |-> TRUE]]
    BY <1>7 DEF SyncAttached
  <2>2. o[1] = s => o[2] = "pending"
    BY <1>7 DEF SyncAttached, AttachedInv
  <2> QED BY <2>1, <2>2
<1>8. CASE Cancel(t)
  <2>1. PICK o \in todo[t] : msg' = [msg EXCEPT ![o[1]] = [status |-> o[2], attached |-> FALSE]]
    BY <1>8 DEF Cancel
  <2>2. o[1] # s
    BY <1>8 DEF Cancel, InStep
  <2> QED BY <2>1, <2>2
<1>9. \/ SyncMessage(t) \/ Reserve(t) \/ Claim(t) \/ SaveTurn(t) \/ Recover(t) \/ SyncAttached(t) \/ Cancel(t)
      \/ UNCHANGED msg
  <2>1. CASE StoreJob(t) \/ TakeLock(t) \/ ReadSession(t) \/ LearnSession(t) \/ TouchSession(t) \/ ReadForChain(t)
             \/ MarkProcessed(t)
    BY <2>1 DEF StoreJob, TakeLock, ReadSession, LearnSession, TouchSession, ReadForChain, MarkProcessed, rows
  <2>2. CASE Choose(t) \/ ResaveSession(t) \/ CompleteRun(t) \/ Recheck(t) \/ Execute(t)
    BY <2>2 DEF Choose, ResaveSession, CompleteRun, Recheck, Execute, rows
  <2>3. CASE Watch(t) \/ NestedReturns(t) \/ RereadSession(t) \/ List(t)
    BY <2>3 DEF Watch, NestedReturns, RereadSession, List, rows
  <2> QED BY <2>1, <2>2, <2>3 DEF Step
<1> QED BY <1>1, <1>2, <1>3, <1>4, <1>5, <1>6, <1>7, <1>8, <1>9

\* A thread that is about to save the turn does nothing else.
LEMMA OnlySaves == ASSUME NEW t \in Thread, Step(t), pc[t] = "save" PROVE SaveTurn(t)
  BY DEF Step, StoreJob, TakeLock, ReadSession, LearnSession, SyncMessage, TouchSession, ReadForChain, Choose,
     Reserve, ResaveSession, CompleteRun, MarkProcessed, Recheck, Claim, Execute, Watch, NestedReturns, Recover,
     RereadSession, SyncAttached, List, Cancel

\* The thread that saves the turn makes it so.
LEMMA StepMessages ==
  ASSUME LaunchInv, JobInv, AttachedInv, InStep, MessageInv, NEW t \in Thread, Step(t)
  PROVE  MessageInv'
<1>1. CopyStep(t)
  BY StepCopies
<1> SUFFICES ASSUME NEW s \in Slot, exec'[s] = "pending"
             PROVE  msg'[s].status = "pending" \/ \E u \in Thread : pc'[u] = "save" /\ target'[u] = s
  BY DEF MessageInv
<1>2. CASE exec[s] # "pending"
  BY <1>2, StepCalls
<1>3. CASE exec[s] = "pending" /\ msg[s].status = "pending"
  BY <1>3, StepInFlight
<1>4. ASSUME NEW u \in Thread, pc[u] = "save", target[u] = s
      PROVE  msg'[s].status = "pending" \/ \E v \in Thread : pc'[v] = "save" /\ target'[v] = s
  <2>1. CASE u # t
    BY <1>1, <1>4, <2>1 DEF CopyStep
  <2>2. CASE u = t
    <3>1. SaveTurn(t)
      BY <1>4, <2>2, OnlySaves
    <3>2. msg' = [msg EXCEPT ![s] = [status |-> "pending", attached |-> TRUE]]
      BY <1>4, <2>2, <3>1 DEF SaveTurn
    <3> QED BY <3>2 DEF LaunchInv, TypeOK
  <2> QED BY <2>1, <2>2
<1> QED BY <1>2, <1>3, <1>4 DEF MessageInv

\* Nothing was changed behind a copy.
InTime ==
  ~overtaken' =>
    /\ ~overtaken
    /\ active' = active \/ \A u \in Thread : pc'[u] \in Copying => view'[u] # active
    /\ \A u \in Thread : pc'[u] \in {"cancel", "drop"} => \A o \in todo'[u] : msg'[o[1]] = msg[o[1]]

\* The history variable sees to it.
LEMMA OvertakesInTime == Overtakes => InTime
  BY DEF Overtakes, InTime

\* No CLI is started for a message that was sent before.
NoSecondCall ==
  \A s \in Slot : calls[s] # 0 => calls'[s] # 0 /\ (exec'[s] = "pending" => exec[s] = "pending")

\* A thread that handles its copies so keeps what is said of copies.
LEMMA CopiesKept ==
  ASSUME LaunchInv, JobInv, QuietInv, TypeOK', NEW t \in Thread, CopyStep(t), InTime, NoSecondCall
  PROVE  LaunchesForRun' /\ AttachedInv' /\ (~overtaken' => InStep')
<1>1. \A u \in Thread \ {t} :
        /\ pc'[u] \in LaunchSteps \cup Copying => pc[u] = pc'[u]
        /\ pc'[u] \in {"cancel", "drop"} <=> pc[u] \in {"cancel", "drop"}
  BY DEF CopyStep, LaunchSteps, Copying, Launching
<1>2. LaunchesForRun'
  <2>1. ASSUME NEW u \in Thread, pc'[u] \in LaunchSteps PROVE view'[u] # NoRun
    BY <1>1, <2>1 DEF CopyStep, QuietInv, LaunchesForRun
  <2> QED BY <2>1 DEF LaunchesForRun
<1>3. AttachedInv'
  <2>1. ASSUME NEW u \in Thread, pc'[u] \notin {"cancel", "drop"}, NEW o \in todo'[u],
               pc[u] \notin {"cancel", "drop"}, o \in todo[u]
        PROVE  calls'[o[1]] # 0 /\ (exec'[o[1]] = "pending" => o[2] = "pending")
    <3>1. o[1] \in Slot
      BY <2>1, SlotFacts DEF LaunchInv, TypeOK
    <3> QED BY <2>1, <3>1 DEF QuietInv, AttachedInv, NoSecondCall
  <2>2. ASSUME NEW o \in todo'[t], exec[o[1]] # "none", o[2] = exec[o[1]], o[1] \in Slot
        PROVE  calls'[o[1]] # 0 /\ (exec'[o[1]] = "pending" => o[2] = "pending")
    BY <2>2 DEF JobInv, NoSecondCall
  <2>3. ASSUME NEW u \in Thread, pc'[u] \notin {"cancel", "drop"}, NEW o \in todo'[u]
        PROVE  calls'[o[1]] # 0 /\ (exec'[o[1]] = "pending" => o[2] = "pending")
    <3>1. CASE u # t
      BY <1>1, <2>1, <2>3, <3>1 DEF CopyStep
    <3>2. CASE u = t
      <4>1. o[1] \in Slot
        BY <2>3, SlotFacts DEF TypeOK
      <4> QED BY <2>1, <2>2, <2>3, <3>2, <4>1 DEF CopyStep
    <3> QED BY <3>1, <3>2
  <2> QED BY <2>3 DEF AttachedInv
<1>4. ASSUME ~overtaken' PROVE InStep'
  <2>1. InStep
    BY <1>4 DEF InTime, QuietInv
  <2>2. ASSUME NEW u \in Thread, pc'[u] \in Copying PROVE view'[u] = active'
    <3>1. view'[u] = active
      BY <1>1, <2>1, <2>2 DEF CopyStep, InStep
    <3> QED BY <1>4, <2>2, <3>1 DEF InTime
  <2>3. ASSUME NEW u \in Thread, pc'[u] \in {"cancel", "drop"}, NEW o \in todo'[u]
        PROVE  msg'[o[1]].status # "pending"
    <3>1. msg[o[1]].status # "pending"
      BY <1>1, <2>1, <2>3 DEF CopyStep, InStep
    <3> QED BY <1>4, <2>3, <3>1 DEF InTime
  <2> QED BY <2>2, <2>3 DEF InStep
<1> QED BY <1>2, <1>3, <1>4

\* Steps that leave messages alone, and take nobody from saving a turn.
LEMMA MessagesKept ==
  ASSUME MessageInv, UNCHANGED <<msg, target>>,
         \A s \in Slot : exec'[s] = "pending" => exec[s] = "pending",
         \A t \in Thread : pc[t] = "save" => pc'[t] = "save"
  PROVE  MessageInv'
  BY DEF MessageInv

\* A step of the status that moves no thread.
LEMMA NothingMoves ==
  ASSUME QuietInv, UNCHANGED <<active, msg, exec, calls, pc, view, target, todo, overtaken>>,
         ~overtaken => ReadyInv'
  PROVE  QuietInv'
<1>1. LaunchesForRun' /\ AttachedInv'
  BY DEF QuietInv, LaunchesForRun, AttachedInv
<1>2. ~overtaken => InStep' /\ MessageInv'
  BY DEF QuietInv, InStep, MessageInv
<1> QED BY <1>1, <1>2 DEF QuietInv

\* A thread sets out, or is sent away.
LEMMA SetsOut ==
  ASSUME LaunchInv, JobInv, QuietInv, TypeOK', NEW t \in Thread,
         UNCHANGED <<active, msg, exec, calls, target, todo, overtaken>>,
         pc[t] \in {"idle", "start"},
         \/ pc'[t] = "list" /\ view'[t] = active
         \/ pc'[t] \in {"idle", "lock", "store"} /\ view'[t] = view[t],
         \A u \in Thread \ {t} : pc'[u] = pc[u] /\ view'[u] = view[u],
         ~overtaken => ReadyInv'
  PROVE  QuietInv'
<1>1. CopyStep(t)
  BY DEF CopyStep, Copying, LaunchSteps, Launching
<1>2. InTime /\ NoSecondCall
  BY DEF InTime, NoSecondCall
<1>3. LaunchesForRun' /\ AttachedInv' /\ (~overtaken' => InStep')
  BY <1>1, <1>2, CopiesKept
<1>4. ~overtaken => MessageInv'
  <2>1. \A u \in Thread : pc[u] = "save" => pc'[u] = "save"
    OBVIOUS
  <2> QED BY <2>1, MessagesKept DEF QuietInv
<1> QED BY <1>3, <1>4 DEF QuietInv

\* Steps of the status that only read: what they find is quiet when they say so.
LEMMA ReadingQuiet ==
  ASSUME DrainInv, QuietInv,
         \/ EnterTurn \/ Request \/ BeginStatus \/ ListEnded \/ FindJobs \/ FindMessages \/ ListActive
         \/ ReadSessions \/ Report
  PROVE  QuietInv'
<1>1. UNCHANGED <<active, msg, exec, calls, pc, view, target, todo, overtaken>>
  BY DEF EnterTurn, Request, BeginStatus, ListEnded, FindJobs, FindMessages, ListActive, ReadSessions, Report,
     vars, rows, provider, local
<1>2. ASSUME ~overtaken PROVE ReadyInv'
  <2>1. ReadyInv /\ MessageInv /\ InStep /\ LaunchesForRun
    BY <1>2 DEF QuietInv
  <2>2. CASE EnterTurn \/ BeginStatus \/ ListEnded
    BY <1>1, <2>1, <2>2 DEF EnterTurn, BeginStatus, ListEnded, status, ReadyInv
  <2>6. CASE Request
    <3>1. (ready' => ready) /\ phase' = "requested"
      BY <2>6 DEF Request
    <3> QED BY <1>1, <2>1, <3>1 DEF ReadyInv
  <2>3. CASE FindJobs \/ FindMessages \/ ListActive
    BY <1>1, <2>1, <2>3 DEF FindJobs, FindMessages, ListActive, ReadyInv
  <2>4. CASE ReadSessions
    BY <1>1, <2>1, <2>4 DEF ReadSessions, ReadyInv
  <2>5. CASE Report
    <3>1. ready' => active = NoRun /\ \A s \in Slot : msg[s].status \notin Waiting
      BY <2>1, <2>5 DEF Report, ReadyInv
    <3>2. active = NoRun => \A t \in Thread : pc[t] # "save"
      <4>1. ASSUME NEW t \in Thread, pc[t] = "save" PROVE view[t] = active /\ view[t] # NoRun
        BY <2>1, <4>1 DEF InStep, LaunchesForRun, Copying, LaunchSteps, Launching
      <4> QED BY <4>1
    <3>3. ready' => \A s \in Slot : exec[s] # "pending"
      BY <2>1, <3>1, <3>2 DEF MessageInv, Waiting
    <3> QED BY <1>1, <2>5, <3>1, <3>3 DEF Report, ReadyInv
  <2> QED BY <2>2, <2>3, <2>4, <2>5, <2>6
<1> QED BY <1>1, <1>2, NothingMoves

\* Steps by which a thread of the status, or a turn, sets out or is sent away.
LEMMA SettingOutQuiet ==
  ASSUME DrainInv, QuietInv, TypeOK',
         \/ BeginTurn \/ RefuseTurn \/ ListSessions
         \/ \E s \in Slot : AskJob(s) \/ SyncEnded(s)
  PROVE  QuietInv'
<1> USE DEF DrainInv, LaunchInv
<1>1. LaunchInv /\ JobInv
  OBVIOUS
<1>2. CASE BeginTurn \/ RefuseTurn
  <2>1. /\ UNCHANGED <<active, msg, exec, calls, target, todo, overtaken, phase, busy, ready>>
        /\ pc[Submitter] \in {"idle", "start"}
        /\ \/ pc'[Submitter] = "list" /\ view'[Submitter] = active
           \/ pc'[Submitter] \in {"idle", "lock", "store"} /\ view'[Submitter] = view[Submitter]
        /\ \A u \in Thread \ {Submitter} : pc'[u] = pc[u] /\ view'[u] = view[u]
    <3>1. CASE BeginTurn
      BY <3>1, ThreadFacts DEF TypeOK, BeginTurn, Submit, Goes, drainVars, status, rows, provider
    <3>2. CASE RefuseTurn
      BY <3>2, ThreadFacts DEF TypeOK, RefuseTurn, Goes, drainVars, status, rows, provider, local
    <3> QED BY <1>2, <3>1, <3>2
  <2>2. ~overtaken => ReadyInv'
    BY <2>1 DEF QuietInv, ReadyInv
  <2> QED BY <1>1, <2>1, <2>2, SetsOut, ThreadFacts
<1>3. CASE ListSessions
  <2>1. Resolver \in Thread
    BY DrainAssumption, ThreadFacts
  <2>2. /\ UNCHANGED <<active, msg, exec, calls, target, todo, overtaken, busy, ready>>
        /\ phase' = "follow" /\ pc[Resolver] = "idle"
        /\ pc'[Resolver] = "list" /\ view'[Resolver] = active
        /\ \A u \in Thread \ {Resolver} : pc'[u] = pc[u] /\ view'[u] = view[u]
    BY <1>3, <2>1 DEF TypeOK, ListSessions, Reconcile, Goes, rows, provider
  <2>3. ~overtaken => ReadyInv'
    BY <2>2 DEF QuietInv, ReadyInv
  <2> QED BY <1>1, <2>1, <2>2, <2>3, SetsOut
<1>4. ASSUME NEW s \in Slot, AskJob(s) \/ SyncEnded(s) PROVE QuietInv'
  <2>1. Asker \in Thread
    BY DrainAssumption, ThreadFacts
  <2>2. /\ UNCHANGED <<active, msg, exec, calls, target, todo, view, overtaken, phase, ready>>
        /\ phase # "messages" /\ pc[Asker] = "idle" /\ pc'[Asker] \in {"lock", "store"}
        /\ \A u \in Thread \ {Asker} : pc'[u] = pc[u]
    <3>1. CASE AskJob(s)
      BY <2>1, <3>1 DEF TypeOK, AskJob, Poll, FirstStep, Goes, rows, provider
    <3>2. CASE SyncEnded(s)
      BY <2>1, <3>2 DEF TypeOK, SyncEnded, Goes, rows, provider
    <3> QED BY <1>4, <3>1, <3>2
  <2>3. ~overtaken => ReadyInv'
    BY <2>2 DEF QuietInv, ReadyInv
  <2> QED BY <1>1, <2>1, <2>2, <2>3, SetsOut
<1> QED BY <1>2, <1>3, <1>4

\* A turn starts only when no drain goes on, and no status is computed.
LEMMA StartingQuiet ==
  ASSUME DrainInv, QuietInv, TypeOK', StartTurn
  PROVE  QuietInv'
<1> USE DEF DrainInv, LaunchInv, TypeOK
<1> DEFINE s == Entry(submitted)
<1>1. s \in Slot /\ calls[s] = 0
  BY SlotFacts DEF EntriesFresh, StartTurn, StartRun
<1>2. /\ UNCHANGED <<view, target, todo, phase, busy, ready>> /\ entering
      /\ pc[Submitter] = "start" /\ pc'[Submitter] = "idle"
      /\ \A u \in Thread \ {Submitter} : pc'[u] = pc[u]
      /\ msg'[s].status = "pending" /\ calls'[s] # 0
      /\ \A q \in Slot : q # s => msg'[q] = msg[q] /\ exec'[q] = exec[q] /\ calls'[q] = calls[q]
  BY <1>1, ThreadFacts DEF StartTurn, StartRun, Goes, local, status
<1>3. CopyStep(Submitter)
  BY <1>2 DEF CopyStep, Copying, LaunchSteps, Launching
<1>4. InTime
  BY OvertakesInTime DEF StartTurn
<1>5. NoSecondCall
  BY <1>1, <1>2 DEF NoSecondCall
<1>6. LaunchesForRun' /\ AttachedInv' /\ (~overtaken' => InStep')
  BY <1>3, <1>4, <1>5, CopiesKept, ThreadFacts
<1>7. ~overtaken' => MessageInv'
  <2>1. ~overtaken' => MessageInv
    BY <1>4 DEF InTime, QuietInv
  <2>2. \A u \in Thread : pc[u] = "save" => pc'[u] = "save"
    BY <1>2
  <2>3. ASSUME MessageInv, NEW q \in Slot, exec'[q] = "pending"
        PROVE  msg'[q].status = "pending" \/ \E u \in Thread : pc'[u] = "save" /\ target'[u] = q
    BY <1>2, <2>2, <2>3 DEF MessageInv
  <2> QED BY <2>1, <2>3 DEF MessageInv
<1>8. ReadyInv'
  BY <1>2 DEF LockInv, ReadyInv
<1> QED BY <1>6, <1>7, <1>8 DEF QuietInv

\* A stale run ends.
LEMMA EndingQuiet ==
  ASSUME DrainInv, QuietInv, TypeOK', EndStaleRun
  PROVE  QuietInv'
<1>1. /\ UNCHANGED <<msg, exec, calls, pc, view, target, todo, busy, ready>>
      /\ active' = NoRun /\ phase' = "staleJobs"
  BY DEF EndStaleRun, provider, local
<1>2. CopyStep(Submitter) /\ NoSecondCall
  BY <1>1 DEF CopyStep, NoSecondCall
<1>3. InTime
  BY OvertakesInTime DEF EndStaleRun
<1>4. LaunchesForRun' /\ AttachedInv' /\ (~overtaken' => InStep')
  BY <1>2, <1>3, CopiesKept, ThreadFacts DEF DrainInv
<1>5. ~overtaken' => MessageInv' /\ ReadyInv'
  <2>1. ~overtaken' => MessageInv /\ ReadyInv
    BY <1>3 DEF InTime, QuietInv
  <2> QED BY <1>1, <2>1 DEF MessageInv, ReadyInv
<1> QED BY <1>4, <1>5 DEF QuietInv

\* The chain starts nothing when no run is active and its copies say so.
LEMMA ChainQuiet ==
  ASSUME DrainInv, QuietInv, TypeOK', Chain
  PROVE  QuietInv'
<1>1. UNCHANGED <<phase, busy, ready>> /\ InTime
  BY OvertakesInTime DEF Chain
<1>2. ASSUME NEW t \in Thread, Step(t) PROVE QuietInv'
  <2>1. CopyStep(t) /\ ActiveStep(t) /\ NoSecondCall
    BY <1>2, StepCopies, StepCalls DEF DrainInv, NoSecondCall
  <2>2. LaunchesForRun' /\ AttachedInv' /\ (~overtaken' => InStep')
    BY <1>1, <2>1, CopiesKept DEF DrainInv
  <2>3. ASSUME ~overtaken' PROVE MessageInv' /\ ReadyInv'
    <3>1. LaunchesForRun /\ AttachedInv /\ InStep /\ MessageInv /\ ReadyInv
      BY <1>1, <2>3 DEF InTime, QuietInv
    <3>2. MessageInv'
      BY <1>2, <3>1, StepMessages DEF DrainInv
    <3>3. active = NoRun => active' = NoRun
      BY <2>1, <3>1 DEF ActiveStep, InStep
    <3>4. active = NoRun => pc[t] # "execute"
      BY <3>1 DEF InStep, LaunchesForRun, Copying, LaunchSteps, Launching
    <3>5. \A s \in Slot : exec'[s] = "pending" => exec[s] = "pending" \/ pc[t] = "execute"
      BY <1>2, StepCalls DEF DrainInv
    <3> QED BY <1>1, <3>1, <3>2, <3>3, <3>4, <3>5 DEF ReadyInv
  <2> QED BY <2>2, <2>3 DEF QuietInv
<1>3. ASSUME NEW s \in Slot, Callback(s) \/ Finish(s) PROVE QuietInv'
  <2>1. /\ UNCHANGED <<active, msg, calls, view, target, todo>>
        /\ \A q \in Slot : exec'[q] = "pending" => exec[q] = "pending"
        /\ pc'[s] = pc[s] \/ (pc[s] = "idle" /\ pc'[s] \in {"lock", "store"})
        /\ \A u \in Thread \ {s} : pc'[u] = pc[u]
    <3>1. CASE Callback(s)
      BY <3>1, ThreadFacts DEF DrainInv, LaunchInv, TypeOK, Callback, FirstStep, Goes, rows
    <3>2. CASE Finish(s)
      BY <3>2 DEF DrainInv, LaunchInv, TypeOK, Finish, rows, local, Terminal
    <3> QED BY <1>3, <3>1, <3>2
  <2>2. CopyStep(s) /\ NoSecondCall
    BY <2>1 DEF CopyStep, NoSecondCall, Copying, LaunchSteps, Launching
  <2>3. LaunchesForRun' /\ AttachedInv' /\ (~overtaken' => InStep')
    BY <1>1, <2>2, CopiesKept, ThreadFacts DEF DrainInv
  <2>4. \A u \in Thread : pc[u] = "save" => pc'[u] = "save"
    BY <2>1
  <2>5. ~overtaken' => MessageInv /\ ReadyInv
    BY <1>1 DEF InTime, QuietInv
  <2>6. ~overtaken' => MessageInv' /\ ReadyInv'
    BY <1>1, <2>1, <2>4, <2>5, MessagesKept DEF ReadyInv
  <2> QED BY <2>3, <2>6 DEF QuietInv
<1> QED BY <1>2, <1>3 DEF Chain

-----------------------------------------------------------------------------
(* The theorems.                                                            *)

\* The variables of the drain keep their types.
LEMMA DrainTyped ==
  ASSUME DrainInv, [DrainNext]_allVars
  PROVE  DrainTypeOK'
<1> USE DEF DrainTypeOK, Phases
<1>1. CASE BeginTurn \/ EnterTurn \/ RefuseTurn \/ StartTurn
  BY <1>1 DEF DrainInv, BeginTurn, EnterTurn, RefuseTurn, StartTurn, Overtakes, drainVars, status
<1>2. CASE Request
  <2>1. draining' \in BOOLEAN /\ ready' \in BOOLEAN
    BY <1>2 DEF Request
  <2>2. asked' \in 0 .. MaxStatus
    BY <1>2, DrainAssumption DEF DrainInv, Request
  <2> QED BY <1>2, <2>1, <2>2 DEF DrainInv, Request
<1>8. CASE BeginStatus \/ ListEnded
  BY <1>8 DEF DrainInv, BeginStatus, ListEnded
<1>3. CASE ListSessions \/ FindJobs \/ FindMessages
  BY <1>3 DEF DrainInv, LaunchInv, TypeOK, ListSessions, FindJobs, FindMessages
<1>4. CASE EndStaleRun \/ ListActive \/ ReadSessions \/ Report
  BY <1>4 DEF DrainInv, EndStaleRun, ListActive, ReadSessions, Report, Overtakes
<1>5. ASSUME NEW s \in Slot, AskJob(s) \/ SyncEnded(s) PROVE DrainTypeOK'
  BY <1>5 DEF DrainInv, AskJob, SyncEnded
<1>6. CASE Chain
  BY <1>6 DEF DrainInv, Chain, Overtakes
<1>7. CASE UNCHANGED allVars
  BY <1>7 DEF DrainInv, allVars, drainVars, status
<1> QED BY <1>1, <1>2, <1>3, <1>4, <1>5, <1>6, <1>7, <1>8 DEF DrainNext

\* At first there is no drain, and no turn.
LEMMA DrainInitial == DrainInit => DrainInv
<1> SUFFICES ASSUME DrainInit PROVE DrainInv
  OBVIOUS
<1>1. LaunchInv
  BY Initial DEF DrainInit
<1>2. JobInv
  BY SlotFacts DEF DrainInit, Init, JobInv, EverySlot, Everywhere, NoJob
<1>3. DrainTypeOK
  <2>1. 0 \in 0 .. MaxStatus
    BY DrainAssumption
  <2> QED BY <2>1 DEF DrainInit, DrainTypeOK, Phases
<1>4. LockInv /\ HumanTurnsWait
  BY DEF DrainInit, LockInv, HumanTurnsWait
<1> QED BY <1>1, <1>2, <1>3, <1>4 DEF DrainInv

\* Every step keeps the invariant.
LEMMA DrainKeeps == DrainInv /\ [DrainNext]_allVars => DrainInv'
<1> SUFFICES ASSUME DrainInv, [DrainNext]_allVars PROVE DrainInv'
  OBVIOUS
<1>1. DrainTypeOK'
  BY DrainTyped
<1>2. LaunchInv' /\ JobInv' /\ LockInv' /\ HumanTurnsWait'
  <2>1. CASE UNCHANGED allVars
    <3>1. UNCHANGED vars /\ UNCHANGED <<exec, job, calls, serving, seen, target, pc, draining, entering, phase, left, busy, ready>>
      BY <2>1 DEF allVars, drainVars, status, vars, rows, provider, local
    <3>2. LaunchInv' /\ JobInv'
      BY <3>1, StutterKeeps, Untouched DEF DrainInv
    <3> QED BY <3>1, <3>2 DEF DrainInv, LockInv, HumanTurnsWait
  <2> QED BY <2>1, TurnStatus, ReadingSteps, ActingSteps, ChainStatus DEF DrainNext
<1> QED BY <1>1, <1>2 DEF DrainInv

\* The invariant holds in every state.
THEOREM Drains == DrainSpec => []DrainInv
  BY DrainInitial, DrainKeeps, PTL DEF DrainSpec

\* However many turns, drains and requests for the status there are: when the
\* last answer is ready_to_restart, no turn of a user executes.
THEOREM TurnsWait == DrainSpec => []HumanTurnsWait
<1>1. DrainInv => HumanTurnsWait
  BY DEF DrainInv
<1> QED BY <1>1, Drains, PTL

\* At first nobody has a copy of anything.
LEMMA QuietInitial == DrainInit => QuietInv
  BY DEF DrainInit, Init, QuietInv, LaunchesForRun, LaunchSteps, Launching, AttachedInv, InStep, Copying,
     MessageInv, ReadyInv, Everywhere, EverySlot

\* Every step keeps the copies.
LEMMA QuietKeeps == DrainInv /\ DrainInv' /\ QuietInv /\ [DrainNext]_allVars => QuietInv'
<1> SUFFICES ASSUME DrainInv, DrainInv', QuietInv, [DrainNext]_allVars PROVE QuietInv'
  OBVIOUS
<1>1. TypeOK'
  BY DEF DrainInv, LaunchInv
<1>2. CASE UNCHANGED allVars
  <2>1. UNCHANGED <<active, msg, exec, calls, pc, view, target, todo, overtaken, phase, busy, ready>>
    BY <1>2 DEF allVars, drainVars, status, vars, rows, provider, local
  <2>2. ~overtaken => ReadyInv'
    BY <2>1 DEF QuietInv, ReadyInv
  <2> QED BY <2>1, <2>2, NothingMoves
<1>3. CASE DrainNext
  BY <1>1, <1>3, ReadingQuiet, SettingOutQuiet, StartingQuiet, EndingQuiet, ChainQuiet DEF DrainNext
<1> QED BY <1>2, <1>3

\* The invariant holds in every state.
THEOREM CopiesHold == DrainSpec => []QuietInv
<1>1. QuietInv /\ DrainInv /\ DrainInv' /\ [DrainNext]_allVars => QuietInv'
  BY QuietKeeps
<1> QED BY <1>1, Drains, QuietInitial, PTL DEF DrainSpec

\* However many turns, agents and requests there are: when the last answer is
\* ready_to_restart, no CLI runs and no thread is about to start one, unless the
\* active run, or a message that is to be cancelled, was changed behind a copy.
THEOREM ReadyMeansQuiet == DrainSpec => []ReadyUnlessOvertaken
<1>1. DrainInv /\ QuietInv => ReadyUnlessOvertaken
  <2> SUFFICES ASSUME DrainInv, QuietInv, ready, ~overtaken PROVE Quiet
    BY DEF ReadyUnlessOvertaken
  <2>1. active = NoRun /\ \A s \in Slot : exec[s] # "pending"
    BY DEF QuietInv, ReadyInv
  <2>2. ASSUME NEW t \in Thread, pc[t] \in {"claim", "execute"} PROVE FALSE
    <3>1. view[t] = active /\ view[t] # NoRun
      BY <2>2 DEF QuietInv, InStep, LaunchesForRun, Copying, LaunchSteps, Launching
    <3> QED BY <2>1, <3>1
  <2> QED BY <2>1, <2>2 DEF Quiet
<1> QED BY <1>1, Drains, CopiesHold, PTL

\* The jobs that the status asks for, and its reconciliation, do not make a
\* follow-up be sent twice either.
THEOREM SentOnceInDrain == DrainSpec => []OncePerFollowUp
<1>1. DrainInv => OncePerFollowUp
  BY DEF DrainInv, LaunchInv
<1> QED BY <1>1, Drains, PTL
=============================================================================
