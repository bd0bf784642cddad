----------------------- MODULE SerialExecutionProofs -----------------------
(***************************************************************************)
(* Proofs about the serial queue of the local provider, for every number   *)
(* of jobs and chats: the lists stay well formed in every interleaving,    *)
(* and turns that are submitted under one lock and not cancelled run one   *)
(* at a time.                                                              *)
(***************************************************************************)
EXTENDS SerialExecution, TLAPS

-----------------------------------------------------------------------------
(* The lists.                                                               *)

\* The initial lists are empty.
LEMMA InitLists == Init => ListInv
  BY JobAssumption DEF Init, ListInv, TypeOK, Statuses, SubmitPCs, WorkerPCs, CancelPCs, Processes,
         LinksAgree, WaitingHasNoThread, TailIsLast, NewIsUnknown, DirectIsUnlinked, NoCycle

\* A registration appends an unknown job to its chat's list.
LEMMA RegisterLists == ASSUME ListInv, NEW j \in Job, Register(j) PROVE ListInv'
<1> USE JobAssumption, KeyAssumption DEF ListInv
<1> DEFINE p == tail[KeyOf[j]]
           behind == Active(p)
<1>0. /\ submit[j] = "new" /\ KeyOf[j] \in Key
      /\ pred[j] = NoJob /\ succ[j] = NoJob /\ worker[j] = "none" /\ cancel[j] = "none"
      /\ \A k \in Key : tail[k] # j
      /\ p # j /\ p \in Job \cup {NoJob}
      /\ p # NoJob => KeyOf[p] = KeyOf[j] /\ succ[p] = NoJob /\ submit[p] # "new"
  <2>1. submit[j] = "new" /\ KeyOf[j] \in Key
    BY DEF Register, Active
  <2>2. /\ pred[j] = NoJob /\ succ[j] = NoJob /\ worker[j] = "none" /\ cancel[j] = "none"
        /\ \A k \in Key : tail[k] # j
    BY <2>1 DEF NewIsUnknown
  <2>3. p # j /\ p \in Job \cup {NoJob}
    BY <2>1, <2>2 DEF TypeOK
  <2>4. p # NoJob => KeyOf[p] = KeyOf[j] /\ succ[p] = NoJob
    BY <2>1 DEF TailIsLast
  <2>5. p # NoJob => submit[p] # "new"
    BY <2>1, <2>3 DEF NewIsUnknown
  <2> QED BY <2>1, <2>2, <2>3, <2>4, <2>5
<1>1. TypeOK'
  <2>1. /\ queued' \subseteq Job /\ keyed' \subseteq Job
        /\ tail' \in [Key -> Job \cup {NoJob}] /\ submit' \in [Job -> SubmitPCs]
    BY DEF TypeOK, Register, SubmitPCs
  <2>2. succ' \in [Job -> Job \cup {NoJob}] /\ pred' \in [Job -> Job \cup {NoJob}]
    BY <1>0 DEF TypeOK, Register
  <2> QED BY <2>1, <2>2 DEF TypeOK, Register
<1>2. LinksAgree'
  <2>1. CASE behind
    BY <1>0, <2>1 DEF Register, Active, LinksAgree, TypeOK
  <2>2. CASE ~behind
    BY <1>0, <2>2 DEF Register, Active, LinksAgree, TypeOK
  <2> QED BY <2>1, <2>2
<1>3. WaitingHasNoThread'
  BY <1>0 DEF Register, Active, WaitingHasNoThread, TypeOK
<1>4. TailIsLast'
  BY <1>0 DEF Register, Active, TailIsLast, TypeOK
<1>5. NewIsUnknown'
  BY <1>0 DEF Register, Active, NewIsUnknown, TypeOK
<1>6. DirectIsUnlinked'
  BY <1>0 DEF Register, Active, DirectIsUnlinked, TypeOK
<1>7. NoCycle'
  <2> SUFFICES ASSUME NEW S \in (SUBSET Job) \ {{}} PROVE \E x \in S : pred'[x] \notin S
    BY DEF NoCycle
  <2>1. \A x \in Job : x # j => pred'[x] = pred[x] /\ pred[x] # j
    BY <1>0 DEF Register, Active, LinksAgree, TypeOK
  <2>2. CASE S = {j}
    BY <1>0, <2>2 DEF Register, Active, TypeOK
  <2>3. CASE S # {j}
    <3>1. S \ {j} \in (SUBSET Job) \ {{}}
      BY <2>3
    <3>2. PICK x \in S \ {j} : pred[x] \notin S \ {j}
      BY <3>1 DEF NoCycle
    <3>3. x \in Job /\ x # j
      BY <3>2
    <3> QED BY <3>2, <3>3, <2>1
  <2> QED BY <2>2, <2>3
<1> QED BY <1>1, <1>2, <1>3, <1>4, <1>5, <1>6, <1>7

\* Passing the turn on unlinks the head of a list.  Its successor, if it is
\* still queued, has had no thread before.
LEMMA HandOverLists ==
  ASSUME ListInv, NEW j \in Job, pred[j] = NoJob, submit[j] # "new",
         NEW threads \in [Job -> WorkerPCs], StartSuccessor(j, threads),
         \A x \in Job \ {j} : threads[x] = worker[x],
         threads[j] = "none" <=> worker[j] = "none",
         UNCHANGED <<status, submit, process, reading>>,
         cancel' \in [Job -> CancelPCs], sawProcess' \in [Job -> BOOLEAN],
         \A x \in Job : cancel'[x] = cancel[x] \/ (submit[x] # "new" /\ cancel'[x] # "handing")
  PROVE  /\ ListInv'
         /\ \A x \in Job : worker'[x] # threads[x] => x = succ[j] /\ worker[x] = "none"
<1> USE JobAssumption, KeyAssumption DEF ListInv
<1> DEFINE s == succ[j]
<1>0. /\ s \in Job \cup {NoJob} /\ s # j
      /\ s # NoJob => /\ pred[s] = j /\ worker[s] = "none" /\ KeyOf[s] = KeyOf[j]
                      /\ submit[s] \notin {"new", "registered", "announced"}
  BY DEF LinksAgree, WaitingHasNoThread, NewIsUnknown, DirectIsUnlinked, TypeOK, SubmitPCs
<1>1. TypeOK'
  BY DEF TypeOK, StartSuccessor, WorkerPCs
<1>2. LinksAgree'
  BY <1>0 DEF StartSuccessor, LinksAgree, TypeOK
<1>3. WaitingHasNoThread'
  BY <1>0 DEF StartSuccessor, WaitingHasNoThread, TypeOK
<1>4. TailIsLast'
  BY <1>0 DEF StartSuccessor, TailIsLast, TypeOK
<1>5. NewIsUnknown'
  BY <1>0 DEF StartSuccessor, NewIsUnknown, TypeOK
<1>6. DirectIsUnlinked'
  BY <1>0 DEF StartSuccessor, DirectIsUnlinked, TypeOK
<1>7. \A x \in Job : worker'[x] # threads[x] => x = s /\ worker[x] = "none"
  BY <1>0 DEF StartSuccessor, TypeOK
<1>8. NoCycle'
  <2>1. \A x \in Job : pred'[x] \in {NoJob, pred[x]}
    BY DEF StartSuccessor, TypeOK
  <2> QED BY <2>1 DEF NoCycle
<1> QED BY <1>1, <1>2, <1>3, <1>4, <1>5, <1>6, <1>7, <1>8

\* A cancelled job leaves its list, and the gap closes.
LEMMA CancelActLists == ASSUME ListInv, NEW j \in Job, CancelAct(j) PROVE ListInv'
<1> USE JobAssumption, KeyAssumption DEF ListInv
<1> DEFINE p == pred[j]
           s == succ[j]
<1>0. /\ p \in Job \cup {NoJob} /\ s \in Job \cup {NoJob} /\ p # j /\ s # j
      /\ s # NoJob => pred[s] = j /\ worker[s] = "none" /\ KeyOf[s] = KeyOf[j]
      /\ p # NoJob => succ[p] = j /\ KeyOf[p] = KeyOf[j]
      /\ p # NoJob => p # s
      /\ submit[j] # "new" /\ (s # NoJob => submit[s] \notin {"new", "registered", "announced"})
      /\ p # NoJob => submit[p] # "new"
      /\ s # NoJob => cancel[s] # "handing"
  <2>1. p \in Job \cup {NoJob} /\ s \in Job \cup {NoJob}
    BY DEF TypeOK
  <2>2. /\ s # NoJob => pred[s] = j /\ KeyOf[s] = KeyOf[j] /\ s # j
        /\ p # NoJob => succ[p] = j /\ KeyOf[p] = KeyOf[j] /\ p # j
    BY <2>1 DEF LinksAgree
  <2>3. p # NoJob => p # s
    <3> SUFFICES ASSUME p # NoJob, p = s PROVE FALSE
      OBVIOUS
    <3>1. {j, p} \in (SUBSET Job) \ {{}}
      BY <2>1
    <3> QED BY <3>1, <2>2 DEF NoCycle
  <2>4. submit[j] # "new"
    BY DEF CancelAct, NewIsUnknown
  <2>5. s # NoJob => /\ submit[s] \notin {"new", "registered", "announced"}
                    /\ worker[s] = "none" /\ cancel[s] # "handing"
    BY <2>1, <2>2 DEF NewIsUnknown, DirectIsUnlinked, WaitingHasNoThread
  <2>6. p # NoJob => submit[p] # "new"
    BY <2>1, <2>2 DEF NewIsUnknown
  <2> QED BY <2>1, <2>2, <2>3, <2>4, <2>5, <2>6
<1>1. TypeOK'
  BY DEF TypeOK, CancelAct, RemoveQueued, CancelPCs, Processes, links
<1>2. LinksAgree'
  BY <1>0 DEF CancelAct, RemoveQueued, LinksAgree, TypeOK, links
<1>3. WaitingHasNoThread'
  BY <1>0 DEF CancelAct, RemoveQueued, WaitingHasNoThread, TypeOK, links
<1>4. TailIsLast'
  BY <1>0 DEF CancelAct, RemoveQueued, TailIsLast, LinksAgree, TypeOK, links
<1>5. NewIsUnknown'
  BY <1>0 DEF CancelAct, RemoveQueued, NewIsUnknown, TypeOK, links
<1>6. DirectIsUnlinked'
  BY <1>0 DEF CancelAct, RemoveQueued, DirectIsUnlinked, TypeOK, links
<1>7. NoCycle'
  <2> SUFFICES ASSUME NEW S \in (SUBSET Job) \ {{}} PROVE \E x \in S : pred'[x] \notin S
    BY DEF NoCycle
  <2>1. CASE sawProcess[j]
    BY <2>1 DEF CancelAct, links, NoCycle
  <2>2. CASE ~sawProcess[j]
    <3>1. \A x \in Job : pred'[x] = IF x = j THEN NoJob ELSE IF x = s THEN p ELSE pred[x]
      BY <2>2 DEF CancelAct, RemoveQueued
    <3>2. CASE j \in S
      BY <3>1, <3>2
    <3>3. CASE j \notin S /\ s \notin S
      BY <3>1, <3>3 DEF NoCycle
    <3>4. CASE j \notin S /\ s \in S
      <4>1. PICK x \in S \cup {j} : pred[x] \notin S \cup {j}
        BY DEF NoCycle
      <4>2. x # s
        BY <1>0, <3>4, <4>1
      <4> QED BY <1>0, <3>1, <3>4, <4>1, <4>2
    <3> QED BY <3>2, <3>3, <3>4
  <2> QED BY <2>1, <2>2
<1> QED BY <1>1, <1>2, <1>3, <1>4, <1>5, <1>6, <1>7

\* The steps that change no link: the announcement of a job,
LEMMA AnnounceLists == ASSUME ListInv, NEW j \in Job, Announce(j) PROVE ListInv'
<1> USE DEF ListInv
<1>1. TypeOK'
  BY DEF TypeOK, Announce, SetStatus, WorkerGoesTo, Statuses, Terminal, SubmitPCs, WorkerPCs, Processes, CancelPCs, links
<1>2. LinksAgree' /\ TailIsLast' /\ NoCycle'
  BY DEF Announce, LinksAgree, TailIsLast, NoCycle, links
<1>3. WaitingHasNoThread'
  BY DEF Announce, WaitingHasNoThread, WorkerGoesTo, DirectIsUnlinked, TypeOK, links
<1>4. NewIsUnknown'
  BY DEF Announce, NewIsUnknown, WorkerGoesTo, SetStatus, TypeOK, links
<1>5. DirectIsUnlinked'
  BY DEF Announce, DirectIsUnlinked, WorkerGoesTo, TypeOK, HandsOver, links
<1> QED BY <1>1, <1>2, <1>3, <1>4, <1>5

\* its start,
LEMMA StartLists == ASSUME ListInv, NEW j \in Job, Start(j) PROVE ListInv'
<1> USE DEF ListInv
<1>1. TypeOK'
  BY DEF TypeOK, Start, SetStatus, WorkerGoesTo, Statuses, Terminal, SubmitPCs, WorkerPCs, Processes, CancelPCs, links
<1>2. LinksAgree' /\ TailIsLast' /\ NoCycle'
  BY DEF Start, LinksAgree, TailIsLast, NoCycle, links
<1>3. WaitingHasNoThread'
  BY DEF Start, WaitingHasNoThread, WorkerGoesTo, DirectIsUnlinked, TypeOK, links
<1>4. NewIsUnknown'
  BY DEF Start, NewIsUnknown, WorkerGoesTo, SetStatus, TypeOK, links
<1>5. DirectIsUnlinked'
  BY DEF Start, DirectIsUnlinked, WorkerGoesTo, TypeOK, HandsOver, links
<1> QED BY <1>1, <1>2, <1>3, <1>4, <1>5

\* the steps of its thread,
LEMMA BeginLists == ASSUME ListInv, NEW j \in Job, Begin(j) PROVE ListInv'
<1> USE DEF ListInv
<1>1. TypeOK'
  BY DEF TypeOK, Begin, SetStatus, WorkerGoesTo, Statuses, Terminal, SubmitPCs, WorkerPCs, Processes, CancelPCs, links
<1>2. LinksAgree' /\ TailIsLast' /\ NoCycle'
  BY DEF Begin, LinksAgree, TailIsLast, NoCycle, links
<1>3. WaitingHasNoThread'
  BY DEF Begin, WaitingHasNoThread, WorkerGoesTo, DirectIsUnlinked, TypeOK, links
<1>4. NewIsUnknown'
  BY DEF Begin, NewIsUnknown, WorkerGoesTo, SetStatus, TypeOK, links
<1>5. DirectIsUnlinked'
  BY DEF Begin, DirectIsUnlinked, WorkerGoesTo, TypeOK, HandsOver, links
<1> QED BY <1>1, <1>2, <1>3, <1>4, <1>5

\* the last look before the process is created,
LEMMA PrepareLists == ASSUME ListInv, NEW j \in Job, Prepare(j) PROVE ListInv'
<1> USE DEF ListInv
<1>1. TypeOK'
  BY DEF TypeOK, Prepare, SetStatus, WorkerGoesTo, Statuses, Terminal, SubmitPCs, WorkerPCs, Processes, CancelPCs, links
<1>2. LinksAgree' /\ TailIsLast' /\ NoCycle'
  BY DEF Prepare, LinksAgree, TailIsLast, NoCycle, links
<1>3. WaitingHasNoThread'
  BY DEF Prepare, WaitingHasNoThread, WorkerGoesTo, DirectIsUnlinked, TypeOK, links
<1>4. NewIsUnknown'
  BY DEF Prepare, NewIsUnknown, WorkerGoesTo, SetStatus, TypeOK, links
<1>5. DirectIsUnlinked'
  BY DEF Prepare, DirectIsUnlinked, WorkerGoesTo, TypeOK, HandsOver, links
<1> QED BY <1>1, <1>2, <1>3, <1>4, <1>5

\* an exception in it,
LEMMA RaiseLists == ASSUME ListInv, NEW j \in Job, Raise(j) PROVE ListInv'
<1> USE DEF ListInv
<1>1. TypeOK'
  BY DEF TypeOK, Raise, SetStatus, WorkerGoesTo, Statuses, Terminal, SubmitPCs, WorkerPCs, Processes, CancelPCs, links
<1>2. LinksAgree' /\ TailIsLast' /\ NoCycle'
  BY DEF Raise, LinksAgree, TailIsLast, NoCycle, links
<1>3. WaitingHasNoThread'
  BY DEF Raise, WaitingHasNoThread, WorkerGoesTo, DirectIsUnlinked, TypeOK, links
<1>4. NewIsUnknown'
  BY DEF Raise, NewIsUnknown, WorkerGoesTo, SetStatus, TypeOK, links
<1>5. DirectIsUnlinked'
  BY DEF Raise, DirectIsUnlinked, WorkerGoesTo, TypeOK, HandsOver, links
<1> QED BY <1>1, <1>2, <1>3, <1>4, <1>5

\* the process,
LEMMA LaunchLists == ASSUME ListInv, NEW j \in Job, Launch(j) PROVE ListInv'
<1> USE DEF ListInv
<1>1. TypeOK'
  BY DEF TypeOK, Launch, SetStatus, WorkerGoesTo, Statuses, Terminal, SubmitPCs, WorkerPCs, Processes, CancelPCs, links
<1>2. LinksAgree' /\ TailIsLast' /\ NoCycle'
  BY DEF Launch, LinksAgree, TailIsLast, NoCycle, links
<1>3. WaitingHasNoThread'
  BY DEF Launch, WaitingHasNoThread, WorkerGoesTo, DirectIsUnlinked, TypeOK, links
<1>4. NewIsUnknown'
  BY DEF Launch, NewIsUnknown, WorkerGoesTo, SetStatus, TypeOK, links
<1>5. DirectIsUnlinked'
  BY DEF Launch, DirectIsUnlinked, WorkerGoesTo, TypeOK, HandsOver, links
<1> QED BY <1>1, <1>2, <1>3, <1>4, <1>5

\* its registration,
LEMMA RegisterProcessLists == ASSUME ListInv, NEW j \in Job, RegisterProcess(j) PROVE ListInv'
<1> USE DEF ListInv
<1>1. TypeOK'
  BY DEF TypeOK, RegisterProcess, SetStatus, WorkerGoesTo, Statuses, Terminal, SubmitPCs, WorkerPCs, Processes, CancelPCs, links
<1>2. LinksAgree' /\ TailIsLast' /\ NoCycle'
  BY DEF RegisterProcess, LinksAgree, TailIsLast, NoCycle, links
<1>3. WaitingHasNoThread'
  BY DEF RegisterProcess, WaitingHasNoThread, WorkerGoesTo, DirectIsUnlinked, TypeOK, links
<1>4. NewIsUnknown'
  BY DEF RegisterProcess, NewIsUnknown, WorkerGoesTo, SetStatus, TypeOK, links
<1>5. DirectIsUnlinked'
  BY DEF RegisterProcess, DirectIsUnlinked, WorkerGoesTo, TypeOK, HandsOver, links
<1> QED BY <1>1, <1>2, <1>3, <1>4, <1>5

\* a line of output,
LEMMA ReadLineLists == ASSUME ListInv, NEW j \in Job, ReadLine(j) PROVE ListInv'
<1> USE DEF ListInv
<1>1. TypeOK'
  BY DEF TypeOK, ReadLine, SetStatus, WorkerGoesTo, Statuses, Terminal, SubmitPCs, WorkerPCs, Processes, CancelPCs, links
<1>2. LinksAgree' /\ TailIsLast' /\ NoCycle'
  BY DEF ReadLine, LinksAgree, TailIsLast, NoCycle, links
<1>3. WaitingHasNoThread'
  BY DEF ReadLine, WaitingHasNoThread, WorkerGoesTo, DirectIsUnlinked, TypeOK, links
<1>4. NewIsUnknown'
  BY DEF ReadLine, NewIsUnknown, WorkerGoesTo, SetStatus, TypeOK, links
<1>5. DirectIsUnlinked'
  BY DEF ReadLine, DirectIsUnlinked, WorkerGoesTo, TypeOK, HandsOver, links
<1> QED BY <1>1, <1>2, <1>3, <1>4, <1>5

\* the end of the process,
LEMMA ExitLists == ASSUME ListInv, NEW j \in Job, Exit(j) PROVE ListInv'
<1> USE DEF ListInv
<1>1. TypeOK'
  BY DEF TypeOK, Exit, SetStatus, WorkerGoesTo, Statuses, Terminal, SubmitPCs, WorkerPCs, Processes, CancelPCs, links
<1>2. LinksAgree' /\ TailIsLast' /\ NoCycle'
  BY DEF Exit, LinksAgree, TailIsLast, NoCycle, links
<1>3. WaitingHasNoThread'
  BY DEF Exit, WaitingHasNoThread, WorkerGoesTo, DirectIsUnlinked, TypeOK, links
<1>4. NewIsUnknown'
  BY DEF Exit, NewIsUnknown, WorkerGoesTo, SetStatus, TypeOK, links
<1>5. DirectIsUnlinked'
  BY DEF Exit, DirectIsUnlinked, WorkerGoesTo, TypeOK, HandsOver, links
<1> QED BY <1>1, <1>2, <1>3, <1>4, <1>5

\* the end of its output,
LEMMA EndOfOutputLists == ASSUME ListInv, NEW j \in Job, EndOfOutput(j) PROVE ListInv'
<1> USE DEF ListInv
<1>1. TypeOK'
  BY DEF TypeOK, EndOfOutput, SetStatus, WorkerGoesTo, Statuses, Terminal, SubmitPCs, WorkerPCs, Processes, CancelPCs, links
<1>2. LinksAgree' /\ TailIsLast' /\ NoCycle'
  BY DEF EndOfOutput, LinksAgree, TailIsLast, NoCycle, links
<1>3. WaitingHasNoThread'
  BY DEF EndOfOutput, WaitingHasNoThread, WorkerGoesTo, DirectIsUnlinked, TypeOK, links
<1>4. NewIsUnknown'
  BY DEF EndOfOutput, NewIsUnknown, WorkerGoesTo, SetStatus, TypeOK, links
<1>5. DirectIsUnlinked'
  BY DEF EndOfOutput, DirectIsUnlinked, WorkerGoesTo, TypeOK, HandsOver, links
<1> QED BY <1>1, <1>2, <1>3, <1>4, <1>5

\* the join of the reader,
LEMMA ReapLists == ASSUME ListInv, NEW j \in Job, Reap(j) PROVE ListInv'
<1> USE DEF ListInv
<1>1. TypeOK'
  BY DEF TypeOK, Reap, SetStatus, WorkerGoesTo, Statuses, Terminal, SubmitPCs, WorkerPCs, Processes, CancelPCs, links
<1>2. LinksAgree' /\ TailIsLast' /\ NoCycle'
  BY DEF Reap, LinksAgree, TailIsLast, NoCycle, links
<1>3. WaitingHasNoThread'
  BY DEF Reap, WaitingHasNoThread, WorkerGoesTo, DirectIsUnlinked, TypeOK, links
<1>4. NewIsUnknown'
  BY DEF Reap, NewIsUnknown, WorkerGoesTo, SetStatus, TypeOK, links
<1>5. DirectIsUnlinked'
  BY DEF Reap, DirectIsUnlinked, WorkerGoesTo, TypeOK, HandsOver, links
<1> QED BY <1>1, <1>2, <1>3, <1>4, <1>5

\* the last look at the state,
LEMMA JudgeLists == ASSUME ListInv, NEW j \in Job, Judge(j) PROVE ListInv'
<1> USE DEF ListInv
<1>1. TypeOK'
  BY DEF TypeOK, Judge, SetStatus, WorkerGoesTo, Statuses, Terminal, SubmitPCs, WorkerPCs, Processes, CancelPCs, links
<1>2. LinksAgree' /\ TailIsLast' /\ NoCycle'
  BY DEF Judge, LinksAgree, TailIsLast, NoCycle, links
<1>3. WaitingHasNoThread'
  BY DEF Judge, WaitingHasNoThread, WorkerGoesTo, DirectIsUnlinked, TypeOK, links
<1>4. NewIsUnknown'
  BY DEF Judge, NewIsUnknown, WorkerGoesTo, SetStatus, TypeOK, links
<1>5. DirectIsUnlinked'
  BY DEF Judge, DirectIsUnlinked, WorkerGoesTo, TypeOK, HandsOver, links
<1> QED BY <1>1, <1>2, <1>3, <1>4, <1>5

\* the final state,
LEMMA DecideLists == ASSUME ListInv, NEW j \in Job, Decide(j) PROVE ListInv'
<1> USE DEF ListInv
<1>1. TypeOK'
  BY DEF TypeOK, Decide, SetStatus, WorkerGoesTo, Statuses, Terminal, SubmitPCs, WorkerPCs, Processes, CancelPCs, links
<1>2. LinksAgree' /\ TailIsLast' /\ NoCycle'
  BY DEF Decide, LinksAgree, TailIsLast, NoCycle, links
<1>3. WaitingHasNoThread'
  BY DEF Decide, WaitingHasNoThread, WorkerGoesTo, DirectIsUnlinked, TypeOK, links
<1>4. NewIsUnknown'
  BY DEF Decide, NewIsUnknown, WorkerGoesTo, SetStatus, TypeOK, links
<1>5. DirectIsUnlinked'
  BY DEF Decide, DirectIsUnlinked, WorkerGoesTo, TypeOK, HandsOver, links
<1> QED BY <1>1, <1>2, <1>3, <1>4, <1>5

\* the clean-up,
LEMMA CleanLists == ASSUME ListInv, NEW j \in Job, Clean(j) PROVE ListInv'
<1> USE DEF ListInv
<1>1. TypeOK'
  BY DEF TypeOK, Clean, SetStatus, WorkerGoesTo, Statuses, Terminal, SubmitPCs, WorkerPCs, Processes, CancelPCs, links
<1>2. LinksAgree' /\ TailIsLast' /\ NoCycle'
  BY DEF Clean, LinksAgree, TailIsLast, NoCycle, links
<1>3. WaitingHasNoThread'
  BY DEF Clean, WaitingHasNoThread, WorkerGoesTo, DirectIsUnlinked, TypeOK, links
<1>4. NewIsUnknown'
  BY DEF Clean, NewIsUnknown, WorkerGoesTo, SetStatus, TypeOK, links
<1>5. DirectIsUnlinked'
  BY DEF Clean, DirectIsUnlinked, WorkerGoesTo, TypeOK, HandsOver, links
<1> QED BY <1>1, <1>2, <1>3, <1>4, <1>5

\* and the first two steps of a cancel:
LEMMA CancelCheckLists == ASSUME ListInv, NEW j \in Job, CancelCheck(j) PROVE ListInv'
<1> USE DEF ListInv
<1>1. TypeOK'
  BY DEF TypeOK, CancelCheck, SetStatus, WorkerGoesTo, Statuses, Terminal, SubmitPCs, WorkerPCs, Processes, CancelPCs, links, InTable
<1>2. LinksAgree' /\ TailIsLast' /\ NoCycle'
  BY DEF CancelCheck, LinksAgree, TailIsLast, NoCycle, links
<1>3. WaitingHasNoThread'
  BY DEF CancelCheck, WaitingHasNoThread, WorkerGoesTo, DirectIsUnlinked, TypeOK, links
<1>4. NewIsUnknown'
  BY DEF CancelCheck, NewIsUnknown, WorkerGoesTo, SetStatus, TypeOK, links
<1>5. DirectIsUnlinked'
  BY DEF CancelCheck, DirectIsUnlinked, WorkerGoesTo, TypeOK, HandsOver, links
<1> QED BY <1>1, <1>2, <1>3, <1>4, <1>5

\* the check and the new state.
LEMMA CancelSetLists == ASSUME ListInv, NEW j \in Job, CancelSet(j) PROVE ListInv'
<1> USE DEF ListInv
<1>1. TypeOK'
  BY DEF TypeOK, CancelSet, SetStatus, WorkerGoesTo, Statuses, Terminal, SubmitPCs, WorkerPCs, Processes, CancelPCs, links
<1>2. LinksAgree' /\ TailIsLast' /\ NoCycle'
  BY DEF CancelSet, LinksAgree, TailIsLast, NoCycle, links
<1>3. WaitingHasNoThread'
  BY DEF CancelSet, WaitingHasNoThread, WorkerGoesTo, DirectIsUnlinked, TypeOK, links
<1>4. NewIsUnknown'
  BY DEF CancelSet, NewIsUnknown, WorkerGoesTo, SetStatus, TypeOK, links
<1>5. DirectIsUnlinked'
  BY DEF CancelSet, DirectIsUnlinked, WorkerGoesTo, TypeOK, HandsOver, links
<1> QED BY <1>1, <1>2, <1>3, <1>4, <1>5

\* The turn is passed on by the thread of the job that ended
LEMMA WorkerHandOverLists == ASSUME ListInv, NEW j \in Job, HandOver(j) PROVE ListInv'
<1>1. pred[j] = NoJob /\ submit[j] # "new"
  BY DEF HandOver, ListInv, WaitingHasNoThread, NewIsUnknown, TypeOK
<1>2. [worker EXCEPT ![j] = "cleaning"] \in [Job -> WorkerPCs]
  BY DEF ListInv, TypeOK, WorkerPCs
<1> QED BY <1>1, <1>2, HandOverLists DEF HandOver, ListInv, TypeOK

\* or by the request that cancelled it.
LEMMA CancelHandOverLists == ASSUME ListInv, NEW j \in Job, CancelHandOver(j) PROVE ListInv'
<1>1. pred[j] = NoJob /\ submit[j] # "new"
  BY DEF CancelHandOver, ListInv, DirectIsUnlinked, NewIsUnknown, TypeOK
<1>2. cancel' \in [Job -> CancelPCs] /\ sawProcess' \in [Job -> BOOLEAN] /\ worker \in [Job -> WorkerPCs]
  BY DEF CancelHandOver, ListInv, TypeOK, CancelPCs
<1>3. \A x \in Job : cancel'[x] = cancel[x] \/ (submit[x] # "new" /\ cancel'[x] # "handing")
  BY <1>1 DEF CancelHandOver, ListInv, TypeOK
<1> QED BY <1>1, <1>2, <1>3, HandOverLists DEF CancelHandOver

\* Every step keeps the lists well formed.
LEMMA NextLists == ListInv /\ [Next]_vars => ListInv'
<1> SUFFICES ASSUME ListInv, [Next]_vars PROVE ListInv'
  OBVIOUS
<1>1. ASSUME NEW j \in Job, Register(j) \/ Submitter(j) PROVE ListInv'
  BY <1>1, RegisterLists, AnnounceLists, StartLists DEF Submitter
<1>2. ASSUME NEW j \in Job, Work(j) PROVE ListInv'
  BY <1>2, BeginLists, PrepareLists, RaiseLists, LaunchLists, RegisterProcessLists, ReapLists, JudgeLists,
     DecideLists, WorkerHandOverLists, CleanLists DEF Work
<1>3. ASSUME NEW j \in Job, ReadLine(j) \/ Exit(j) \/ EndOfOutput(j) PROVE ListInv'
  BY <1>3, ReadLineLists, ExitLists, EndOfOutputLists
<1>4. ASSUME NEW j \in Job, CancelCheck(j) \/ CancelRequest(j) PROVE ListInv'
  BY <1>4, CancelCheckLists, CancelSetLists, CancelHandOverLists, CancelActLists DEF CancelRequest
<1>5. CASE UNCHANGED vars
  BY <1>5 DEF vars, ListInv, TypeOK, LinksAgree, WaitingHasNoThread, TailIsLast, NewIsUnknown, DirectIsUnlinked, NoCycle
<1> QED BY <1>1, <1>2, <1>3, <1>4, <1>5 DEF Next, Finished

\* In every interleaving of submissions, threads, output and cancels the two
\* link dictionaries agree, a waiting job has no thread, and each tail is the
\* end of a list of its chat.
THEOREM ListsWellFormed == Spec => []ListInv
  BY InitLists, NextLists, PTL DEF Spec

\* A job gets at most one thread: only a job without one is started.
THEOREM StartedAtMostOnce == Spec => StartedOnce
<1>1. ASSUME ListInv, [Next]_vars, NEW j \in Job, worker'[j] = "spawned", worker[j] # "spawned"
      PROVE  worker[j] = "none"
  <2>1. ASSUME NEW i \in Job, HandOver(i) PROVE worker[j] = "none"
    <3>1. pred[i] = NoJob /\ submit[i] # "new"
      BY <1>1, <2>1 DEF HandOver, ListInv, WaitingHasNoThread, NewIsUnknown, TypeOK
    <3>2. worker'[j] # [worker EXCEPT ![i] = "cleaning"][j]
      BY <1>1 DEF ListInv, TypeOK
    <3> QED BY <1>1, <2>1, <3>1, <3>2, JobAssumption DEF HandOver, StartSuccessor, ListInv, LinksAgree, WaitingHasNoThread, TypeOK
  <2>2. ASSUME NEW i \in Job, CancelHandOver(i) PROVE worker[j] = "none"
    <3>1. succ[i] = j
      BY <1>1, <2>2 DEF CancelHandOver, StartSuccessor, ListInv, TypeOK
    <3>2. pred[j] = i /\ i # NoJob
      BY <1>1, <3>1, JobAssumption DEF ListInv, LinksAgree
    <3> QED BY <1>1, <3>2 DEF ListInv, WaitingHasNoThread
  <2>3. ASSUME NEW i \in Job, Start(i) PROVE worker[j] = "none"
    BY <1>1, <2>3 DEF Start, ListInv, DirectIsUnlinked, TypeOK
  <2>4. ASSUME NEW i \in Job,
               \/ Begin(i) \/ Prepare(i) \/ Raise(i) \/ Launch(i) \/ RegisterProcess(i)
               \/ Reap(i) \/ Judge(i) \/ Decide(i) \/ Clean(i)
        PROVE  FALSE
    BY <1>1, <2>4 DEF Begin, Prepare, Raise, Launch, RegisterProcess, Reap, Judge, Decide, Clean,
       WorkerGoesTo, ListInv, TypeOK
  <2>5. ASSUME NEW i \in Job,
               \/ Register(i) \/ Announce(i) \/ ReadLine(i) \/ Exit(i) \/ EndOfOutput(i)
               \/ CancelCheck(i) \/ CancelSet(i) \/ CancelAct(i)
        PROVE  FALSE
    BY <1>1, <2>5 DEF Register, Active, Announce, ReadLine, Exit, EndOfOutput, CancelCheck, CancelSet, CancelAct
  <2>6. CASE UNCHANGED vars
    BY <1>1, <2>6 DEF vars
  <2> QED BY <1>1, <2>1, <2>2, <2>3, <2>4, <2>5, <2>6 DEF Next, Finished, Submitter, Work, CancelRequest
<1>2. ListInv /\ [Next]_vars =>
        [\A j \in Job : (worker'[j] = "spawned" /\ worker[j] # "spawned") => worker[j] = "none"]_vars
  BY <1>1
<1> QED BY <1>2, InitLists, NextLists, PTL DEF Spec, StartedOnce

-----------------------------------------------------------------------------
(* Turns that wait, whoever submits and cancels.                            *)

\* At first nobody waits.
LEMMA InitWaits == Init => WaitInv
<1> SUFFICES ASSUME Init PROVE WaitInv
  OBVIOUS
<1>1. CancelSaid /\ InLine
  BY DEF Init, CancelSaid, InLine
<1>2. WaitsInLine
  BY DEF Init, WaitsInLine
<1> QED BY <1>1, <1>2 DEF WaitInv

\* A step that changes neither links nor requests keeps the invariant, if no
\* thread vanishes, a job that ends goes on to hand over, and who has no thread
\* when execute() returns has been cancelled.
LEMMA CalmWaits ==
  ASSUME ListInv, WaitInv, UNCHANGED <<links, cancel, sawProcess>>,
         \A x \in Job :
           /\ worker[x] # "none" => worker'[x] # "none"
           /\ worker[x] = "handing" => worker'[x] = "handing"
           /\ status[x] = "cancelled" => status'[x] = "cancelled"
           /\ status[x] \notin Terminal => status'[x] \notin Terminal \/ worker'[x] = "handing"
           /\ process'[x] # "none" => worker'[x] # "none"
           /\ submit'[x] # "new" => submit[x] # "new"
           /\ submit'[x] \in {"waiting", "done"} =>
                submit[x] \in {"waiting", "done"} \/ worker'[x] # "none" \/ x \notin queued
  PROVE  WaitInv'
<1> USE DEF WaitInv
<1>1. CancelSaid'
  BY DEF CancelSaid
<1>2. InLine'
  BY DEF InLine, links
<1>3. \A x \in Job : TakenOutRunning(x) => TakenOutRunning(x)'
  BY DEF TakenOutRunning
<1>4. \A k : Excused(k) => (Excused(k))'
  BY <1>3 DEF Excused
<1>5. \A x \in Job : PassesOn(x) => PassesOn(x)'
  BY DEF PassesOn
<1>6. WaitsInLine'
  <2> SUFFICES ASSUME NEW x \in Job, ~(Excused(KeyOf[x]))'
               PROVE  /\ (submit'[x] \in {"waiting", "done"} /\ worker'[x] = "none" /\ status'[x] # "cancelled")
                           => pred'[x] # NoJob
                      /\ pred'[x] # NoJob => (PassesOn(pred[x]))'
                      /\ (cancel'[x] = "acting" /\ worker'[x] = "none" /\ succ'[x] # NoJob) => pred'[x] # NoJob
    BY DEF WaitsInLine
  <2>1. ~Excused(KeyOf[x])
    BY <1>4
  <2>2. pred' = pred /\ succ' = succ /\ cancel' = cancel /\ pred[x] \in Job \cup {NoJob}
    BY DEF links, ListInv, TypeOK
  <2>3. submit'[x] \in {"waiting", "done"} /\ worker'[x] = "none" /\ status'[x] # "cancelled" =>
          submit[x] \in {"waiting", "done"} /\ worker[x] = "none" /\ status[x] # "cancelled"
    BY DEF InLine
  <2>4. pred[x] # NoJob => PassesOn(pred[x])
    BY <2>1 DEF WaitsInLine
  <2>5. pred[x] # NoJob => (PassesOn(pred[x]))'
    BY <1>5, <2>2, <2>4
  <2> QED BY <2>1, <2>2, <2>3, <2>5 DEF WaitsInLine
<1> QED BY <1>1, <1>2, <1>6

\* The steps of execute(), of a thread, of a process and its reader are of this
\* kind, but for the registration and the hand-over.
LEMMA ThreadWaits ==
  ASSUME ListInv, WaitInv, NEW j \in Job,
         \/ Submitter(j) \/ Begin(j) \/ Prepare(j) \/ Raise(j) \/ Launch(j) \/ RegisterProcess(j)
         \/ ReadLine(j) \/ Exit(j) \/ EndOfOutput(j) \/ Reap(j) \/ Judge(j) \/ Decide(j) \/ Clean(j)
  PROVE  WaitInv'
<1> USE DEF ListInv, TypeOK, WorkerGoesTo, SetStatus, links, Terminal
<1>0. \A x \in Job : process[x] # "none" => worker[x] # "none"
  BY DEF WaitInv, CancelSaid
<1>1. CASE Announce(j)
  BY <1>0, <1>1, CalmWaits DEF Announce
<1>2. CASE Start(j)
  BY <1>0, <1>2, CalmWaits DEF Start, DirectIsUnlinked
<1>3. CASE Begin(j)
  BY <1>0, <1>3, CalmWaits DEF Begin
<1>4. CASE Prepare(j) \/ Raise(j)
  BY <1>0, <1>4, CalmWaits DEF Prepare, Raise
<1>5. CASE Launch(j)
  BY <1>0, <1>5, CalmWaits DEF Launch
<1>6. CASE RegisterProcess(j)
  BY <1>0, <1>6, CalmWaits DEF RegisterProcess
<1>7. CASE ReadLine(j)
  BY <1>0, <1>7, CalmWaits DEF ReadLine
<1>8. CASE Exit(j) \/ EndOfOutput(j)
  BY <1>0, <1>8, CalmWaits DEF Exit, EndOfOutput
<1>9. CASE Reap(j) \/ Judge(j) \/ Clean(j)
  BY <1>0, <1>9, CalmWaits DEF Reap, Judge, Clean
<1>10. CASE Decide(j)
  <2>1. worker[j] = "deciding" /\ pred[j] = NoJob
    BY <1>10 DEF Decide, WaitingHasNoThread
  <2>2. status[j] \notin Terminal => worker'[j] = "handing"
    BY <1>10, <2>1 DEF Decide, HandsOver
  <2>3. /\ UNCHANGED <<links, submit, process, reading, cancel, sawProcess>>
        /\ worker'[j] \in {"handing", "cleaning"}
        /\ \A x \in Job \ {j} : worker'[x] = worker[x] /\ status'[x] = status[x]
        /\ status[j] = "cancelled" => status'[j] = "cancelled"
    BY <1>10 DEF Decide
  <2>4. \A x \in Job :
           /\ worker[x] # "none" => worker'[x] # "none"
           /\ worker[x] = "handing" => worker'[x] = "handing"
           /\ status[x] = "cancelled" => status'[x] = "cancelled"
           /\ status[x] \notin Terminal => status'[x] \notin Terminal \/ worker'[x] = "handing"
           /\ process'[x] # "none" => worker'[x] # "none"
           /\ submit'[x] # "new" => submit[x] # "new"
           /\ submit'[x] \in {"waiting", "done"} =>
                submit[x] \in {"waiting", "done"} \/ worker'[x] # "none" \/ x \notin queued
    BY <1>0, <2>1, <2>2, <2>3
  <2> QED BY <2>3, <2>4, CalmWaits
<1> QED BY <1>1, <1>2, <1>3, <1>4, <1>5, <1>6, <1>7, <1>8, <1>9, <1>10 DEF Submitter

\* A job that registers queues behind one that is active, and so passes on.
LEMMA RegisterWaits == ASSUME ListInv, WaitInv, NEW j \in Job, Register(j) PROVE WaitInv'
<1> USE JobAssumption DEF WaitInv
<1> DEFINE p == tail[KeyOf[j]]
<1>1. /\ submit[j] = "new" /\ pred[j] = NoJob /\ succ[j] = NoJob /\ cancel[j] = "none"
      /\ UNCHANGED <<status, worker, process, reading, cancel, sawProcess>>
      /\ queued' = queued \cup {j} /\ submit'[j] \in {"waiting", "registered"}
      /\ \A x \in Job \ {j} : submit'[x] = submit[x] /\ pred'[x] = pred[x]
      /\ pred[j] = NoJob /\ pred'[j] \in {NoJob, p}
    BY DEF Register, ListInv, NewIsUnknown, TypeOK
<1>2. /\ pred'[j] # NoJob => pred'[j] = p /\ p \in Job /\ status[p] \notin Terminal
      /\ submit'[j] = "waiting" => pred'[j] # NoJob
  <2>1. KeyOf[j] \in Key /\ p \in Job \cup {NoJob}
    BY KeyAssumption DEF ListInv, TypeOK
  <2>2. CASE Active(p)
    BY <1>1, <2>1, <2>2 DEF Register, Active, ListInv, TypeOK
  <2>3. CASE ~Active(p)
    BY <1>1, <2>1, <2>3 DEF Register, ListInv, TypeOK
  <2> QED BY <2>2, <2>3
<1>3. \A x \in Job : succ'[x] = succ[x] \/ (status[x] \notin Terminal /\ x = p)
  BY KeyAssumption DEF Register, Active, ListInv, TypeOK
<1>4. CancelSaid'
  BY <1>1 DEF CancelSaid
<1>5. InLine'
  BY <1>1 DEF InLine
<1>6. WaitsInLine'
  <2> SUFFICES ASSUME NEW x \in Job, ~(Excused(KeyOf[x]))'
               PROVE  /\ (submit'[x] \in {"waiting", "done"} /\ worker'[x] = "none" /\ status'[x] # "cancelled")
                           => pred'[x] # NoJob
                      /\ pred'[x] # NoJob => (PassesOn(pred[x]))'
                      /\ (cancel'[x] = "acting" /\ worker'[x] = "none" /\ succ'[x] # NoJob) => pred'[x] # NoJob
    BY DEF WaitsInLine
  <2>1. ~Excused(KeyOf[x])
    BY <1>1 DEF Excused, TakenOutRunning
  <2>2. pred'[x] # NoJob => (PassesOn(pred[x]))'
    BY <1>1, <1>2, <2>1 DEF WaitsInLine, PassesOn
  <2>3. (submit'[x] \in {"waiting", "done"} /\ worker'[x] = "none" /\ status'[x] # "cancelled") => pred'[x] # NoJob
    BY <1>1, <1>2, <2>1 DEF WaitsInLine
  <2>4. (cancel'[x] = "acting" /\ worker'[x] = "none" /\ succ'[x] # NoJob) => pred'[x] # NoJob
    BY <1>1, <1>3, <2>1 DEF WaitsInLine, CancelSaid, Terminal
  <2> QED BY <2>2, <2>3, <2>4
<1> QED BY <1>4, <1>5, <1>6

\* Who passes the turn on leaves nobody behind it: its successor is still queued
\* and gets a thread.
LEMMA PassWaits ==
  ASSUME ListInv, WaitInv, NEW j \in Job, pred[j] = NoJob,
         worker[j] # "none" \/ status[j] = "cancelled",
         NEW threads, StartSuccessor(j, threads), threads \in [Job -> WorkerPCs],
         \A x \in Job \ {j} : threads[x] = worker[x],
         worker[j] # "none" => threads[j] # "none",
         UNCHANGED <<status, submit, process, reading, sawProcess>>,
         \A x \in Job \ {j} : cancel'[x] = cancel[x],
         cancel'[j] = cancel[j] \/ (cancel[j] = "handing" /\ cancel'[j] = "acting")
  PROVE  WaitInv'
<1> USE JobAssumption DEF WaitInv
<1> DEFINE s == succ[j]
<1>1. /\ s \in Job \cup {NoJob} /\ s # j
      /\ s # NoJob => pred[s] = j /\ s \in queued /\ worker[s] = "none"
  BY DEF ListInv, LinksAgree, WaitingHasNoThread, InLine, TypeOK
<1>2. /\ queued' = queued \ {j} /\ succ'[j] = NoJob
      /\ \A x \in Job \ {j} : succ'[x] = succ[x]
      /\ pred'[j] = NoJob /\ (s # NoJob => pred'[s] = NoJob /\ worker'[s] = "spawned")
      /\ \A x \in Job \ {s} : pred'[x] = pred[x] /\ worker'[x] = threads[x]
  BY <1>1 DEF StartSuccessor, ListInv, TypeOK
<1>3. \A x \in Job : worker[x] # "none" => worker'[x] # "none"
  BY <1>1, <1>2
<1>4. CancelSaid'
  BY <1>3 DEF CancelSaid
<1>5. InLine'
  <2>1. \A x \in Job : pred'[x] # NoJob => x \in queued'
    BY <1>1, <1>2 DEF InLine
  <2>2. \A x \in Job : submit'[x] # "new" /\ x \notin queued' => worker'[x] # "none" \/ status'[x] = "cancelled"
    BY <1>1, <1>2, <1>3 DEF InLine
  <2> QED BY <2>1, <2>2 DEF InLine
<1>6. \A x \in Job \ {j} : PassesOn(x) => PassesOn(x)'
  BY <1>1, <1>2 DEF PassesOn
<1>7. WaitsInLine'
  <2> SUFFICES ASSUME NEW x \in Job, ~(Excused(KeyOf[x]))'
               PROVE  /\ (submit'[x] \in {"waiting", "done"} /\ worker'[x] = "none" /\ status'[x] # "cancelled")
                           => pred'[x] # NoJob
                      /\ pred'[x] # NoJob => (PassesOn(pred[x]))'
                      /\ (cancel'[x] = "acting" /\ worker'[x] = "none" /\ succ'[x] # NoJob) => pred'[x] # NoJob
    BY DEF WaitsInLine
  <2>1. ~Excused(KeyOf[x])
    BY <1>3 DEF Excused, TakenOutRunning
  <2>2. pred'[x] # NoJob => x # s /\ pred'[x] = pred[x] /\ pred[x] \in Job \ {j}
    BY <1>1, <1>2 DEF ListInv, LinksAgree, TypeOK
  <2>3. pred'[x] # NoJob => (PassesOn(pred[x]))'
    BY <1>6, <2>1, <2>2 DEF WaitsInLine
  <2>4. worker'[x] = "none" => x # s /\ worker[x] = "none" /\ pred'[x] = pred[x]
    BY <1>1, <1>2, <1>3
  <2>5. (submit'[x] \in {"waiting", "done"} /\ worker'[x] = "none" /\ status'[x] # "cancelled") => pred'[x] # NoJob
    BY <2>1, <2>4 DEF WaitsInLine
  <2>6. (cancel'[x] = "acting" /\ worker'[x] = "none" /\ succ'[x] # NoJob) => pred'[x] # NoJob
    BY <1>2, <2>1, <2>4 DEF WaitsInLine
  <2> QED BY <2>3, <2>5, <2>6
<1> QED BY <1>4, <1>5, <1>7

\* A worker and a request to cancel pass the turn on in this way.
LEMMA HandOverWaits ==
  ASSUME ListInv, WaitInv, NEW j \in Job, HandOver(j) \/ CancelHandOver(j) PROVE WaitInv'
<1>1. CASE HandOver(j)
  <2>1. pred[j] = NoJob /\ worker[j] = "handing"
    BY <1>1 DEF HandOver, ListInv, WaitingHasNoThread, TypeOK
  <2>2. [worker EXCEPT ![j] = "cleaning"] \in [Job -> WorkerPCs]
    BY DEF ListInv, TypeOK, WorkerPCs
  <2>3. cancel' = cancel /\ StartSuccessor(j, [worker EXCEPT ![j] = "cleaning"])
        /\ UNCHANGED <<status, submit, process, reading, sawProcess>>
    BY <1>1 DEF HandOver
  <2>4. /\ \A x \in Job \ {j} : [worker EXCEPT ![j] = "cleaning"][x] = worker[x]
        /\ [worker EXCEPT ![j] = "cleaning"][j] # "none"
    BY DEF ListInv, TypeOK
  <2> QED BY <2>1, <2>2, <2>3, <2>4, PassWaits
<1>2. CASE CancelHandOver(j)
  <2>1. pred[j] = NoJob /\ status[j] = "cancelled"
    BY <1>2 DEF CancelHandOver, ListInv, DirectIsUnlinked, WaitInv, CancelSaid
  <2>2. /\ \A x \in Job \ {j} : cancel'[x] = cancel[x]
        /\ cancel[j] = "handing" /\ cancel'[j] = "acting"
        /\ StartSuccessor(j, worker) /\ worker \in [Job -> WorkerPCs]
        /\ UNCHANGED <<status, submit, process, reading, sawProcess>>
    BY <1>2 DEF CancelHandOver, ListInv, TypeOK
  <2> QED BY <2>1, <2>2, PassWaits
<1> QED BY <1>1, <1>2

\* A request to cancel that was announced has its job cancelled; a job that waits
\* is not seen with a process, and is unlinked last.
LEMMA CancelSetWaits ==
  ASSUME ListInv, WaitInv, NEW j \in Job, CancelCheck(j) \/ CancelSet(j) PROVE WaitInv'
<1> USE JobAssumption DEF WaitInv
<1>1. /\ UNCHANGED <<links, submit, worker, process, reading>>
      /\ cancel[j] \in {"none", "checked"} /\ cancel'[j] \in {"checked", "handing", "acting"}
      /\ cancel'[j] # "checked" => status'[j] = "cancelled" /\ sawProcess' = sawProcess /\ cancel[j] = "checked"
      /\ cancel'[j] = "checked" => status' = status /\ status[j] \notin Terminal
      /\ sawProcess'[j] => worker[j] # "none"
      /\ \A x \in Job \ {j} : status'[x] = status[x] /\ cancel'[x] = cancel[x] /\ sawProcess'[x] = sawProcess[x]
      /\ status[j] = "cancelled" => status'[j] = "cancelled"
  <2>1. CASE CancelCheck(j)
    BY <2>1 DEF CancelCheck, ListInv, TypeOK, CancelSaid, InTable
  <2>2. CASE CancelSet(j)
    BY <2>2 DEF CancelSet, SetStatus, ListInv, TypeOK, CancelSaid
  <2> QED BY <2>1, <2>2
<1>2. CancelSaid'
  <2>1. \A x \in Job : cancel'[x] \in {"handing", "acting", "done"} => status'[x] = "cancelled"
    BY <1>1 DEF CancelSaid
  <2>2. \A x \in Job : process'[x] # "none" \/ sawProcess'[x] => worker'[x] # "none"
    BY <1>1 DEF CancelSaid
  <2> QED BY <2>1, <2>2 DEF CancelSaid
<1>3. InLine'
  BY <1>1 DEF InLine, links
<1>4. \A x \in Job : TakenOutRunning(x) => TakenOutRunning(x)'
  BY <1>1 DEF TakenOutRunning
<1>5. PassesOn(j) => PassesOn(j)'
  <2>1. CASE cancel'[j] = "checked"
    BY <1>1, <2>1 DEF PassesOn
  <2>2. CASE cancel'[j] # "checked" /\ status[j] \in Terminal
    BY <1>1, <2>2 DEF PassesOn
  <2>3. CASE cancel'[j] # "checked" /\ status[j] \notin Terminal
    <3>1. CancelSet(j)
      BY <1>1, <2>3 DEF CancelCheck, ListInv, TypeOK
    <3>2. cancel'[j] = "handing" \/ (cancel'[j] = "acting" /\ pred[j] # NoJob)
      BY <2>3, <3>1 DEF CancelSet, HandsOver, ListInv, TypeOK
    <3>3. pred[j] # NoJob => ~sawProcess'[j]
      BY <1>1 DEF ListInv, WaitingHasNoThread
    <3> QED BY <3>2, <3>3 DEF PassesOn
  <2> QED BY <2>1, <2>2, <2>3
<1>6. \A x \in Job : PassesOn(x) => PassesOn(x)'
  BY <1>1, <1>5 DEF PassesOn
<1>7. WaitsInLine'
  <2> SUFFICES ASSUME NEW x \in Job, ~(Excused(KeyOf[x]))'
               PROVE  /\ (submit'[x] \in {"waiting", "done"} /\ worker'[x] = "none" /\ status'[x] # "cancelled")
                           => pred'[x] # NoJob
                      /\ pred'[x] # NoJob => (PassesOn(pred[x]))'
                      /\ (cancel'[x] = "acting" /\ worker'[x] = "none" /\ succ'[x] # NoJob) => pred'[x] # NoJob
    BY DEF WaitsInLine
  <2>1. ~Excused(KeyOf[x])
    BY <1>4 DEF Excused
  <2>2. /\ pred' = pred /\ succ' = succ /\ worker' = worker /\ submit' = submit
        /\ pred[x] \in Job \cup {NoJob}
    BY <1>1 DEF links, ListInv, TypeOK
  <2>3. (submit'[x] \in {"waiting", "done"} /\ worker'[x] = "none" /\ status'[x] # "cancelled") => pred'[x] # NoJob
    BY <1>1, <2>1, <2>2 DEF WaitsInLine
  <2>4. pred'[x] # NoJob => (PassesOn(pred[x]))'
    <3>1. pred[x] # NoJob => PassesOn(pred[x])
      BY <2>1 DEF WaitsInLine
    <3> QED BY <1>6, <2>2, <3>1
  <2>5. (cancel'[x] = "acting" /\ worker'[x] = "none" /\ succ'[x] # NoJob) => pred'[x] # NoJob
    <3>1. CASE x # j
      BY <1>1, <2>1, <2>2, <3>1 DEF WaitsInLine
    <3>2. CASE x = j
      <4> SUFFICES ASSUME cancel'[j] = "acting", worker[j] = "none", succ[j] # NoJob, pred[j] = NoJob
                   PROVE  FALSE
        BY <2>2, <3>2
      <4>1. CancelSet(j) /\ cancel[j] = "checked"
        BY <1>1 DEF CancelCheck, ListInv, TypeOK
      <4>2. status[j] \in Terminal
        BY <4>1 DEF CancelSet, HandsOver, ListInv, TypeOK
      <4>3. succ[j] \in Job /\ pred[succ[j]] = j /\ KeyOf[succ[j]] = KeyOf[j]
        BY DEF ListInv, LinksAgree, TypeOK
      <4>4. PassesOn(j)
        BY <2>1, <3>2, <4>3 DEF WaitsInLine
      <4> QED BY <4>1, <4>2, <4>4 DEF PassesOn
    <3> QED BY <3>1, <3>2
  <2> QED BY <2>3, <2>4, <2>5
<1> QED BY <1>2, <1>3, <1>7

\* A cancelled job that has no thread takes its place out of the line and closes
\* the gap; with a thread, it is the excuse.
LEMMA CancelActWaits == ASSUME ListInv, WaitInv, NEW j \in Job, CancelAct(j) PROVE WaitInv'
<1> USE JobAssumption DEF WaitInv
<1> DEFINE p == pred[j]
           s == succ[j]
<1>1. /\ cancel[j] = "acting" /\ cancel'[j] = "done" /\ status[j] = "cancelled"
      /\ UNCHANGED <<status, submit, worker, reading, sawProcess>>
      /\ \A x \in Job \ {j} : cancel'[x] = cancel[x] /\ process'[x] = process[x]
      /\ process'[j] = process[j] \/ sawProcess[j]
      /\ p \in Job \cup {NoJob} /\ s \in Job \cup {NoJob}
  BY DEF CancelAct, CancelSaid, ListInv, TypeOK
<1>2. CancelSaid'
  <2>1. \A x \in Job : cancel'[x] \in {"handing", "acting", "done"} => status'[x] = "cancelled"
    BY <1>1 DEF CancelSaid
  <2>2. \A x \in Job : process'[x] # "none" \/ sawProcess'[x] => worker'[x] # "none"
    BY <1>1 DEF CancelSaid
  <2> QED BY <2>1, <2>2 DEF CancelSaid
<1>3. \A x \in Job : TakenOutRunning(x) => TakenOutRunning(x)'
  BY <1>1 DEF TakenOutRunning
<1>4. \A x \in Job \ {j} : PassesOn(x) => PassesOn(x)'
  BY <1>1 DEF PassesOn
<1>5. \A x \in Job : ~(Excused(KeyOf[x]))' => ~Excused(KeyOf[x])
  BY <1>3 DEF Excused
<1>6. CASE sawProcess[j]
  <2>1. UNCHANGED <<queued, keyed, tail, succ, pred>>
    BY <1>6 DEF CancelAct, links
  <2>2. InLine'
    BY <1>1, <2>1 DEF InLine
  <2>3. PassesOn(j) => PassesOn(j)'
    BY <1>1, <1>6 DEF PassesOn, Terminal
  <2>4. WaitsInLine'
    <3> SUFFICES ASSUME NEW x \in Job, ~(Excused(KeyOf[x]))'
                 PROVE  /\ (submit'[x] \in {"waiting", "done"} /\ worker'[x] = "none" /\ status'[x] # "cancelled")
                             => pred'[x] # NoJob
                        /\ pred'[x] # NoJob => (PassesOn(pred[x]))'
                        /\ (cancel'[x] = "acting" /\ worker'[x] = "none" /\ succ'[x] # NoJob) => pred'[x] # NoJob
      BY DEF WaitsInLine
    <3>1. pred[x] # NoJob => PassesOn(pred[x])
      BY <1>5 DEF WaitsInLine
    <3>2. pred[x] \in Job \cup {NoJob}
      BY DEF ListInv, TypeOK
    <3>3. pred'[x] # NoJob => (PassesOn(pred[x]))'
      BY <1>4, <2>1, <2>3, <3>1, <3>2
    <3>4. (submit'[x] \in {"waiting", "done"} /\ worker'[x] = "none" /\ status'[x] # "cancelled") => pred'[x] # NoJob
      BY <1>1, <1>5, <2>1 DEF WaitsInLine
    <3>5. (cancel'[x] = "acting" /\ worker'[x] = "none" /\ succ'[x] # NoJob) => pred'[x] # NoJob
      BY <1>1, <1>5, <2>1 DEF WaitsInLine
    <3> QED BY <3>3, <3>4, <3>5
  <2> QED BY <1>2, <2>2, <2>4
<1>7. CASE ~sawProcess[j]
  <2>1. /\ p # j /\ s # j
        /\ s # NoJob => pred[s] = j /\ KeyOf[s] = KeyOf[j] /\ s \in queued
        /\ p # NoJob => succ[p] = j /\ KeyOf[p] = KeyOf[j]
        /\ p # NoJob => p # s
    <3>1. /\ s # NoJob => pred[s] = j /\ KeyOf[s] = KeyOf[j] /\ s # j
          /\ p # NoJob => succ[p] = j /\ KeyOf[p] = KeyOf[j] /\ p # j
      BY <1>1 DEF ListInv, LinksAgree
    <3>2. s # NoJob => s \in queued
      BY <1>1, <3>1 DEF InLine
    <3>3. p # NoJob => p # s
      <4> SUFFICES ASSUME p # NoJob, p = s PROVE FALSE
        OBVIOUS
      <4>1. {j, p} \in (SUBSET Job) \ {{}}
        BY <1>1
      <4> QED BY <4>1, <3>1 DEF NoCycle, ListInv
    <3> QED BY <1>1, <3>1, <3>2, <3>3
  <2>2. /\ queued' = queued \ {j}
        /\ succ' = [x \in Job |-> IF x = j THEN NoJob ELSE IF x = p THEN s ELSE succ[x]]
        /\ pred' = [x \in Job |-> IF x = j THEN NoJob ELSE IF x = s THEN p ELSE pred[x]]
    BY <1>7 DEF CancelAct, RemoveQueued
  <2>3. InLine'
    <3>1. \A x \in Job : pred'[x] # NoJob => x \in queued'
      BY <2>1, <2>2 DEF InLine
    <3>2. \A x \in Job : submit'[x] # "new" /\ x \notin queued' => worker'[x] # "none" \/ status'[x] = "cancelled"
      BY <1>1, <2>2 DEF InLine
    <3> QED BY <3>1, <3>2 DEF InLine
  <2>4. WaitsInLine'
    <3> SUFFICES ASSUME NEW x \in Job, ~(Excused(KeyOf[x]))'
                 PROVE  /\ (submit'[x] \in {"waiting", "done"} /\ worker'[x] = "none" /\ status'[x] # "cancelled")
                             => pred'[x] # NoJob
                        /\ pred'[x] # NoJob => (PassesOn(pred[x]))'
                        /\ (cancel'[x] = "acting" /\ worker'[x] = "none" /\ succ'[x] # NoJob) => pred'[x] # NoJob
      BY DEF WaitsInLine
    <3>0. ~Excused(KeyOf[x])
      BY <1>5
    <3>1. KeyOf[x] = KeyOf[j] => worker[j] = "none"
      BY <1>1, <1>7 DEF Excused, TakenOutRunning
    <3>2. KeyOf[x] = KeyOf[j] /\ s # NoJob => p # NoJob /\ PassesOn(p)
      BY <1>1, <3>0, <3>1 DEF WaitsInLine
    <3>3. (submit'[x] \in {"waiting", "done"} /\ worker'[x] = "none" /\ status'[x] # "cancelled") => pred'[x] # NoJob
      BY <1>1, <2>1, <2>2, <3>0, <3>2 DEF WaitsInLine
    <3>4. pred'[x] # NoJob => (PassesOn(pred[x]))'
      <4>1. CASE x = s
        BY <1>1, <1>4, <2>1, <2>2, <3>2, <4>1
      <4>2. CASE x # s
        <5>1. pred'[x] # NoJob => pred'[x] = pred[x] /\ pred[x] \in Job \ {j} /\ PassesOn(pred[x])
          BY <2>2, <3>0, <4>2 DEF WaitsInLine, ListInv, LinksAgree, TypeOK
        <5> QED BY <5>1, <1>4
      <4> QED BY <4>1, <4>2
    <3>5. (cancel'[x] = "acting" /\ worker'[x] = "none" /\ succ'[x] # NoJob) => pred'[x] # NoJob
      BY <1>1, <2>1, <2>2, <3>0, <3>2 DEF WaitsInLine
    <3> QED BY <3>3, <3>4, <3>5
  <2> QED BY <1>2, <2>3, <2>4
<1> QED BY <1>6, <1>7

\* Every step keeps the waiting turns in line.
LEMMA NextWaits == ListInv /\ WaitInv /\ [Next]_vars => WaitInv'
<1> SUFFICES ASSUME ListInv, WaitInv, [Next]_vars PROVE WaitInv'
  OBVIOUS
<1>1. ASSUME NEW j \in Job, Register(j) \/ Submitter(j) PROVE WaitInv'
  BY <1>1, RegisterWaits, ThreadWaits
<1>2. ASSUME NEW j \in Job, Work(j) PROVE WaitInv'
  BY <1>2, ThreadWaits, HandOverWaits DEF Work
<1>3. ASSUME NEW j \in Job, ReadLine(j) \/ Exit(j) \/ EndOfOutput(j) PROVE WaitInv'
  BY <1>3, ThreadWaits
<1>4. ASSUME NEW j \in Job, CancelCheck(j) \/ CancelRequest(j) PROVE WaitInv'
  BY <1>4, CancelSetWaits, HandOverWaits, CancelActWaits DEF CancelRequest
<1>5. CASE UNCHANGED vars
  BY <1>5 DEF vars, WaitInv, CancelSaid, InLine, WaitsInLine, PassesOn, Excused, TakenOutRunning
<1> QED BY <1>1, <1>2, <1>3, <1>4, <1>5 DEF Next, Finished

\* Whoever submits and cancels, and under whatever locks: a job that is told to
\* wait has somebody to wait for, unless a cancellation took a running job of
\* its chat for a waiting one.
THEOREM StrandedOnlyIfTakenOut == Spec => []WaitsUnlessTakenOut
<1>1. ListInv /\ WaitInv => WaitsUnlessTakenOut
  <2> SUFFICES ASSUME ListInv, WaitInv, NEW j \in Job,
                      submit[j] = "done", status[j] = "pending", worker[j] = "none",
                      ~Excused(KeyOf[j])
               PROVE  \E i \in Job \ {j} : KeyOf[i] = KeyOf[j] /\ Unfinished(i)
    <3>1. \A j \in Job : Excused(KeyOf[j]) =>
            (worker[j] = "none" => \E i \in Job \ {j} : KeyOf[i] = KeyOf[j] /\ TakenOutRunning(i))
      BY DEF Excused, TakenOutRunning
    <3> QED BY <3>1 DEF WaitsUnlessTakenOut
  <2>1. pred[j] \in Job /\ PassesOn(pred[j])
    BY DEF WaitInv, WaitsInLine, ListInv, TypeOK
  <2>2. pred[j] # j /\ KeyOf[pred[j]] = KeyOf[j]
    BY <2>1 DEF ListInv, LinksAgree
  <2> QED BY <2>1, <2>2 DEF PassesOn, Unfinished
<1>2. ListInv /\ WaitInv /\ [Next]_vars => ListInv' /\ WaitInv'
  BY NextLists, NextWaits
<1> QED BY <1>1, <1>2, InitLists, InitWaits, PTL DEF Spec

-----------------------------------------------------------------------------
(* Turns submitted under one lock, and not cancelled.                       *)

\* Nobody has a turn at first.
LEMMA InitTurns == Init => TurnInv
<1> SUFFICES ASSUME Init PROVE TurnInv
  OBVIOUS
<1>1. \A j \in Job : ~Owns(j) /\ ~HasTurn(j) /\ ~Live(j) /\ pred[j] = NoJob
  BY DEF Init, Owns, HasTurn, Dead, Live
<1>2. OneOwner /\ TailFollowsOwner /\ LinksAreActive /\ OpenUntilDecided
  BY <1>1 DEF Init, OneOwner, TailFollowsOwner, LinksAreActive, OpenUntilDecided
<1>3. StaysInLine /\ OrderlyCalls
  BY DEF Init, StaysInLine, OrderlyCalls
<1> QED BY <1>2, <1>3 DEF TurnInv

\* A new turn queues behind the one that is going on, if there is one.
LEMMA RegisterTurns ==
  ASSUME ListInv, TurnInv, ListInv', NEW j \in Job, Register(j),
         \A x, y \in Job : GuardOf[x] = GuardOf[y]
  PROVE  TurnInv'
<1> USE JobAssumption, KeyAssumption DEF ListInv, TurnInv
<1> DEFINE p == tail[KeyOf[j]]
           behind == Active(p)
<1>1. /\ submit[j] = "new" /\ KeyOf[j] \in Key /\ status[j] = "none" /\ worker[j] = "none"
      /\ pred[j] = NoJob /\ succ[j] = NoJob
      /\ \A k \in Key : tail[k] # j
      /\ \A x \in Job : submit[x] \in {"new", "done"}
  BY DEF Register, Active, GuardFree, NewIsUnknown
<1>2. /\ p \in Job \cup {NoJob} /\ p # j
      /\ p # NoJob => KeyOf[p] = KeyOf[j] /\ succ[p] = NoJob /\ submit[p] # "new"
      /\ p # NoJob => p \in keyed
  BY <1>1 DEF TypeOK, TailIsLast, NewIsUnknown, LinksAreActive
<1>3. p # NoJob /\ ~behind => /\ ~Owns(p)
                              /\ pred[p] = NoJob
  <2> SUFFICES ASSUME p # NoJob, ~behind PROVE ~Owns(p) /\ pred[p] = NoJob
    OBVIOUS
  <2>1. status[p] \in Terminal
    BY <1>1, <1>2 DEF StaysInLine, Active
  <2> QED BY <1>2, <2>1 DEF OpenUntilDecided, Owns
<1>4. ~behind => \A x \in Job : KeyOf[x] = KeyOf[j] => ~Owns(x)
  BY <1>3 DEF TailFollowsOwner
<1>5. \A x \in Job \ {j} : Owns(x)' <=> Owns(x) \/ (behind /\ x = p /\ worker[p] = "handing")
  BY <1>1, <1>2 DEF Register, Active, Owns, HasTurn, Dead, TypeOK
<1>6. ~Owns(j) /\ (Owns(j)' <=> ~behind)
  BY <1>1 DEF Register, Active, Owns, HasTurn, Dead, TypeOK
<1>7. behind /\ worker[p] = "handing" => \A x \in Job : Owns(x) /\ KeyOf[x] = KeyOf[j] => x = p
  <2>1. behind /\ worker[p] = "handing" => pred[p] = NoJob
    BY <1>2 DEF WaitingHasNoThread, Active
  <2> QED BY <2>1 DEF TailFollowsOwner
<1>8. OneOwner'
  BY <1>2, <1>4, <1>5, <1>6, <1>7 DEF OneOwner
<1>9. TailFollowsOwner'
  <2> SUFFICES ASSUME NEW x \in Job, Owns(x)'
               PROVE  LET t == tail'[KeyOf[x]] IN t # NoJob /\ (t = x \/ pred'[t] # NoJob)
    BY DEF TailFollowsOwner
  <2>1. tail' = [tail EXCEPT ![KeyOf[j]] = j] /\ j # NoJob /\ KeyOf[x] \in Key
    BY DEF Register, Active
  <2>2. behind => pred' = [pred EXCEPT ![j] = p]
    BY DEF Register, Active
  <2>3. ~behind => pred' = pred
    BY DEF Register, Active
  <2>4. CASE KeyOf[x] = KeyOf[j]
    BY <1>1, <1>4, <1>5, <1>6, <2>1, <2>2, <2>4 DEF TypeOK, Active
  <2>5. CASE KeyOf[x] # KeyOf[j]
    <3>1. Owns(x) /\ x # j
      BY <1>2, <1>5, <2>5
    <3> QED BY <1>1, <2>1, <2>2, <2>3, <2>5, <3>1 DEF TypeOK, TailFollowsOwner
  <2> QED BY <2>4, <2>5
<1>10. LinksAreActive'
  BY <1>1, <1>2 DEF Register, Active, LinksAreActive, TypeOK
<1>11. OpenUntilDecided'
  BY <1>1 DEF Register, Active, OpenUntilDecided, HasTurn, Dead, Live, TypeOK, Terminal
<1>12. StaysInLine'
  <2>1. submit'[j] = IF behind THEN "waiting" ELSE "registered"
    BY DEF Register, Active, TypeOK
  <2>2. behind => pred'[j] = p /\ p # NoJob
    BY DEF Register, Active, TypeOK
  <2>3. \A x \in Job \ {j} : pred'[x] = pred[x] /\ submit'[x] = submit[x]
    BY DEF Register, Active, TypeOK
  <2> QED BY <1>1, <2>1, <2>2, <2>3 DEF Register, Active, StaysInLine
<1>13. OrderlyCalls'
  BY <1>1 DEF Register, Active, OrderlyCalls, TypeOK
<1> QED BY <1>8, <1>9, <1>10, <1>11, <1>12, <1>13

\* The thread of a job that ended passes the turn to the job behind it.
LEMMA HandOverTurns ==
  ASSUME ListInv, TurnInv, NEW j \in Job, HandOver(j) PROVE TurnInv'
<1> USE JobAssumption, KeyAssumption DEF ListInv, TurnInv
<1> DEFINE s == succ[j]
<1>1. /\ worker[j] = "handing" /\ pred[j] = NoJob /\ submit[j] # "new" /\ ~HasTurn(j)
      /\ j \in keyed /\ KeyOf[j] \in Key
  BY DEF HandOver, WaitingHasNoThread, NewIsUnknown, DirectIsUnlinked, HasTurn, Dead, StaysInLine
<1>2. /\ s \in Job \cup {NoJob} /\ s # j
      /\ s # NoJob => /\ pred[s] = j /\ KeyOf[s] = KeyOf[j] /\ worker[s] = "none"
                      /\ submit[s] \notin {"new", "registered", "announced"}
                      /\ status[s] \notin Terminal /\ s \in queued
  <2>1. s \in Job \cup {NoJob}
    BY DEF TypeOK
  <2>2. s # j /\ (s # NoJob => pred[s] = j /\ KeyOf[s] = KeyOf[j])
    BY <2>1 DEF LinksAgree
  <2>3. s # NoJob => /\ worker[s] = "none" /\ status[s] \notin Terminal
                     /\ submit[s] \notin {"new", "registered", "announced"}
    BY <2>1, <2>2 DEF WaitingHasNoThread, NewIsUnknown, DirectIsUnlinked, OpenUntilDecided
  <2> QED BY <2>1, <2>2, <2>3 DEF StaysInLine
<1>3. /\ worker' = [worker EXCEPT ![j] = "cleaning", ![s] = IF s = NoJob THEN @ ELSE "spawned"]
      /\ succ' = [succ EXCEPT ![j] = NoJob]
      /\ pred' = [x \in Job |-> IF x = s THEN NoJob ELSE pred[x]]
      /\ queued' = queued \ {j} /\ keyed' = keyed \ {j}
      /\ UNCHANGED <<status, submit, process, cancel>>
  BY <1>1, <1>2 DEF HandOver, StartSuccessor, TypeOK
<1>4. \A x \in Job \ {j} : x # s => (Owns(x)' <=> Owns(x))
  BY <1>2, <1>3 DEF Owns, HasTurn, Dead, TypeOK
<1>5. ~Owns(j)'
  BY <1>1, <1>2, <1>3 DEF Owns, HasTurn, Dead, TypeOK
<1>6. s # NoJob => \A x \in Job : Owns(x) /\ KeyOf[x] = KeyOf[j] => x = j
  BY <1>1 DEF OneOwner, Owns
<1>7. OneOwner'
  BY <1>2, <1>4, <1>5, <1>6 DEF OneOwner
<1>8. s # NoJob => tail' = tail
  BY DEF HandOver, StartSuccessor
<1>9. s = NoJob => tail' = IF tail[KeyOf[j]] = j THEN [tail EXCEPT ![KeyOf[j]] = NoJob] ELSE tail
  BY <1>1 DEF HandOver, StartSuccessor
<1>10. s = NoJob /\ tail[KeyOf[j]] = j => \A x \in Job : KeyOf[x] = KeyOf[j] => ~Owns(x)
  BY <1>1 DEF TailFollowsOwner, Owns
<1>11. TailFollowsOwner'
  <2> SUFFICES ASSUME NEW x \in Job, Owns(x)'
               PROVE  LET t == tail'[KeyOf[x]] IN t # NoJob /\ (t = x \/ pred'[t] # NoJob)
    BY DEF TailFollowsOwner
  <2> DEFINE t == tail[KeyOf[x]]
  <2>1. t \in Job \cup {NoJob} /\ KeyOf[x] \in Key /\ x # j
    BY <1>5 DEF TypeOK
  <2>2. CASE s = NoJob
    <3>1. Owns(x)
      BY <1>4, <2>1, <2>2
    <3>2. tail'[KeyOf[x]] = t /\ pred' = pred
      BY <1>3, <1>9, <1>10, <2>1, <2>2, <3>1 DEF TypeOK
    <3> QED BY <3>1, <3>2 DEF TailFollowsOwner
  <2>3. CASE s # NoJob /\ x = s
    <3>1. Owns(j) /\ t = tail[KeyOf[j]]
      BY <1>1, <1>2, <2>3 DEF Owns
    <3>2. t # NoJob /\ t # j /\ pred[t] # NoJob
      BY <1>1, <2>3, <3>1 DEF TailFollowsOwner, TailIsLast
    <3> QED BY <1>3, <1>8, <2>1, <2>3, <3>2
  <2>4. CASE s # NoJob /\ x # s
    <3>1. Owns(x) /\ t # NoJob /\ (t = x \/ pred[t] # NoJob)
      BY <1>4, <2>1, <2>4 DEF TailFollowsOwner
    <3>2. t # s
      BY <1>2, <1>6, <2>1, <2>4, <3>1 DEF TailIsLast
    <3> QED BY <1>3, <1>8, <2>1, <2>4, <3>1, <3>2
  <2> QED BY <2>2, <2>3, <2>4
<1>12. LinksAreActive'
  <2>1. keyed' = keyed \ {j}
    BY <1>3
  <2>2. \A x \in Job : pred'[x] # NoJob => pred'[x] = pred[x] /\ pred[x] # j
    BY <1>2, <1>3 DEF LinksAgree
  <2>3. \A k \in Key : tail'[k] # NoJob => tail'[k] = tail[k] /\ tail[k] # j
    BY <1>1, <1>2, <1>8, <1>9 DEF TailIsLast, TypeOK
  <2> QED BY <2>1, <2>2, <2>3 DEF LinksAreActive, TypeOK
<1>13. OpenUntilDecided'
  BY <1>1, <1>2, <1>3 DEF OpenUntilDecided, HasTurn, Dead, Live, TypeOK
<1>14. StaysInLine'
  BY <1>1, <1>2, <1>3 DEF StaysInLine, TypeOK
<1>15. OrderlyCalls'
  BY <1>3 DEF OrderlyCalls
<1> QED BY <1>7, <1>11, <1>12, <1>13, <1>14, <1>15

\* The other steps leave the turn where it is: the announcement of a job,
LEMMA AnnounceTurns == ASSUME ListInv, TurnInv, NEW j \in Job, Announce(j) PROVE TurnInv'
<1> USE DEF ListInv, TurnInv
<1>1. \A x \in Job : (Owns(x)' => Owns(x)) /\ (HasTurn(x)' => HasTurn(x))
  BY DEF Announce, WorkerGoesTo, Owns, HasTurn, Dead, TypeOK, links
<1>2. OneOwner' /\ TailFollowsOwner'
  BY <1>1 DEF Announce, OneOwner, TailFollowsOwner, links
<1>3. LinksAreActive'
  BY DEF Announce, WorkerGoesTo, HandsOver, LinksAreActive, OpenUntilDecided, HasTurn, Dead, OrderlyCalls, WaitingHasNoThread, TypeOK, links
<1>4. OpenUntilDecided'
  BY <1>1 DEF Announce, WorkerGoesTo, SetStatus, OpenUntilDecided, OrderlyCalls, WaitingHasNoThread, DirectIsUnlinked, HasTurn, Dead, Live, TypeOK, Terminal, links
<1>5. StaysInLine'
  BY DEF Announce, WorkerGoesTo, SetStatus, HandsOver, StaysInLine, OpenUntilDecided, HasTurn, Dead, OrderlyCalls, WaitingHasNoThread, DirectIsUnlinked, TypeOK, links
<1>6. OrderlyCalls'
  BY DEF Announce, WorkerGoesTo, SetStatus, OrderlyCalls, TypeOK
<1> QED BY <1>2, <1>3, <1>4, <1>5, <1>6

\* its start,
LEMMA StartTurns == ASSUME ListInv, TurnInv, NEW j \in Job, Start(j) PROVE TurnInv'
<1> USE DEF ListInv, TurnInv
<1>1. \A x \in Job : (Owns(x)' => Owns(x)) /\ (HasTurn(x)' => HasTurn(x))
  BY DEF Start, WorkerGoesTo, Owns, HasTurn, Dead, TypeOK, links
<1>2. OneOwner' /\ TailFollowsOwner'
  BY <1>1 DEF Start, OneOwner, TailFollowsOwner, links
<1>3. LinksAreActive'
  BY DEF Start, WorkerGoesTo, HandsOver, LinksAreActive, OpenUntilDecided, HasTurn, Dead, OrderlyCalls, WaitingHasNoThread, TypeOK, links
<1>4. OpenUntilDecided'
  BY <1>1 DEF Start, WorkerGoesTo, SetStatus, OpenUntilDecided, OrderlyCalls, WaitingHasNoThread, DirectIsUnlinked, HasTurn, Dead, Live, TypeOK, Terminal, links
<1>5. StaysInLine'
  BY DEF Start, WorkerGoesTo, SetStatus, HandsOver, StaysInLine, OpenUntilDecided, HasTurn, Dead, OrderlyCalls, WaitingHasNoThread, DirectIsUnlinked, TypeOK, links
<1>6. OrderlyCalls'
  BY DEF Start, WorkerGoesTo, SetStatus, OrderlyCalls, TypeOK
<1> QED BY <1>2, <1>3, <1>4, <1>5, <1>6

\* the steps of its thread,
LEMMA BeginTurns == ASSUME ListInv, TurnInv, NEW j \in Job, Begin(j) PROVE TurnInv'
<1> USE DEF ListInv, TurnInv
<1>1. \A x \in Job : (Owns(x)' => Owns(x)) /\ (HasTurn(x)' => HasTurn(x))
  BY DEF Begin, WorkerGoesTo, Owns, HasTurn, Dead, TypeOK, links
<1>2. OneOwner' /\ TailFollowsOwner'
  BY <1>1 DEF Begin, OneOwner, TailFollowsOwner, links
<1>3. LinksAreActive'
  BY DEF Begin, WorkerGoesTo, HandsOver, LinksAreActive, OpenUntilDecided, HasTurn, Dead, OrderlyCalls, WaitingHasNoThread, TypeOK, links
<1>4. OpenUntilDecided'
  BY <1>1 DEF Begin, WorkerGoesTo, SetStatus, OpenUntilDecided, OrderlyCalls, WaitingHasNoThread, DirectIsUnlinked, HasTurn, Dead, Live, TypeOK, Terminal, links
<1>5. StaysInLine'
  BY DEF Begin, WorkerGoesTo, SetStatus, HandsOver, StaysInLine, OpenUntilDecided, HasTurn, Dead, OrderlyCalls, WaitingHasNoThread, DirectIsUnlinked, TypeOK, links
<1>6. OrderlyCalls'
  BY DEF Begin, WorkerGoesTo, SetStatus, OrderlyCalls, TypeOK
<1> QED BY <1>2, <1>3, <1>4, <1>5, <1>6

\* the last look before the process is created,
LEMMA PrepareTurns == ASSUME ListInv, TurnInv, NEW j \in Job, Prepare(j) PROVE TurnInv'
<1> USE DEF ListInv, TurnInv
<1>1. \A x \in Job : (Owns(x)' => Owns(x)) /\ (HasTurn(x)' => HasTurn(x))
  BY DEF Prepare, WorkerGoesTo, Owns, HasTurn, Dead, TypeOK, links
<1>2. OneOwner' /\ TailFollowsOwner'
  BY <1>1 DEF Prepare, OneOwner, TailFollowsOwner, links
<1>3. LinksAreActive'
  BY DEF Prepare, WorkerGoesTo, HandsOver, LinksAreActive, OpenUntilDecided, HasTurn, Dead, OrderlyCalls, WaitingHasNoThread, TypeOK, links
<1>4. OpenUntilDecided'
  BY <1>1 DEF Prepare, WorkerGoesTo, SetStatus, OpenUntilDecided, OrderlyCalls, WaitingHasNoThread, DirectIsUnlinked, HasTurn, Dead, Live, TypeOK, Terminal, links
<1>5. StaysInLine'
  BY DEF Prepare, WorkerGoesTo, SetStatus, HandsOver, StaysInLine, OpenUntilDecided, HasTurn, Dead, OrderlyCalls, WaitingHasNoThread, DirectIsUnlinked, TypeOK, links
<1>6. OrderlyCalls'
  BY DEF Prepare, WorkerGoesTo, SetStatus, OrderlyCalls, TypeOK
<1> QED BY <1>2, <1>3, <1>4, <1>5, <1>6

\* an exception in it,
LEMMA RaiseTurns == ASSUME ListInv, TurnInv, NEW j \in Job, Raise(j) PROVE TurnInv'
<1> USE DEF ListInv, TurnInv
<1>1. \A x \in Job : (Owns(x)' => Owns(x)) /\ (HasTurn(x)' => HasTurn(x))
  BY DEF Raise, WorkerGoesTo, Owns, HasTurn, Dead, TypeOK, links
<1>2. OneOwner' /\ TailFollowsOwner'
  BY <1>1 DEF Raise, OneOwner, TailFollowsOwner, links
<1>3. LinksAreActive'
  BY DEF Raise, WorkerGoesTo, HandsOver, LinksAreActive, OpenUntilDecided, HasTurn, Dead, OrderlyCalls, WaitingHasNoThread, TypeOK, links
<1>4. OpenUntilDecided'
  BY <1>1 DEF Raise, WorkerGoesTo, OpenUntilDecided, StaysInLine, NewIsUnknown, WaitingHasNoThread, DirectIsUnlinked, HasTurn, Dead, Live, TypeOK, Terminal, links
<1>5. StaysInLine'
  BY DEF Raise, WorkerGoesTo, SetStatus, HandsOver, StaysInLine, OpenUntilDecided, HasTurn, Dead, OrderlyCalls, WaitingHasNoThread, DirectIsUnlinked, TypeOK, links
<1>6. OrderlyCalls'
  BY DEF Raise, WorkerGoesTo, SetStatus, OrderlyCalls, TypeOK
<1> QED BY <1>2, <1>3, <1>4, <1>5, <1>6

\* the process,
LEMMA LaunchTurns == ASSUME ListInv, TurnInv, NEW j \in Job, Launch(j) PROVE TurnInv'
<1> USE DEF ListInv, TurnInv
<1>1. \A x \in Job : (Owns(x)' => Owns(x)) /\ (HasTurn(x)' => HasTurn(x))
  BY DEF Launch, WorkerGoesTo, Owns, HasTurn, Dead, TypeOK, links
<1>2. OneOwner' /\ TailFollowsOwner'
  BY <1>1 DEF Launch, OneOwner, TailFollowsOwner, links
<1>3. LinksAreActive'
  BY DEF Launch, WorkerGoesTo, HandsOver, LinksAreActive, OpenUntilDecided, HasTurn, Dead, OrderlyCalls, WaitingHasNoThread, TypeOK, links
<1>4. OpenUntilDecided'
  BY <1>1 DEF Launch, WorkerGoesTo, SetStatus, OpenUntilDecided, OrderlyCalls, WaitingHasNoThread, DirectIsUnlinked, HasTurn, Dead, Live, TypeOK, Terminal, links
<1>5. StaysInLine'
  BY DEF Launch, WorkerGoesTo, SetStatus, HandsOver, StaysInLine, OpenUntilDecided, HasTurn, Dead, OrderlyCalls, WaitingHasNoThread, DirectIsUnlinked, TypeOK, links
<1>6. OrderlyCalls'
  BY DEF Launch, WorkerGoesTo, SetStatus, OrderlyCalls, TypeOK
<1> QED BY <1>2, <1>3, <1>4, <1>5, <1>6

\* its registration,
LEMMA RegisterProcessTurns == ASSUME ListInv, TurnInv, NEW j \in Job, RegisterProcess(j) PROVE TurnInv'
<1> USE DEF ListInv, TurnInv
<1>1. \A x \in Job : (Owns(x)' => Owns(x)) /\ (HasTurn(x)' => HasTurn(x))
  BY DEF RegisterProcess, WorkerGoesTo, Owns, HasTurn, Dead, TypeOK, links
<1>2. OneOwner' /\ TailFollowsOwner'
  BY <1>1 DEF RegisterProcess, OneOwner, TailFollowsOwner, links
<1>3. LinksAreActive'
  BY DEF RegisterProcess, WorkerGoesTo, HandsOver, LinksAreActive, OpenUntilDecided, HasTurn, Dead, OrderlyCalls, WaitingHasNoThread, TypeOK, links
<1>4. OpenUntilDecided'
  BY <1>1 DEF RegisterProcess, WorkerGoesTo, SetStatus, OpenUntilDecided, OrderlyCalls, WaitingHasNoThread, DirectIsUnlinked, HasTurn, Dead, Live, TypeOK, Terminal, links
<1>5. StaysInLine'
  BY DEF RegisterProcess, WorkerGoesTo, SetStatus, HandsOver, StaysInLine, OpenUntilDecided, HasTurn, Dead, OrderlyCalls, WaitingHasNoThread, DirectIsUnlinked, TypeOK, links
<1>6. OrderlyCalls'
  BY DEF RegisterProcess, WorkerGoesTo, SetStatus, OrderlyCalls, TypeOK
<1> QED BY <1>2, <1>3, <1>4, <1>5, <1>6

\* a line of output,
LEMMA ReadLineTurns == ASSUME ListInv, TurnInv, NEW j \in Job, ReadLine(j) PROVE TurnInv'
<1> USE DEF ListInv, TurnInv
<1>1. \A x \in Job : (Owns(x)' => Owns(x)) /\ (HasTurn(x)' => HasTurn(x))
  BY DEF ReadLine, WorkerGoesTo, Owns, HasTurn, Dead, TypeOK, links
<1>2. OneOwner' /\ TailFollowsOwner'
  BY <1>1 DEF ReadLine, OneOwner, TailFollowsOwner, links
<1>3. LinksAreActive'
  BY DEF ReadLine, WorkerGoesTo, HandsOver, LinksAreActive, OpenUntilDecided, HasTurn, Dead, OrderlyCalls, WaitingHasNoThread, TypeOK, links
<1>4. OpenUntilDecided'
  BY <1>1 DEF ReadLine, WorkerGoesTo, SetStatus, OpenUntilDecided, OrderlyCalls, WaitingHasNoThread, DirectIsUnlinked, HasTurn, Dead, Live, TypeOK, Terminal, links
<1>5. StaysInLine'
  BY DEF ReadLine, WorkerGoesTo, SetStatus, HandsOver, StaysInLine, OpenUntilDecided, HasTurn, Dead, OrderlyCalls, WaitingHasNoThread, DirectIsUnlinked, TypeOK, links
<1>6. OrderlyCalls'
  BY DEF ReadLine, WorkerGoesTo, SetStatus, OrderlyCalls, TypeOK
<1> QED BY <1>2, <1>3, <1>4, <1>5, <1>6

\* the end of the process,
LEMMA ExitTurns == ASSUME ListInv, TurnInv, NEW j \in Job, Exit(j) PROVE TurnInv'
<1> USE DEF ListInv, TurnInv
<1>1. \A x \in Job : (Owns(x)' => Owns(x)) /\ (HasTurn(x)' => HasTurn(x))
  BY DEF Exit, WorkerGoesTo, Owns, HasTurn, Dead, TypeOK, links
<1>2. OneOwner' /\ TailFollowsOwner'
  BY <1>1 DEF Exit, OneOwner, TailFollowsOwner, links
<1>3. LinksAreActive'
  BY DEF Exit, WorkerGoesTo, HandsOver, LinksAreActive, OpenUntilDecided, HasTurn, Dead, OrderlyCalls, WaitingHasNoThread, TypeOK, links
<1>4. OpenUntilDecided'
  BY <1>1 DEF Exit, WorkerGoesTo, SetStatus, OpenUntilDecided, OrderlyCalls, WaitingHasNoThread, DirectIsUnlinked, HasTurn, Dead, Live, TypeOK, Terminal, links
<1>5. StaysInLine'
  BY DEF Exit, WorkerGoesTo, SetStatus, HandsOver, StaysInLine, OpenUntilDecided, HasTurn, Dead, OrderlyCalls, WaitingHasNoThread, DirectIsUnlinked, TypeOK, links
<1>6. OrderlyCalls'
  BY DEF Exit, WorkerGoesTo, SetStatus, OrderlyCalls, TypeOK
<1> QED BY <1>2, <1>3, <1>4, <1>5, <1>6

\* the end of its output,
LEMMA EndOfOutputTurns == ASSUME ListInv, TurnInv, NEW j \in Job, EndOfOutput(j) PROVE TurnInv'
<1> USE DEF ListInv, TurnInv
<1>1. \A x \in Job : (Owns(x)' => Owns(x)) /\ (HasTurn(x)' => HasTurn(x))
  BY DEF EndOfOutput, WorkerGoesTo, Owns, HasTurn, Dead, TypeOK, links
<1>2. OneOwner' /\ TailFollowsOwner'
  BY <1>1 DEF EndOfOutput, OneOwner, TailFollowsOwner, links
<1>3. LinksAreActive'
  BY DEF EndOfOutput, WorkerGoesTo, HandsOver, LinksAreActive, OpenUntilDecided, HasTurn, Dead, OrderlyCalls, WaitingHasNoThread, TypeOK, links
<1>4. OpenUntilDecided'
  BY <1>1 DEF EndOfOutput, WorkerGoesTo, SetStatus, OpenUntilDecided, OrderlyCalls, WaitingHasNoThread, DirectIsUnlinked, HasTurn, Dead, Live, TypeOK, Terminal, links
<1>5. StaysInLine'
  BY DEF EndOfOutput, WorkerGoesTo, SetStatus, HandsOver, StaysInLine, OpenUntilDecided, HasTurn, Dead, OrderlyCalls, WaitingHasNoThread, DirectIsUnlinked, TypeOK, links
<1>6. OrderlyCalls'
  BY DEF EndOfOutput, WorkerGoesTo, SetStatus, OrderlyCalls, TypeOK
<1> QED BY <1>2, <1>3, <1>4, <1>5, <1>6

\* the join of the reader,
LEMMA ReapTurns == ASSUME ListInv, TurnInv, NEW j \in Job, Reap(j) PROVE TurnInv'
<1> USE DEF ListInv, TurnInv
<1>1. \A x \in Job : (Owns(x)' => Owns(x)) /\ (HasTurn(x)' => HasTurn(x))
  BY DEF Reap, WorkerGoesTo, Owns, HasTurn, Dead, TypeOK, links
<1>2. OneOwner' /\ TailFollowsOwner'
  BY <1>1 DEF Reap, OneOwner, TailFollowsOwner, links
<1>3. LinksAreActive'
  BY DEF Reap, WorkerGoesTo, HandsOver, LinksAreActive, OpenUntilDecided, HasTurn, Dead, OrderlyCalls, WaitingHasNoThread, TypeOK, links
<1>4. OpenUntilDecided'
  BY <1>1 DEF Reap, WorkerGoesTo, SetStatus, OpenUntilDecided, OrderlyCalls, WaitingHasNoThread, DirectIsUnlinked, HasTurn, Dead, Live, TypeOK, Terminal, links
<1>5. StaysInLine'
  BY DEF Reap, WorkerGoesTo, SetStatus, HandsOver, StaysInLine, OpenUntilDecided, HasTurn, Dead, OrderlyCalls, WaitingHasNoThread, DirectIsUnlinked, TypeOK, links
<1>6. OrderlyCalls'
  BY DEF Reap, WorkerGoesTo, SetStatus, OrderlyCalls, TypeOK
<1> QED BY <1>2, <1>3, <1>4, <1>5, <1>6

\* the last look at the state,
LEMMA JudgeTurns == ASSUME ListInv, TurnInv, NEW j \in Job, Judge(j) PROVE TurnInv'
<1> USE DEF ListInv, TurnInv
<1>1. \A x \in Job : (Owns(x)' => Owns(x)) /\ (HasTurn(x)' => HasTurn(x))
  BY DEF Judge, WorkerGoesTo, Owns, HasTurn, Dead, TypeOK, links
<1>2. OneOwner' /\ TailFollowsOwner'
  BY <1>1 DEF Judge, OneOwner, TailFollowsOwner, links
<1>3. LinksAreActive'
  BY DEF Judge, WorkerGoesTo, HandsOver, LinksAreActive, OpenUntilDecided, HasTurn, Dead, OrderlyCalls, WaitingHasNoThread, TypeOK, links
<1>4. OpenUntilDecided'
  BY <1>1 DEF Judge, WorkerGoesTo, SetStatus, OpenUntilDecided, OrderlyCalls, WaitingHasNoThread, DirectIsUnlinked, HasTurn, Dead, Live, TypeOK, Terminal, links
<1>5. StaysInLine'
  BY DEF Judge, WorkerGoesTo, SetStatus, HandsOver, StaysInLine, OpenUntilDecided, HasTurn, Dead, OrderlyCalls, WaitingHasNoThread, DirectIsUnlinked, TypeOK, links
<1>6. OrderlyCalls'
  BY DEF Judge, WorkerGoesTo, SetStatus, OrderlyCalls, TypeOK
<1> QED BY <1>2, <1>3, <1>4, <1>5, <1>6

\* the final state,
LEMMA DecideTurns == ASSUME ListInv, TurnInv, NEW j \in Job, Decide(j) PROVE TurnInv'
<1> USE DEF ListInv, TurnInv
<1>1. \A x \in Job : (Owns(x)' => Owns(x)) /\ (HasTurn(x)' => HasTurn(x))
  BY DEF Decide, WorkerGoesTo, Owns, HasTurn, Dead, TypeOK, links
<1>2. OneOwner' /\ TailFollowsOwner'
  BY <1>1 DEF Decide, OneOwner, TailFollowsOwner, links
<1>3. LinksAreActive'
  BY DEF Decide, WorkerGoesTo, HandsOver, LinksAreActive, OpenUntilDecided, HasTurn, Dead, OrderlyCalls, WaitingHasNoThread, TypeOK, links
<1>4. OpenUntilDecided'
  BY <1>1 DEF Decide, WorkerGoesTo, SetStatus, HandsOver, OpenUntilDecided, OrderlyCalls, WaitingHasNoThread, DirectIsUnlinked, HasTurn, Dead, Live, TypeOK, Terminal, links
<1>5. StaysInLine'
  BY DEF Decide, WorkerGoesTo, SetStatus, HandsOver, StaysInLine, OpenUntilDecided, HasTurn, Dead, OrderlyCalls, WaitingHasNoThread, DirectIsUnlinked, TypeOK, links
<1>6. OrderlyCalls'
  BY DEF Decide, WorkerGoesTo, SetStatus, OrderlyCalls, TypeOK
<1> QED BY <1>2, <1>3, <1>4, <1>5, <1>6

\* the clean-up,
LEMMA CleanTurns == ASSUME ListInv, TurnInv, NEW j \in Job, Clean(j) PROVE TurnInv'
<1> USE DEF ListInv, TurnInv
<1>1. \A x \in Job : (Owns(x)' => Owns(x)) /\ (HasTurn(x)' => HasTurn(x))
  BY DEF Clean, WorkerGoesTo, Owns, HasTurn, Dead, TypeOK, links
<1>2. OneOwner' /\ TailFollowsOwner'
  BY <1>1 DEF Clean, OneOwner, TailFollowsOwner, links
<1>3. LinksAreActive'
  BY DEF Clean, WorkerGoesTo, HandsOver, LinksAreActive, OpenUntilDecided, HasTurn, Dead, OrderlyCalls, WaitingHasNoThread, TypeOK, links
<1>4. OpenUntilDecided'
  BY <1>1 DEF Clean, WorkerGoesTo, SetStatus, OpenUntilDecided, OrderlyCalls, WaitingHasNoThread, DirectIsUnlinked, HasTurn, Dead, Live, TypeOK, Terminal, links
<1>5. StaysInLine'
  BY DEF Clean, WorkerGoesTo, SetStatus, HandsOver, StaysInLine, OpenUntilDecided, HasTurn, Dead, OrderlyCalls, WaitingHasNoThread, DirectIsUnlinked, TypeOK, links
<1>6. OrderlyCalls'
  BY DEF Clean, WorkerGoesTo, SetStatus, OrderlyCalls, TypeOK
<1> QED BY <1>2, <1>3, <1>4, <1>5, <1>6

\* Every step keeps the turns in order.
LEMMA NextTurns ==
  ASSUME Cancellable = {}, \A x, y \in Job : GuardOf[x] = GuardOf[y]
  PROVE  ListInv /\ ListInv' /\ TurnInv /\ [Next]_vars => TurnInv'
<1> SUFFICES ASSUME ListInv, ListInv', TurnInv, [Next]_vars PROVE TurnInv'
  OBVIOUS
<1>1. ASSUME NEW j \in Job, Register(j) \/ Submitter(j) PROVE TurnInv'
  BY <1>1, RegisterTurns, AnnounceTurns, StartTurns DEF Submitter
<1>2. ASSUME NEW j \in Job, Work(j) PROVE TurnInv'
  BY <1>2, BeginTurns, PrepareTurns, RaiseTurns, LaunchTurns, RegisterProcessTurns, ReapTurns, JudgeTurns,
     DecideTurns, HandOverTurns, CleanTurns DEF Work
<1>3. ASSUME NEW j \in Job, ReadLine(j) \/ Exit(j) \/ EndOfOutput(j) PROVE TurnInv'
  BY <1>3, ReadLineTurns, ExitTurns, EndOfOutputTurns
<1>4. ASSUME NEW j \in Job, CancelCheck(j) \/ CancelRequest(j) PROVE FALSE
  BY <1>4 DEF TurnInv, OrderlyCalls, CancelRequest, CancelCheck, CancelSet, CancelHandOver, CancelAct
<1>5. CASE UNCHANGED vars
  BY <1>5 DEF vars, TurnInv, OneOwner, TailFollowsOwner, LinksAreActive, OpenUntilDecided,
     StaysInLine, OrderlyCalls, Owns, HasTurn, Dead, Live
<1> QED BY <1>1, <1>2, <1>3, <1>4, <1>5 DEF Next, Finished

\* Overlapping turns of a chat are serialized, if one lock is held around every
\* execute() and no job is cancelled.
THEOREM TurnsSerialized ==
  ASSUME Cancellable = {}, \A x, y \in Job : GuardOf[x] = GuardOf[y]
  PROVE  Spec => []RunsAlone
<1>1. TurnInv => RunsAlone
  BY DEF TurnInv, OneOwner, OpenUntilDecided, Owns, HasTurn, RunsAlone
<1>2. ListInv /\ TurnInv /\ [Next]_vars => ListInv' /\ TurnInv'
  BY NextLists, NextTurns
<1> QED BY <1>1, <1>2, InitLists, InitTurns, PTL DEF Spec

\* Under the same assumptions a job that is told to wait has somebody to wait
\* for.
THEOREM NobodyStranded ==
  ASSUME Cancellable = {}, \A x, y \in Job : GuardOf[x] = GuardOf[y]
  PROVE  Spec => []WaitsForSomething
<1>1. ListInv /\ TurnInv => WaitsForSomething
  <2> SUFFICES ASSUME ListInv, TurnInv, NEW j \in Job,
                      submit[j] = "done", status[j] = "pending", worker[j] = "none"
               PROVE  \E i \in Job \ {j} : KeyOf[i] = KeyOf[j] /\ Unfinished(i)
    BY DEF WaitsForSomething
  <2>1. pred[j] \in Job /\ pred[j] # NoJob
    BY DEF TurnInv, StaysInLine, ListInv, TypeOK
  <2>2. pred[j] # j /\ KeyOf[pred[j]] = KeyOf[j] /\ submit[pred[j]] # "new"
    BY <2>1, JobAssumption DEF ListInv, LinksAgree, NewIsUnknown
  <2>3. status[pred[j]] \notin Terminal \/ worker[pred[j]] = "handing"
    BY <2>1, <2>2 DEF TurnInv, LinksAreActive, OpenUntilDecided, StaysInLine, HasTurn, Dead, ListInv, TypeOK, WorkerPCs, SubmitPCs
  <2> QED BY <2>1, <2>2, <2>3 DEF Unfinished
<1>2. ListInv /\ TurnInv /\ [Next]_vars => ListInv' /\ TurnInv'
  BY NextLists, NextTurns
<1> QED BY <1>1, <1>2, InitLists, InitTurns, PTL DEF Spec
=============================================================================
