-------------------------- MODULE AgentLaunchProofs --------------------------
(***************************************************************************)
(* Proofs about AgentLaunch, for any number of launches, of processes that *)
(* request them and of turns of the users.                                 *)
(*                                                                         *)
(* The argument: a row is written by the holder of the ledger only, and    *)
(* says "starting" from before the kickoff is sent until it is looked up.  *)
(* A row that may be continued was therefore never sent.                   *)
(***************************************************************************)
EXTENDS AgentLaunch, TLAPS

LEMMA InitHolds == Init => LaunchIInv
  BY RequestAssumption, JobAssumption
  DEF Init, LaunchIInv, TypeOK, RowFollows, SentOnce, SentToConfiguredChat, ReceiptTrue,
      Rows, PCs, InLedger, Preparing, Sending

LEMMA AskKeeps ==
  ASSUME LaunchIInv, NEW r \in Request, NEW l \in Launch, Ask(r, l)
  PROVE  LaunchIInv'
<1>1. TypeOK'
  BY RequestAssumption, JobAssumption
  DEF Ask, Moves, LaunchIInv, TypeOK, Rows, PCs, InLedger, Preparing, Sending
<1>2. RowFollows'
  BY RequestAssumption, JobAssumption
  DEF Ask, Moves, LaunchIInv, TypeOK, RowFollows, SentOnce, Rows, PCs, InLedger, Preparing, Sending
<1>3. SentOnce'
  BY JobAssumption
  DEF Ask, Moves, LaunchIInv, TypeOK, RowFollows, SentOnce, Rows, InLedger, Preparing, Sending
<1>4. SentToConfiguredChat'
  BY DEF Ask, Moves, LaunchIInv, TypeOK, RowFollows, SentToConfiguredChat, Sending
<1>5. ReceiptTrue'
  BY JobAssumption
  DEF Ask, Moves, LaunchIInv, TypeOK, RowFollows, SentOnce, ReceiptTrue, Preparing, Sending
<1>. QED  BY <1>1, <1>2, <1>3, <1>4, <1>5 DEF LaunchIInv

LEMMA GetKeeps ==
  ASSUME LaunchIInv, NEW r \in Request, Get(r)
  PROVE  LaunchIInv'
<1>1. TypeOK'
  BY RequestAssumption, JobAssumption
  DEF Get, Reconciled, OnlyJob, Moves, LaunchIInv, TypeOK, Rows, PCs, InLedger, Preparing, Sending
<1>2. RowFollows'
  BY RequestAssumption, JobAssumption
  DEF Get, Reconciled, OnlyJob, Moves, LaunchIInv, TypeOK, RowFollows, SentOnce, Rows, PCs, InLedger, Preparing, Sending
<1>3. SentOnce'
  BY JobAssumption
  DEF Get, Reconciled, OnlyJob, Moves, LaunchIInv, TypeOK, RowFollows, SentOnce, Rows, InLedger, Preparing, Sending
<1>4. SentToConfiguredChat'
  BY DEF Get, Reconciled, OnlyJob, Moves, LaunchIInv, TypeOK, RowFollows, SentToConfiguredChat, Sending
<1>5. ReceiptTrue'
  BY JobAssumption
  DEF Get, Reconciled, OnlyJob, Moves, LaunchIInv, TypeOK, RowFollows, SentOnce, ReceiptTrue, Preparing, Sending
<1>. QED  BY <1>1, <1>2, <1>3, <1>4, <1>5 DEF LaunchIInv

LEMMA ReuseKeeps ==
  ASSUME LaunchIInv, NEW r \in Request, Reuse(r)
  PROVE  LaunchIInv'
<1>1. TypeOK'
  BY RequestAssumption, JobAssumption
  DEF Reuse, Reconciled, OnlyJob, MayContinue, Moves, LaunchIInv, TypeOK, Rows, PCs, InLedger, Preparing, Sending
<1>2. RowFollows'
  BY RequestAssumption, JobAssumption
  DEF Reuse, Reconciled, OnlyJob, MayContinue, Moves, LaunchIInv, TypeOK, RowFollows, SentOnce, Rows, PCs, InLedger, Preparing, Sending
<1>3. SentOnce'
  BY JobAssumption
  DEF Reuse, Reconciled, OnlyJob, MayContinue, Moves, LaunchIInv, TypeOK, RowFollows, SentOnce, Rows, InLedger, Preparing, Sending
<1>4. SentToConfiguredChat'
  BY DEF Reuse, Reconciled, OnlyJob, MayContinue, Moves, LaunchIInv, TypeOK, RowFollows, SentToConfiguredChat, Sending
<1>5. ReceiptTrue'
  BY JobAssumption
  DEF Reuse, Reconciled, OnlyJob, MayContinue, Moves, LaunchIInv, TypeOK, RowFollows, SentOnce, ReceiptTrue, Preparing, Sending
<1>. QED  BY <1>1, <1>2, <1>3, <1>4, <1>5 DEF LaunchIInv

LEMMA ReserveKeeps ==
  ASSUME LaunchIInv, NEW r \in Request, Reserve(r)
  PROVE  LaunchIInv'
<1>1. TypeOK'
  BY RequestAssumption, JobAssumption
  DEF Reserve, MayContinue, Moves, LaunchIInv, TypeOK, Rows, PCs, InLedger, Preparing, Sending
<1>2. RowFollows'
  BY RequestAssumption, JobAssumption
  DEF Reserve, MayContinue, Moves, LaunchIInv, TypeOK, RowFollows, SentOnce, Rows, PCs, InLedger, Preparing, Sending
<1>3. SentOnce'
  BY JobAssumption
  DEF Reserve, MayContinue, Moves, LaunchIInv, TypeOK, RowFollows, SentOnce, Rows, InLedger, Preparing, Sending
<1>4. SentToConfiguredChat'
  BY DEF Reserve, MayContinue, Moves, LaunchIInv, TypeOK, RowFollows, SentToConfiguredChat, Sending
<1>5. ReceiptTrue'
  BY JobAssumption
  DEF Reserve, MayContinue, Moves, LaunchIInv, TypeOK, RowFollows, SentOnce, ReceiptTrue, Preparing, Sending
<1>. QED  BY <1>1, <1>2, <1>3, <1>4, <1>5 DEF LaunchIInv

LEMMA CreateChatKeeps ==
  ASSUME LaunchIInv, NEW r \in Request, CreateChat(r)
  PROVE  LaunchIInv'
<1>1. TypeOK'
  BY RequestAssumption, JobAssumption
  DEF CreateChat, Moves, LaunchIInv, TypeOK, Rows, PCs, InLedger, Preparing, Sending
<1>2. RowFollows'
  BY RequestAssumption, JobAssumption
  DEF CreateChat, Moves, LaunchIInv, TypeOK, RowFollows, SentOnce, Rows, PCs, InLedger, Preparing, Sending
<1>3. SentOnce'
  BY JobAssumption
  DEF CreateChat, Moves, LaunchIInv, TypeOK, RowFollows, SentOnce, Rows, InLedger, Preparing, Sending
<1>4. SentToConfiguredChat'
  BY DEF CreateChat, Moves, LaunchIInv, TypeOK, RowFollows, SentToConfiguredChat, Sending
<1>5. ReceiptTrue'
  BY JobAssumption
  DEF CreateChat, Moves, LaunchIInv, TypeOK, RowFollows, SentOnce, ReceiptTrue, Preparing, Sending
<1>. QED  BY <1>1, <1>2, <1>3, <1>4, <1>5 DEF LaunchIInv

LEMMA CheckUnusedKeeps ==
  ASSUME LaunchIInv, NEW r \in Request, CheckUnused(r)
  PROVE  LaunchIInv'
<1>1. TypeOK'
  BY RequestAssumption, JobAssumption
  DEF CheckUnused, Moves, LaunchIInv, TypeOK, Rows, PCs, InLedger, Preparing, Sending
<1>2. RowFollows'
  BY RequestAssumption, JobAssumption
  DEF CheckUnused, Moves, LaunchIInv, TypeOK, RowFollows, SentOnce, Rows, PCs, InLedger, Preparing, Sending
<1>3. SentOnce'
  BY JobAssumption
  DEF CheckUnused, Moves, LaunchIInv, TypeOK, RowFollows, SentOnce, Rows, InLedger, Preparing, Sending
<1>4. SentToConfiguredChat'
  BY DEF CheckUnused, Moves, LaunchIInv, TypeOK, RowFollows, SentToConfiguredChat, Sending
<1>5. ReceiptTrue'
  BY JobAssumption
  DEF CheckUnused, Moves, LaunchIInv, TypeOK, RowFollows, SentOnce, ReceiptTrue, Preparing, Sending
<1>. QED  BY <1>1, <1>2, <1>3, <1>4, <1>5 DEF LaunchIInv

LEMMA ConfigureKeeps ==
  ASSUME LaunchIInv, NEW r \in Request, Configure(r)
  PROVE  LaunchIInv'
<1>1. TypeOK'
  BY RequestAssumption, JobAssumption
  DEF Configure, Moves, LaunchIInv, TypeOK, Rows, PCs, InLedger, Preparing, Sending
<1>2. RowFollows'
  BY RequestAssumption, JobAssumption
  DEF Configure, Moves, LaunchIInv, TypeOK, RowFollows, SentOnce, Rows, PCs, InLedger, Preparing, Sending
<1>3. SentOnce'
  BY JobAssumption
  DEF Configure, Moves, LaunchIInv, TypeOK, RowFollows, SentOnce, Rows, InLedger, Preparing, Sending
<1>4. SentToConfiguredChat'
  BY DEF Configure, Moves, LaunchIInv, TypeOK, RowFollows, SentToConfiguredChat, Sending
<1>5. ReceiptTrue'
  BY JobAssumption
  DEF Configure, Moves, LaunchIInv, TypeOK, RowFollows, SentOnce, ReceiptTrue, Preparing, Sending
<1>. QED  BY <1>1, <1>2, <1>3, <1>4, <1>5 DEF LaunchIInv

LEMMA MarkConfiguredKeeps ==
  ASSUME LaunchIInv, NEW r \in Request, MarkConfigured(r)
  PROVE  LaunchIInv'
<1>1. TypeOK'
  BY RequestAssumption, JobAssumption
  DEF MarkConfigured, Moves, LaunchIInv, TypeOK, Rows, PCs, InLedger, Preparing, Sending
<1>2. RowFollows'
  BY RequestAssumption, JobAssumption
  DEF MarkConfigured, Moves, LaunchIInv, TypeOK, RowFollows, SentOnce, Rows, PCs, InLedger, Preparing, Sending
<1>3. SentOnce'
  BY JobAssumption
  DEF MarkConfigured, Moves, LaunchIInv, TypeOK, RowFollows, SentOnce, Rows, InLedger, Preparing, Sending
<1>4. SentToConfiguredChat'
  BY DEF MarkConfigured, Moves, LaunchIInv, TypeOK, RowFollows, SentToConfiguredChat, Sending
<1>5. ReceiptTrue'
  BY JobAssumption
  DEF MarkConfigured, Moves, LaunchIInv, TypeOK, RowFollows, SentOnce, ReceiptTrue, Preparing, Sending
<1>. QED  BY <1>1, <1>2, <1>3, <1>4, <1>5 DEF LaunchIInv

LEMMA PreparationFailsKeeps ==
  ASSUME LaunchIInv, NEW r \in Request, PreparationFails(r)
  PROVE  LaunchIInv'
<1>1. TypeOK'
  BY RequestAssumption, JobAssumption
  DEF PreparationFails, Leaves, Moves, LaunchIInv, TypeOK, Rows, PCs, InLedger, Preparing, Sending
<1>2. RowFollows'
  BY RequestAssumption, JobAssumption
  DEF PreparationFails, Leaves, Moves, LaunchIInv, TypeOK, RowFollows, SentOnce, Rows, PCs, InLedger, Preparing, Sending
<1>3. SentOnce'
  BY JobAssumption
  DEF PreparationFails, Leaves, Moves, LaunchIInv, TypeOK, RowFollows, SentOnce, Rows, InLedger, Preparing, Sending
<1>4. SentToConfiguredChat'
  BY DEF PreparationFails, Leaves, Moves, LaunchIInv, TypeOK, RowFollows, SentToConfiguredChat, Sending
<1>5. ReceiptTrue'
  BY JobAssumption
  DEF PreparationFails, Leaves, Moves, LaunchIInv, TypeOK, RowFollows, SentOnce, ReceiptTrue, Preparing, Sending
<1>. QED  BY <1>1, <1>2, <1>3, <1>4, <1>5 DEF LaunchIInv

LEMMA StartKeeps ==
  ASSUME LaunchIInv, NEW r \in Request, Start(r)
  PROVE  LaunchIInv'
<1>1. TypeOK'
  BY RequestAssumption, JobAssumption
  DEF Start, Moves, LaunchIInv, TypeOK, Rows, PCs, InLedger, Preparing, Sending
<1>2. RowFollows'
  BY RequestAssumption, JobAssumption
  DEF Start, Moves, LaunchIInv, TypeOK, RowFollows, SentOnce, Rows, PCs, InLedger, Preparing, Sending
<1>3. SentOnce'
  BY JobAssumption
  DEF Start, Moves, LaunchIInv, TypeOK, RowFollows, SentOnce, Rows, InLedger, Preparing, Sending
<1>4. SentToConfiguredChat'
  BY DEF Start, Moves, LaunchIInv, TypeOK, RowFollows, SentToConfiguredChat, Sending
<1>5. ReceiptTrue'
  BY JobAssumption
  DEF Start, Moves, LaunchIInv, TypeOK, RowFollows, SentOnce, ReceiptTrue, Preparing, Sending
<1>. QED  BY <1>1, <1>2, <1>3, <1>4, <1>5 DEF LaunchIInv

LEMMA RefusedKeeps ==
  ASSUME LaunchIInv, NEW r \in Request, Refused(r)
  PROVE  LaunchIInv'
<1>1. TypeOK'
  BY RequestAssumption, JobAssumption
  DEF Refused, Moves, LaunchIInv, TypeOK, Rows, PCs, InLedger, Preparing, Sending
<1>2. RowFollows'
  BY RequestAssumption, JobAssumption
  DEF Refused, Moves, LaunchIInv, TypeOK, RowFollows, SentOnce, Rows, PCs, InLedger, Preparing, Sending
<1>3. SentOnce'
  BY JobAssumption
  DEF Refused, Moves, LaunchIInv, TypeOK, RowFollows, SentOnce, Rows, InLedger, Preparing, Sending
<1>4. SentToConfiguredChat'
  BY DEF Refused, Moves, LaunchIInv, TypeOK, RowFollows, SentToConfiguredChat, Sending
<1>5. ReceiptTrue'
  BY JobAssumption
  DEF Refused, Moves, LaunchIInv, TypeOK, RowFollows, SentOnce, ReceiptTrue, Preparing, Sending
<1>. QED  BY <1>1, <1>2, <1>3, <1>4, <1>5 DEF LaunchIInv

LEMMA SendKeeps ==
  ASSUME LaunchIInv, NEW r \in Request, Send(r)
  PROVE  LaunchIInv'
<1>1. TypeOK'
  BY RequestAssumption, JobAssumption
  DEF Send, Moves, LaunchIInv, TypeOK, Rows, PCs, InLedger, Preparing, Sending
<1>2. RowFollows'
  BY RequestAssumption, JobAssumption
  DEF Send, Moves, LaunchIInv, TypeOK, RowFollows, SentOnce, Rows, PCs, InLedger, Preparing, Sending
<1>3. SentOnce'
  BY JobAssumption
  DEF Send, Moves, LaunchIInv, TypeOK, RowFollows, SentOnce, Rows, InLedger, Preparing, Sending
<1>4. SentToConfiguredChat'
  BY DEF Send, Moves, LaunchIInv, TypeOK, RowFollows, SentToConfiguredChat, Sending
<1>5. ReceiptTrue'
  BY JobAssumption
  DEF Send, Moves, LaunchIInv, TypeOK, RowFollows, SentOnce, ReceiptTrue, Preparing, Sending
<1>. QED  BY <1>1, <1>2, <1>3, <1>4, <1>5 DEF LaunchIInv

LEMMA SaveTurnKeeps ==
  ASSUME LaunchIInv, NEW r \in Request, SaveTurn(r)
  PROVE  LaunchIInv'
<1>1. TypeOK'
  BY RequestAssumption, JobAssumption
  DEF SaveTurn, Moves, LaunchIInv, TypeOK, Rows, PCs, InLedger, Preparing, Sending
<1>2. RowFollows'
  BY RequestAssumption, JobAssumption
  DEF SaveTurn, Moves, LaunchIInv, TypeOK, RowFollows, SentOnce, Rows, PCs, InLedger, Preparing, Sending
<1>3. SentOnce'
  BY JobAssumption
  DEF SaveTurn, Moves, LaunchIInv, TypeOK, RowFollows, SentOnce, Rows, InLedger, Preparing, Sending
<1>4. SentToConfiguredChat'
  BY DEF SaveTurn, Moves, LaunchIInv, TypeOK, RowFollows, SentToConfiguredChat, Sending
<1>5. ReceiptTrue'
  BY JobAssumption
  DEF SaveTurn, Moves, LaunchIInv, TypeOK, RowFollows, SentOnce, ReceiptTrue, Preparing, Sending
<1>. QED  BY <1>1, <1>2, <1>3, <1>4, <1>5 DEF LaunchIInv

LEMMA ConfirmKeeps ==
  ASSUME LaunchIInv, NEW r \in Request, Confirm(r)
  PROVE  LaunchIInv'
<1>1. TypeOK'
  BY RequestAssumption, JobAssumption
  DEF Confirm, Leaves, Moves, LaunchIInv, TypeOK, Rows, PCs, InLedger, Preparing, Sending
<1>2. RowFollows'
  BY RequestAssumption, JobAssumption
  DEF Confirm, Leaves, Moves, LaunchIInv, TypeOK, RowFollows, SentOnce, Rows, PCs, InLedger, Preparing, Sending
<1>3. SentOnce'
  BY JobAssumption
  DEF Confirm, Leaves, Moves, LaunchIInv, TypeOK, RowFollows, SentOnce, Rows, InLedger, Preparing, Sending
<1>4. SentToConfiguredChat'
  BY DEF Confirm, Leaves, Moves, LaunchIInv, TypeOK, RowFollows, SentToConfiguredChat, Sending
<1>5. ReceiptTrue'
  BY JobAssumption
  DEF Confirm, Leaves, Moves, LaunchIInv, TypeOK, RowFollows, SentOnce, ReceiptTrue, Preparing, Sending
<1>. QED  BY <1>1, <1>2, <1>3, <1>4, <1>5 DEF LaunchIInv

LEMMA LookUpKeeps ==
  ASSUME LaunchIInv, NEW r \in Request, LookUp(r)
  PROVE  LaunchIInv'
<1>1. TypeOK'
  BY RequestAssumption, JobAssumption
  DEF LookUp, Leaves, Reconciled, OnlyJob, Moves, LaunchIInv, TypeOK, Rows, PCs, InLedger, Preparing, Sending
<1>2. RowFollows'
  BY RequestAssumption, JobAssumption
  DEF LookUp, Leaves, Reconciled, OnlyJob, Moves, LaunchIInv, TypeOK, RowFollows, SentOnce, Rows, PCs, InLedger, Preparing, Sending
<1>3. SentOnce'
  BY JobAssumption
  DEF LookUp, Leaves, Reconciled, OnlyJob, Moves, LaunchIInv, TypeOK, RowFollows, SentOnce, Rows, InLedger, Preparing, Sending
<1>4. SentToConfiguredChat'
  BY DEF LookUp, Leaves, Reconciled, OnlyJob, Moves, LaunchIInv, TypeOK, RowFollows, SentToConfiguredChat, Sending
<1>5. ReceiptTrue'
  BY JobAssumption
  DEF LookUp, Leaves, Reconciled, OnlyJob, Moves, LaunchIInv, TypeOK, RowFollows, SentOnce, ReceiptTrue, Preparing, Sending
<1>. QED  BY <1>1, <1>2, <1>3, <1>4, <1>5 DEF LaunchIInv

LEMMA DieKeeps ==
  ASSUME LaunchIInv, NEW r \in Request, Die(r)
  PROVE  LaunchIInv'
<1>1. TypeOK'
  BY RequestAssumption, JobAssumption
  DEF Die, Moves, LaunchIInv, TypeOK, Rows, PCs, InLedger, Preparing, Sending
<1>2. RowFollows'
  BY RequestAssumption, JobAssumption
  DEF Die, Moves, LaunchIInv, TypeOK, RowFollows, SentOnce, Rows, PCs, InLedger, Preparing, Sending
<1>3. SentOnce'
  BY JobAssumption
  DEF Die, Moves, LaunchIInv, TypeOK, RowFollows, SentOnce, Rows, InLedger, Preparing, Sending
<1>4. SentToConfiguredChat'
  BY DEF Die, Moves, LaunchIInv, TypeOK, RowFollows, SentToConfiguredChat, Sending
<1>5. ReceiptTrue'
  BY JobAssumption
  DEF Die, Moves, LaunchIInv, TypeOK, RowFollows, SentOnce, ReceiptTrue, Preparing, Sending
<1>. QED  BY <1>1, <1>2, <1>3, <1>4, <1>5 DEF LaunchIInv

LEMMA UserTurnKeeps ==
  ASSUME LaunchIInv, NEW l \in Launch, NEW t \in Turn, UserTurn(l, t)
  PROVE  LaunchIInv'
<1>1. TypeOK'
  BY RequestAssumption, JobAssumption
  DEF UserTurn, LaunchIInv, TypeOK, Rows, PCs, InLedger, Preparing, Sending
<1>2. RowFollows'
  BY RequestAssumption, JobAssumption
  DEF UserTurn, LaunchIInv, TypeOK, RowFollows, SentOnce, Rows, PCs, InLedger, Preparing, Sending
<1>3. SentOnce'
  BY JobAssumption
  DEF UserTurn, LaunchIInv, TypeOK, RowFollows, SentOnce, Rows, InLedger, Preparing, Sending
<1>4. SentToConfiguredChat'
  BY DEF UserTurn, LaunchIInv, TypeOK, RowFollows, SentToConfiguredChat, Sending
<1>5. ReceiptTrue'
  BY JobAssumption
  DEF UserTurn, LaunchIInv, TypeOK, RowFollows, SentOnce, ReceiptTrue, Preparing, Sending
<1>. QED  BY <1>1, <1>2, <1>3, <1>4, <1>5 DEF LaunchIInv

LEMMA StutterKeeps ==
  ASSUME LaunchIInv, UNCHANGED vars
  PROVE  LaunchIInv'
  BY DEF vars, LaunchIInv, TypeOK, RowFollows, SentOnce, SentToConfiguredChat, ReceiptTrue

\* The invariant of the launches holds in every reachable state.
THEOREM Invariance == Spec => []LaunchIInv
<1>1. LaunchIInv /\ [Next]_vars => LaunchIInv'
  <2>. SUFFICES ASSUME LaunchIInv, [Next]_vars PROVE LaunchIInv'
    OBVIOUS
  <2>1. CASE UNCHANGED vars  BY <2>1, StutterKeeps
  <2>2. ASSUME NEW r \in Request, NEW l \in Launch, Ask(r, l) PROVE LaunchIInv'
    BY <2>2, AskKeeps
  <2>3. ASSUME NEW r \in Request, Enter(r) PROVE LaunchIInv'
    BY <2>3, GetKeeps, ReuseKeeps, ReserveKeeps DEF Enter
  <2>4. ASSUME NEW r \in Request, Prepare(r) PROVE LaunchIInv'
    BY <2>4, CreateChatKeeps, CheckUnusedKeeps, ConfigureKeeps, MarkConfiguredKeeps,
       PreparationFailsKeeps DEF Prepare
  <2>5. ASSUME NEW r \in Request, SendKickoff(r) PROVE LaunchIInv'
    BY <2>5, StartKeeps, RefusedKeeps, SendKeeps, SaveTurnKeeps, ConfirmKeeps, LookUpKeeps
    DEF SendKickoff
  <2>6. ASSUME NEW r \in Request, Die(r) PROVE LaunchIInv'
    BY <2>6, DieKeeps
  <2>7. ASSUME NEW l \in Launch, NEW t \in Turn, UserTurn(l, t) PROVE LaunchIInv'
    BY <2>7, UserTurnKeeps
  <2>. QED  BY <2>1, <2>2, <2>3, <2>4, <2>5, <2>6, <2>7 DEF Next
<1>. QED  BY InitHolds, <1>1, PTL DEF Spec

\* TypeOK for every instance.
THEOREM WellTyped == Spec => []TypeOK
<1>1. LaunchIInv => TypeOK  BY DEF LaunchIInv
<1>. QED  BY Invariance, <1>1, PTL

\* However many processes request a launch and wherever they die, its kickoff is
\* sent once at most.
THEOREM SentAtMostOnce == Spec => []KickoffOnce
<1>1. LaunchIInv => KickoffOnce  BY DEF LaunchIInv, SentOnce, KickoffOnce
<1>. QED  BY Invariance, <1>1, PTL

\* A launch that is reported as failed, or that a request may continue, has not
\* been sent.
THEOREM FailedWasNotSent == Spec => []UnsentIsUnsent
<1>1. LaunchIInv => UnsentIsUnsent  BY DEF LaunchIInv, SentOnce, UnsentIsUnsent
<1>. QED  BY Invariance, <1>1, PTL

\* The generator never starts with the default prompts.
THEOREM SentConfigured == Spec => []SentToConfiguredChat
<1>1. LaunchIInv => SentToConfiguredChat  BY DEF LaunchIInv
<1>. QED  BY Invariance, <1>1, PTL

\* A receipt names a job of the chat, and the kickoff where the chat has it.
THEOREM ReceiptsTrue == Spec => []ReceiptTrue
<1>1. LaunchIInv => ReceiptTrue  BY DEF LaunchIInv
<1>. QED  BY Invariance, <1>1, PTL

\* A receipt is not taken back.
THEOREM ReceiptsStand == Spec => ReceiptStands
<1>. DEFINE Stands == \A l \in Launch : row[l] = "started" =>
                        row'[l] = "started" /\ job'[l] = job[l]
<1>1. LaunchIInv /\ [Next]_vars => [Stands]_vars
  <2>. SUFFICES ASSUME LaunchIInv, Next, NEW l \in Launch, row[l] = "started"
                PROVE  row'[l] = "started" /\ job'[l] = job[l]
    OBVIOUS
  <2>. USE DEF LaunchIInv, TypeOK, RowFollows
  <2>1. ASSUME NEW r \in Request, NEW k \in Launch, Ask(r, k)
        PROVE  row'[l] = "started" /\ job'[l] = job[l]
    BY <2>1 DEF Ask
  <2>2. ASSUME NEW r \in Request, Enter(r)
        PROVE  row'[l] = "started" /\ job'[l] = job[l]
    BY <2>2 DEF Enter, Get, Reuse, Reserve, Reconciled, MayContinue
  <2>3. ASSUME NEW r \in Request, Prepare(r)
        PROVE  row'[l] = "started" /\ job'[l] = job[l]
    BY <2>3 DEF Prepare, CreateChat, CheckUnused, Configure, MarkConfigured,
                PreparationFails, Preparing
  <2>4. ASSUME NEW r \in Request, SendKickoff(r)
        PROVE  row'[l] = "started" /\ job'[l] = job[l]
    BY <2>4 DEF SendKickoff, Start, Refused, Send, SaveTurn, Confirm, LookUp, Reconciled,
                Sending
  <2>5. ASSUME NEW r \in Request, Die(r)
        PROVE  row'[l] = "started" /\ job'[l] = job[l]
    BY <2>5 DEF Die
  <2>6. ASSUME NEW k \in Launch, NEW t \in Turn, UserTurn(k, t)
        PROVE  row'[l] = "started" /\ job'[l] = job[l]
    BY <2>6 DEF UserTurn
  <2>. QED  BY <2>1, <2>2, <2>3, <2>4, <2>5, <2>6 DEF Next
<1>. QED  BY Invariance, <1>1, PTL DEF Spec, ReceiptStands, Stands
=============================================================================
