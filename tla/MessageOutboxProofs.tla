------------------------- MODULE MessageOutboxProofs -------------------------
(***************************************************************************)
(* Proofs that the intake queue executes a turn at most once and in the    *)
(* order of its conversation, for every number of intakes, lanes, threads  *)
(* and open rows.                                                          *)
(***************************************************************************)
EXTENDS MessageOutbox, FiniteSetTheorems, TLAPS

\* The pool has a finite, positive number of threads.
LEMMA LimitType == Limit \in Nat /\ Limit > 0
  BY WorkerAssumption, FS_CardinalityType, FS_EmptySet DEF Limit

\* Sets of intakes and of threads are finite.
LEMMA Finite ==
  /\ \A T \in SUBSET Intake : IsFiniteSet(T) /\ Cardinality(T) \in Nat
  /\ \A V \in SUBSET Worker : IsFiniteSet(V) /\ Cardinality(V) \in Nat
  BY IntakeAssumption, WorkerAssumption, FS_Subset, FS_CardinalityType

\* What a call of wake() does: it moves a set T of heads of free lanes from
\* queued to transcribing, gives each of them a counted task and stays within
\* the pool's limit.
LEMMA WakeTakesHeads ==
  ASSUME NEW st \in [Intake -> States], NEW sq \in [Intake -> Nat],
         NEW act \in Nat, act <= Limit, pool \in SUBSET Intake,
         Wake(st, sq, act)
  PROVE  \E T \in SUBSET Runnable(st, sq) :
           /\ state' = [i \in Intake |-> IF i \in T THEN "transcribing" ELSE st[i]]
           /\ active' = act + Cardinality(T)
           /\ active' <= Limit
           /\ pool' = pool \cup T
<1>1. CASE phase = "closing"
  <2>1. /\ {} \in SUBSET Runnable(st, sq)
        /\ state' = [i \in Intake |-> IF i \in {} THEN "transcribing" ELSE st[i]]
        /\ pool' = pool \cup {}
    BY <1>1 DEF Wake
  <2>2. active' = act + Cardinality({}) /\ active' <= Limit
    BY <1>1, FS_EmptySet, LimitType DEF Wake
  <2> QED BY <2>1, <2>2
<1>2. CASE phase # "closing"
  BY <1>2 DEF Wake, Fits
<1> QED BY <1>1, <1>2

\* The tasks in memory before and after a set T of them is added to the pool.
LEMMA PoolGrows ==
  ASSUME NEW P \in SUBSET Intake, NEW T \in SUBSET Intake, P \cap T = {}
  PROVE  Cardinality(P \cup T) = Cardinality(P) + Cardinality(T)
<1>1. /\ IsFiniteSet(P) /\ Cardinality(P) \in Nat
      /\ IsFiniteSet(T) /\ Cardinality(T) \in Nat
  BY Finite
<1>2. Cardinality(P \cup T) = Cardinality(P) + Cardinality(T) - Cardinality({})
  BY <1>1, FS_Union
<1> QED BY <1>1, <1>2, FS_EmptySet

\* A wake() of rows that satisfy the row part of the invariant leaves the whole
\* invariant true.  st, sq and act are what the step has made of the table and
\* of the counter before it calls wake(); the threads do not change their task.
LEMMA WakePreserves ==
  ASSUME TypeOK, TasksOwnRows,
         NEW st \in [Intake -> States], NEW sq \in [Intake -> Nat],
         Wake(st, sq, active), ActiveCountsTasks,
         \A i \in Intake : state[i] \in {"transcribing", "submitting"} => st[i] = state[i],
         \A i \in Intake : st[i] = "queued" => state[i] # "transcribing",
         pc' \in [Worker -> PCs], row' = row,
         \A w \in Worker : pc'[w] = pc[w] \/ (pc[w] = "waking" /\ pc'[w] = "idle")
  PROVE  \E T \in SUBSET Runnable(st, sq) :
           /\ state' = [i \in Intake |-> IF i \in T THEN "transcribing" ELSE st[i]]
           /\ active' \in Nat
           /\ pool' = pool \cup T
           /\ ActiveCountsTasks'
           /\ TasksOwnRows'
<1>1. active \in Nat /\ active <= Limit /\ pool \in SUBSET Intake
  BY DEF TypeOK, ActiveCountsTasks
<1>2. PICK T \in SUBSET Runnable(st, sq) :
           /\ state' = [i \in Intake |-> IF i \in T THEN "transcribing" ELSE st[i]]
           /\ active' = active + Cardinality(T)
           /\ active' <= Limit
           /\ pool' = pool \cup T
  BY <1>1, WakeTakesHeads
<1>3. T \in SUBSET Intake /\ pool \cap T = {}
  BY DEF Runnable, TasksOwnRows
<1>4. Busy' = Busy
  BY DEF Busy, InHandler, TypeOK
<1>5. ActiveCountsTasks' /\ active' \in Nat
  <2>1. Cardinality(pool') = Cardinality(pool) + Cardinality(T)
    BY <1>1, <1>2, <1>3, PoolGrows
  <2>2. Cardinality(pool) \in Nat /\ Cardinality(T) \in Nat /\ Cardinality(Busy) \in Nat
    BY <1>1, <1>3, Finite DEF Busy
  <2>3. Limit' = Limit
    BY DEF Limit
  <2> QED BY <1>1, <1>2, <1>4, <2>1, <2>2, <2>3, LimitType DEF ActiveCountsTasks
<1>6. TasksOwnRows'
  BY <1>2, <1>3 DEF TasksOwnRows, Running, InHandler, TypeOK, Runnable, PCs
<1> QED BY <1>2, <1>5, <1>6

\* The initial states satisfy the invariant.
LEMMA InitInvariant == Init => IInv
<1> SUFFICES ASSUME Init PROVE IInv
  OBVIOUS
<1>1. TypeOK
  BY DEF Init, TypeOK, States, PCs
<1>2. ActiveCountsTasks
  <2>1. Busy = {} /\ pool = {} /\ active = 0
    BY DEF Init, Busy, InHandler
  <2> QED BY <2>1, FS_EmptySet, LimitType DEF ActiveCountsTasks
<1>3. RowsNumbered /\ InFlightIsHead
  BY DEF Init, RowsNumbered, InFlightIsHead
<1>4. TasksOwnRows
  BY IntakeAssumption DEF Init, TasksOwnRows, Running, InHandler
<1>5. ExecutionsAccounted
  BY DEF Init, ExecutionsAccounted
<1>6. NoTasksWhenDown
  BY DEF Init, NoTasksWhenDown
<1> QED BY <1>1, <1>2, <1>3, <1>4, <1>5, <1>6 DEF IInv

\* A new row, and the wake() that follows, preserve the invariant.
LEMMA AcceptStep ==
  ASSUME IInv, NEW i \in Intake, Accept(i)
  PROVE  IInv'
<1> DEFINE st == [state EXCEPT ![i] = IF saved[i] THEN "accepted" ELSE "queued"]
           sq == [seq EXCEPT ![i] = lastSeq + 1]
<1> USE DEF IInv
<1>1. st \in [Intake -> States] /\ sq \in [Intake -> Nat] /\ Wake(st, sq, active)
  BY DEF Accept, TypeOK, States, Held, Settled
<1>2. PICK T \in SUBSET Runnable(st, sq) :
           /\ state' = [j \in Intake |-> IF j \in T THEN "transcribing" ELSE st[j]]
           /\ active' \in Nat
           /\ pool' = pool \cup T
           /\ ActiveCountsTasks'
           /\ TasksOwnRows'
  <2>1. \A j \in Intake : state[j] \in {"transcribing", "submitting"} => st[j] = state[j]
    BY DEF Accept, TypeOK
  <2>2. \A j \in Intake : st[j] = "queued" => state[j] # "transcribing"
    BY DEF Accept, TypeOK
  <2>3. /\ pc' \in [Worker -> PCs]
        /\ row' = row
        /\ \A v \in Worker : pc'[v] = pc[v] \/ (pc[v] = "waking" /\ pc'[v] = "idle")
    BY DEF Accept, TypeOK, PCs
  <2> HIDE DEF st, sq
  <2> QED BY <1>1, <2>1, <2>2, <2>3, WakePreserves
<1>3. T \in SUBSET Intake
  BY DEF Runnable
<1>4. TypeOK'
  BY <1>1, <1>2, <1>3 DEF TypeOK, Accept, States, Held, PCs
<1>5. RowsNumbered'
  BY <1>2, <1>3 DEF TypeOK, RowsNumbered, Accept, Runnable, States
<1>6. ExecutionsAccounted'
  BY <1>2, <1>3 DEF TypeOK, ExecutionsAccounted, TasksOwnRows, Accept, Runnable, States, InHandler, PCs
<1>7. InFlightIsHead'
  BY <1>2, <1>3 DEF TypeOK, InFlightIsHead, RowsNumbered, Accept, Runnable, Before, Settled, Held, States
<1>8. NoTasksWhenDown'
  BY DEF NoTasksWhenDown, Accept, Requests
<1> QED BY <1>2, <1>4, <1>5, <1>6, <1>7, <1>8

\* So does a retry,
LEMMA RetryStep ==
  ASSUME IInv, NEW i \in Intake, Retry(i)
  PROVE  IInv'
<1> DEFINE st == [state EXCEPT ![i] = Retried(@)]
           sq == seq
<1> USE DEF IInv
<1>1. st \in [Intake -> States] /\ sq \in [Intake -> Nat] /\ Wake(st, sq, active)
  BY DEF Retry, TypeOK, States, Held, Settled, Retried
<1>2. PICK T \in SUBSET Runnable(st, sq) :
           /\ state' = [j \in Intake |-> IF j \in T THEN "transcribing" ELSE st[j]]
           /\ active' \in Nat
           /\ pool' = pool \cup T
           /\ ActiveCountsTasks'
           /\ TasksOwnRows'
  <2>1. \A j \in Intake : state[j] \in {"transcribing", "submitting"} => st[j] = state[j]
    BY DEF Retry, TypeOK, Retried
  <2>2. \A j \in Intake : st[j] = "queued" => state[j] # "transcribing"
    BY DEF Retry, TypeOK, Retried
  <2>3. /\ pc' \in [Worker -> PCs]
        /\ row' = row
        /\ \A v \in Worker : pc'[v] = pc[v] \/ (pc[v] = "waking" /\ pc'[v] = "idle")
    BY DEF Retry, TypeOK, PCs
  <2> HIDE DEF st, sq
  <2> QED BY <1>1, <2>1, <2>2, <2>3, WakePreserves
<1>3. T \in SUBSET Intake
  BY DEF Runnable
<1>4. TypeOK'
  BY <1>1, <1>2, <1>3 DEF TypeOK, Retry, States, Held, PCs
<1>5. RowsNumbered'
  BY <1>2, <1>3 DEF TypeOK, RowsNumbered, Retry, Runnable, States, Retried
<1>6. ExecutionsAccounted'
  BY <1>2, <1>3 DEF TypeOK, ExecutionsAccounted, TasksOwnRows, Retry, Runnable, States, InHandler, PCs, Retried
<1>7. InFlightIsHead'
  BY <1>2, <1>3 DEF TypeOK, InFlightIsHead, RowsNumbered, Retry, Runnable, Before, Settled, Held, States, Retried
<1>8. NoTasksWhenDown'
  BY DEF NoTasksWhenDown, Retry, Requests
<1> QED BY <1>2, <1>4, <1>5, <1>6, <1>7, <1>8

\* a discard,
LEMMA DiscardStep ==
  ASSUME IInv, NEW i \in Intake, Discard(i)
  PROVE  IInv'
<1> DEFINE st == [state EXCEPT ![i] = "discarded"]
           sq == seq
<1> USE DEF IInv
<1>1. st \in [Intake -> States] /\ sq \in [Intake -> Nat] /\ Wake(st, sq, active)
  BY DEF Discard, TypeOK, States, Held, Settled, Discardable
<1>2. PICK T \in SUBSET Runnable(st, sq) :
           /\ state' = [j \in Intake |-> IF j \in T THEN "transcribing" ELSE st[j]]
           /\ active' \in Nat
           /\ pool' = pool \cup T
           /\ ActiveCountsTasks'
           /\ TasksOwnRows'
  <2>1. \A j \in Intake : state[j] \in {"transcribing", "submitting"} => st[j] = state[j]
    BY DEF Discard, TypeOK, Discardable
  <2>2. \A j \in Intake : st[j] = "queued" => state[j] # "transcribing"
    BY DEF Discard, TypeOK, Discardable
  <2>3. /\ pc' \in [Worker -> PCs]
        /\ row' = row
        /\ \A v \in Worker : pc'[v] = pc[v] \/ (pc[v] = "waking" /\ pc'[v] = "idle")
    BY DEF Discard, TypeOK, PCs
  <2> HIDE DEF st, sq
  <2> QED BY <1>1, <2>1, <2>2, <2>3, WakePreserves
<1>3. T \in SUBSET Intake
  BY DEF Runnable
<1>4. TypeOK'
  BY <1>1, <1>2, <1>3 DEF TypeOK, Discard, States, Held, PCs
<1>5. RowsNumbered'
  BY <1>2, <1>3 DEF TypeOK, RowsNumbered, Discard, Runnable, States, Discardable
<1>6. ExecutionsAccounted'
  BY <1>2, <1>3 DEF TypeOK, ExecutionsAccounted, TasksOwnRows, Discard, Runnable, States, InHandler, PCs, Discardable
<1>7. InFlightIsHead'
  BY <1>2, <1>3 DEF TypeOK, InFlightIsHead, RowsNumbered, Discard, Runnable, Before, Settled, Held, States, Discardable
<1>8. NoTasksWhenDown'
  BY DEF NoTasksWhenDown, Discard, Requests
<1> QED BY <1>2, <1>4, <1>5, <1>6, <1>7, <1>8

\* the wake() of a thread on its way out,
LEMMA WakeNextStep ==
  ASSUME IInv, NEW w \in Worker, WakeNext(w)
  PROVE  IInv'
<1> DEFINE st == state
           sq == seq
<1> USE DEF IInv
<1>1. st \in [Intake -> States] /\ sq \in [Intake -> Nat] /\ Wake(st, sq, active)
  BY DEF WakeNext, TypeOK, States, Held, Settled
<1>2. PICK T \in SUBSET Runnable(st, sq) :
           /\ state' = [j \in Intake |-> IF j \in T THEN "transcribing" ELSE st[j]]
           /\ active' \in Nat
           /\ pool' = pool \cup T
           /\ ActiveCountsTasks'
           /\ TasksOwnRows'
  <2>1. \A j \in Intake : state[j] \in {"transcribing", "submitting"} => st[j] = state[j]
    BY DEF WakeNext, TypeOK
  <2>2. \A j \in Intake : st[j] = "queued" => state[j] # "transcribing"
    BY DEF WakeNext, TypeOK
  <2>3. /\ pc' \in [Worker -> PCs]
        /\ row' = row
        /\ \A v \in Worker : pc'[v] = pc[v] \/ (pc[v] = "waking" /\ pc'[v] = "idle")
    BY DEF WakeNext, TypeOK, PCs
  <2> HIDE DEF st, sq
  <2> QED BY <1>1, <2>1, <2>2, <2>3, WakePreserves
<1>3. T \in SUBSET Intake
  BY DEF Runnable
<1>4. TypeOK'
  BY <1>1, <1>2, <1>3 DEF TypeOK, WakeNext, States, Held, PCs
<1>5. RowsNumbered'
  BY <1>2, <1>3 DEF TypeOK, RowsNumbered, WakeNext, Runnable, States
<1>6. ExecutionsAccounted'
  BY <1>2, <1>3 DEF TypeOK, ExecutionsAccounted, TasksOwnRows, WakeNext, Runnable, States, InHandler, PCs
<1>7. InFlightIsHead'
  BY <1>2, <1>3 DEF TypeOK, InFlightIsHead, RowsNumbered, WakeNext, Runnable, Before, Settled, Held, States
<1>8. NoTasksWhenDown'
  BY DEF NoTasksWhenDown, WakeNext, Requests
<1> QED BY <1>2, <1>4, <1>5, <1>6, <1>7, <1>8

\* and the first wake() of a process.
LEMMA ResumeStep ==
  ASSUME IInv, Resume
  PROVE  IInv'
<1> DEFINE st == state
           sq == seq
<1> USE DEF IInv
<1>1. st \in [Intake -> States] /\ sq \in [Intake -> Nat] /\ Wake(st, sq, active)
  BY DEF Resume, TypeOK, States, Held, Settled
<1>2. PICK T \in SUBSET Runnable(st, sq) :
           /\ state' = [j \in Intake |-> IF j \in T THEN "transcribing" ELSE st[j]]
           /\ active' \in Nat
           /\ pool' = pool \cup T
           /\ ActiveCountsTasks'
           /\ TasksOwnRows'
  <2>1. \A j \in Intake : state[j] \in {"transcribing", "submitting"} => st[j] = state[j]
    BY DEF Resume, TypeOK
  <2>2. \A j \in Intake : st[j] = "queued" => state[j] # "transcribing"
    BY DEF Resume, TypeOK
  <2>3. /\ pc' \in [Worker -> PCs]
        /\ row' = row
        /\ \A v \in Worker : pc'[v] = pc[v] \/ (pc[v] = "waking" /\ pc'[v] = "idle")
    BY DEF Resume, TypeOK, PCs
  <2> HIDE DEF st, sq
  <2> QED BY <1>1, <2>1, <2>2, <2>3, WakePreserves
<1>3. T \in SUBSET Intake
  BY DEF Runnable
<1>4. TypeOK'
  BY <1>1, <1>2, <1>3 DEF TypeOK, Resume, States, Held, PCs
<1>5. RowsNumbered'
  BY <1>2, <1>3 DEF TypeOK, RowsNumbered, Resume, Runnable, States
<1>6. ExecutionsAccounted'
  BY <1>2, <1>3 DEF TypeOK, ExecutionsAccounted, TasksOwnRows, Resume, Runnable, States, InHandler, PCs
<1>7. InFlightIsHead'
  BY <1>2, <1>3 DEF TypeOK, InFlightIsHead, RowsNumbered, Resume, Runnable, Before, Settled, Held, States
<1>8. NoTasksWhenDown'
  BY DEF NoTasksWhenDown, Resume, Requests
<1> QED BY <1>2, <1>4, <1>5, <1>6, <1>7, <1>8

\* A pool thread that takes a task preserves the invariant.
LEMMA StartTaskStep ==
  ASSUME IInv, NEW w \in Worker, NEW i \in Intake, StartTask(w, i)
  PROVE  IInv'
<1> USE DEF IInv
<1>1. TypeOK'
  BY IntakeAssumption DEF TypeOK, StartTask, States, Held, Settled, PCs, TasksOwnRows, InHandler
<1>2. ActiveCountsTasks'
  <2>1. Busy' = Busy \cup {w} /\ w \notin Busy
    BY DEF StartTask, Busy, InHandler, TypeOK
  <2>2. pool' = pool \ {i} /\ i \in pool
    BY DEF StartTask
  <2>3. IsFiniteSet(pool) /\ IsFiniteSet(Busy) /\ Cardinality(pool) \in Nat /\ Cardinality(Busy) \in Nat
    BY Finite DEF Busy, TypeOK
  <2>4. Cardinality(Busy') = Cardinality(Busy) + 1
    BY <2>1, <2>3, FS_AddElement
  <2>5. Cardinality(pool') = Cardinality(pool) - 1
    BY <2>2, <2>3, FS_RemoveElement
  <2> QED BY <2>3, <2>4, <2>5 DEF ActiveCountsTasks, StartTask, Limit
<1>3. RowsNumbered'
  BY DEF TypeOK, RowsNumbered, StartTask, States, TasksOwnRows, InHandler
<1>4. TasksOwnRows'
  BY IntakeAssumption DEF TypeOK, TasksOwnRows, Running, InHandler, PCs, StartTask, States
<1>5. ExecutionsAccounted'
  BY DEF TypeOK, ExecutionsAccounted, TasksOwnRows, InHandler, PCs, Running, StartTask, States
<1>6. InFlightIsHead'
  BY DEF TypeOK, InFlightIsHead, TasksOwnRows, InHandler, StartTask, Before, Settled, Held, States
<1>7. NoTasksWhenDown'
  BY DEF NoTasksWhenDown, StartTask, TypeOK, TasksOwnRows
<1> QED BY <1>1, <1>2, <1>3, <1>4, <1>5, <1>6, <1>7

\* So does every step of _process: a preparation that fails,
LEMMA PrepareFailsStep ==
  ASSUME IInv, NEW w \in Worker, PrepareFails(w)
  PROVE  IInv'
<1> USE DEF IInv
<1>1. TypeOK'
  BY IntakeAssumption DEF TypeOK, PrepareFails, States, Held, Settled, PCs, TasksOwnRows, InHandler
<1>2. ActiveCountsTasks'
  <2>1. Busy' = Busy /\ Limit' = Limit
    BY DEF PrepareFails, Busy, InHandler, Limit, TypeOK
  <2> QED BY <2>1 DEF ActiveCountsTasks, PrepareFails
<1>3. RowsNumbered'
  BY DEF TypeOK, RowsNumbered, PrepareFails, States, TasksOwnRows, InHandler
<1>4. TasksOwnRows'
  BY IntakeAssumption DEF TypeOK, TasksOwnRows, Running, InHandler, PCs, PrepareFails, States
<1>5. ExecutionsAccounted'
  BY DEF TypeOK, ExecutionsAccounted, TasksOwnRows, InHandler, PCs, Running, PrepareFails, States
<1>6. InFlightIsHead'
  BY DEF TypeOK, InFlightIsHead, TasksOwnRows, InHandler, PrepareFails, Before, Settled, Held, States
<1>7. NoTasksWhenDown'
  BY DEF NoTasksWhenDown, PrepareFails, TypeOK, TasksOwnRows
<1> QED BY <1>1, <1>2, <1>3, <1>4, <1>5, <1>6, <1>7

\* the commit that marks the submission,
LEMMA MarkSubmittingStep ==
  ASSUME IInv, NEW w \in Worker, MarkSubmitting(w)
  PROVE  IInv'
<1> USE DEF IInv
<1>1. TypeOK'
  BY IntakeAssumption DEF TypeOK, MarkSubmitting, States, Held, Settled, PCs, TasksOwnRows, InHandler
<1>2. ActiveCountsTasks'
  <2>1. Busy' = Busy /\ Limit' = Limit
    BY DEF MarkSubmitting, Busy, InHandler, Limit, TypeOK
  <2> QED BY <2>1 DEF ActiveCountsTasks, MarkSubmitting
<1>3. RowsNumbered'
  BY DEF TypeOK, RowsNumbered, MarkSubmitting, States, TasksOwnRows, InHandler
<1>4. TasksOwnRows'
  BY IntakeAssumption DEF TypeOK, TasksOwnRows, Running, InHandler, PCs, MarkSubmitting, States
<1>5. ExecutionsAccounted'
  BY DEF TypeOK, ExecutionsAccounted, TasksOwnRows, InHandler, PCs, Running, MarkSubmitting, States
<1>6. InFlightIsHead'
  BY DEF TypeOK, InFlightIsHead, TasksOwnRows, InHandler, MarkSubmitting, Before, Settled, Held, States
<1>7. NoTasksWhenDown'
  BY DEF NoTasksWhenDown, MarkSubmitting, TypeOK, TasksOwnRows
<1> QED BY <1>1, <1>2, <1>3, <1>4, <1>5, <1>6, <1>7

\* a refused submission,
LEMMA SubmitRefusedStep ==
  ASSUME IInv, NEW w \in Worker, SubmitRefused(w)
  PROVE  IInv'
<1> USE DEF IInv
<1>1. TypeOK'
  BY IntakeAssumption DEF TypeOK, SubmitRefused, States, Held, Settled, PCs, TasksOwnRows, InHandler
<1>2. ActiveCountsTasks'
  <2>1. Busy' = Busy /\ Limit' = Limit
    BY DEF SubmitRefused, Busy, InHandler, Limit, TypeOK
  <2> QED BY <2>1 DEF ActiveCountsTasks, SubmitRefused
<1>3. RowsNumbered'
  BY DEF TypeOK, RowsNumbered, SubmitRefused, States, TasksOwnRows, InHandler
<1>4. TasksOwnRows'
  BY IntakeAssumption DEF TypeOK, TasksOwnRows, Running, InHandler, PCs, SubmitRefused, States
<1>5. ExecutionsAccounted'
  BY DEF TypeOK, ExecutionsAccounted, TasksOwnRows, InHandler, PCs, Running, SubmitRefused, States
<1>6. InFlightIsHead'
  BY DEF TypeOK, InFlightIsHead, TasksOwnRows, InHandler, SubmitRefused, Before, Settled, Held, States
<1>7. NoTasksWhenDown'
  BY DEF NoTasksWhenDown, SubmitRefused, TypeOK, TasksOwnRows
<1> QED BY <1>1, <1>2, <1>3, <1>4, <1>5, <1>6, <1>7

\* the start of the execution,
LEMMA ExecuteStep ==
  ASSUME IInv, NEW w \in Worker, Execute(w)
  PROVE  IInv'
<1> USE DEF IInv
<1>1. TypeOK'
  BY IntakeAssumption DEF TypeOK, Execute, States, Held, Settled, PCs, TasksOwnRows, InHandler
<1>2. ActiveCountsTasks'
  <2>1. Busy' = Busy /\ Limit' = Limit
    BY DEF Execute, Busy, InHandler, Limit, TypeOK
  <2> QED BY <2>1 DEF ActiveCountsTasks, Execute
<1>3. RowsNumbered'
  BY DEF TypeOK, RowsNumbered, Execute, States, TasksOwnRows, InHandler
<1>4. TasksOwnRows'
  BY IntakeAssumption DEF TypeOK, TasksOwnRows, Running, InHandler, PCs, Execute, States
<1>5. ExecutionsAccounted'
  BY DEF TypeOK, ExecutionsAccounted, TasksOwnRows, InHandler, PCs, Running, Execute, States
<1>6. InFlightIsHead'
  BY DEF TypeOK, InFlightIsHead, TasksOwnRows, InHandler, Execute, Before, Settled, Held, States
<1>7. NoTasksWhenDown'
  BY DEF NoTasksWhenDown, Execute, TypeOK, TasksOwnRows
<1> QED BY <1>1, <1>2, <1>3, <1>4, <1>5, <1>6, <1>7

\* the turn being saved or lost,
LEMMA SaveTurnStep ==
  ASSUME IInv, NEW w \in Worker, SaveTurn(w)
  PROVE  IInv'
<1> USE DEF IInv
<1>1. TypeOK'
  BY IntakeAssumption DEF TypeOK, SaveTurn, States, Held, Settled, PCs, TasksOwnRows, InHandler
<1>2. ActiveCountsTasks'
  <2>1. Busy' = Busy /\ Limit' = Limit
    BY DEF SaveTurn, Busy, InHandler, Limit, TypeOK
  <2> QED BY <2>1 DEF ActiveCountsTasks, SaveTurn
<1>3. RowsNumbered'
  BY DEF TypeOK, RowsNumbered, SaveTurn, States, TasksOwnRows, InHandler
<1>4. TasksOwnRows'
  BY IntakeAssumption DEF TypeOK, TasksOwnRows, Running, InHandler, PCs, SaveTurn, States
<1>5. ExecutionsAccounted'
  BY DEF TypeOK, ExecutionsAccounted, TasksOwnRows, InHandler, PCs, Running, SaveTurn, States
<1>6. InFlightIsHead'
  BY DEF TypeOK, InFlightIsHead, TasksOwnRows, InHandler, SaveTurn, Before, Settled, Held, States
<1>7. NoTasksWhenDown'
  BY DEF NoTasksWhenDown, SaveTurn, TypeOK, TasksOwnRows
<1> QED BY <1>1, <1>2, <1>3, <1>4, <1>5, <1>6, <1>7

\* a completed submission,
LEMMA CompleteStep ==
  ASSUME IInv, NEW w \in Worker, Complete(w)
  PROVE  IInv'
<1> USE DEF IInv
<1>1. TypeOK'
  BY IntakeAssumption DEF TypeOK, Complete, States, Held, Settled, PCs, TasksOwnRows, InHandler
<1>2. ActiveCountsTasks'
  <2>1. Busy' = Busy /\ Limit' = Limit
    BY DEF Complete, Busy, InHandler, Limit, TypeOK
  <2> QED BY <2>1 DEF ActiveCountsTasks, Complete
<1>3. RowsNumbered'
  BY DEF TypeOK, RowsNumbered, Complete, States, TasksOwnRows, InHandler
<1>4. TasksOwnRows'
  BY IntakeAssumption DEF TypeOK, TasksOwnRows, Running, InHandler, PCs, Complete, States
<1>5. ExecutionsAccounted'
  BY DEF TypeOK, ExecutionsAccounted, TasksOwnRows, InHandler, PCs, Running, Complete, States
<1>6. InFlightIsHead'
  BY DEF TypeOK, InFlightIsHead, TasksOwnRows, InHandler, Complete, Before, Settled, Held, States
<1>7. NoTasksWhenDown'
  BY DEF NoTasksWhenDown, Complete, TypeOK, TasksOwnRows
<1> QED BY <1>1, <1>2, <1>3, <1>4, <1>5, <1>6, <1>7

\* the reconciliation of an ambiguous one,
LEMMA ReconcileStep ==
  ASSUME IInv, NEW w \in Worker, Reconcile(w)
  PROVE  IInv'
<1> USE DEF IInv
<1>1. TypeOK'
  BY IntakeAssumption DEF TypeOK, Reconcile, States, Held, Settled, PCs, TasksOwnRows, InHandler, Outcome
<1>2. ActiveCountsTasks'
  <2>1. Busy' = Busy /\ Limit' = Limit
    BY DEF Reconcile, Busy, InHandler, Limit, TypeOK
  <2> QED BY <2>1 DEF ActiveCountsTasks, Reconcile, Outcome
<1>3. RowsNumbered'
  BY DEF TypeOK, RowsNumbered, Reconcile, States, TasksOwnRows, InHandler, Outcome
<1>4. TasksOwnRows'
  BY IntakeAssumption DEF TypeOK, TasksOwnRows, Running, InHandler, PCs, Reconcile, States, Outcome
<1>5. ExecutionsAccounted'
  BY DEF TypeOK, ExecutionsAccounted, TasksOwnRows, InHandler, PCs, Running, Reconcile, States, Outcome
<1>6. InFlightIsHead'
  BY DEF TypeOK, InFlightIsHead, TasksOwnRows, InHandler, Reconcile, Before, Settled, Held, States, Outcome
<1>7. NoTasksWhenDown'
  BY DEF NoTasksWhenDown, Reconcile, TypeOK, TasksOwnRows, Outcome
<1> QED BY <1>1, <1>2, <1>3, <1>4, <1>5, <1>6, <1>7

\* and the slot being given back.
LEMMA ReleaseSlotStep ==
  ASSUME IInv, NEW w \in Worker, ReleaseSlot(w)
  PROVE  IInv'
<1> USE DEF IInv
<1>1. ActiveCountsTasks' /\ active' \in Nat
  <2>1. Busy' = Busy \ {w} /\ w \in Busy
    BY DEF ReleaseSlot, Busy, InHandler, TypeOK
  <2>2. /\ IsFiniteSet(Busy) /\ Cardinality(pool) \in Nat
        /\ Cardinality(Busy) \in Nat /\ Cardinality(Busy') \in Nat
    BY Finite DEF Busy, TypeOK
  <2>3. Cardinality(Busy') = Cardinality(Busy) - 1
    BY <2>1, <2>2, FS_RemoveElement
  <2> QED BY <2>2, <2>3, LimitType DEF ActiveCountsTasks, ReleaseSlot, Limit, TypeOK
<1>2. TypeOK'
  BY <1>1, IntakeAssumption DEF TypeOK, ReleaseSlot, States, Held, Settled, PCs, TasksOwnRows, InHandler
<1>3. RowsNumbered'
  BY DEF TypeOK, RowsNumbered, ReleaseSlot, States, TasksOwnRows, InHandler
<1>4. TasksOwnRows'
  BY IntakeAssumption DEF TypeOK, TasksOwnRows, Running, InHandler, PCs, ReleaseSlot, States
<1>5. ExecutionsAccounted'
  BY DEF TypeOK, ExecutionsAccounted, TasksOwnRows, InHandler, PCs, Running, ReleaseSlot, States
<1>6. InFlightIsHead'
  BY DEF TypeOK, InFlightIsHead, TasksOwnRows, InHandler, ReleaseSlot, Before, Settled, Held, States
<1>7. NoTasksWhenDown'
  BY DEF NoTasksWhenDown, ReleaseSlot, TypeOK, TasksOwnRows
<1> QED BY <1>1, <1>2, <1>3, <1>4, <1>5, <1>6, <1>7

\* A crash loses the tasks and keeps the rows.
LEMMA CrashStep ==
  ASSUME IInv, Crash
  PROVE  IInv'
<1> USE DEF IInv
<1>1. TypeOK'
  BY IntakeAssumption DEF TypeOK, Crash, States, Held, Settled, PCs, TasksOwnRows, InHandler, NoThreads
<1>2. ActiveCountsTasks'
  <2>1. Busy' = {} /\ pool' = {} /\ active' = 0
    BY DEF Crash, NoThreads, Busy, InHandler
  <2> QED BY <2>1, FS_EmptySet, LimitType DEF ActiveCountsTasks, Limit
<1>3. RowsNumbered'
  BY DEF TypeOK, RowsNumbered, Crash, States, TasksOwnRows, InHandler, NoThreads
<1>4. TasksOwnRows'
  BY IntakeAssumption DEF TypeOK, TasksOwnRows, Running, InHandler, PCs, Crash, States, NoThreads
<1>5. ExecutionsAccounted'
  BY DEF TypeOK, ExecutionsAccounted, TasksOwnRows, InHandler, PCs, Running, Crash, States, NoThreads
<1>6. InFlightIsHead'
  BY DEF TypeOK, InFlightIsHead, TasksOwnRows, InHandler, Crash, Before, Settled, Held, States, NoThreads
<1>7. NoTasksWhenDown'
  BY DEF NoTasksWhenDown, Crash, TypeOK, TasksOwnRows, NoThreads
<1> QED BY <1>1, <1>2, <1>3, <1>4, <1>5, <1>6, <1>7

\* The recovery at start never re-queues what may have been executed.
LEMMA RestartStep ==
  ASSUME IInv, Restart
  PROVE  IInv'
<1> USE DEF IInv
<1>1. TypeOK'
  BY IntakeAssumption DEF TypeOK, Restart, States, Held, Settled, PCs, TasksOwnRows, InHandler, Recovered, Outcome, NoTasksWhenDown
<1>2. ActiveCountsTasks'
  <2>1. Busy' = Busy /\ Limit' = Limit
    BY DEF Restart, Busy, InHandler, Limit, TypeOK
  <2> QED BY <2>1 DEF ActiveCountsTasks, Restart, Recovered, Outcome, NoTasksWhenDown
<1>3. RowsNumbered'
  BY DEF TypeOK, RowsNumbered, Restart, States, TasksOwnRows, InHandler, Recovered, Outcome, NoTasksWhenDown
<1>4. TasksOwnRows'
  BY IntakeAssumption DEF TypeOK, TasksOwnRows, Running, InHandler, PCs, Restart, States, Recovered, Outcome, NoTasksWhenDown
<1>5. ExecutionsAccounted'
  BY DEF TypeOK, ExecutionsAccounted, TasksOwnRows, InHandler, PCs, Running, Restart, States, Recovered, Outcome, NoTasksWhenDown
<1>6. InFlightIsHead'
  BY DEF TypeOK, InFlightIsHead, TasksOwnRows, InHandler, Restart, Before, Settled, Held, States, Recovered, Outcome, NoTasksWhenDown
<1>7. NoTasksWhenDown'
  BY DEF NoTasksWhenDown, Restart, TypeOK, TasksOwnRows, Recovered, Outcome, NoTasksWhenDown
<1> QED BY <1>1, <1>2, <1>3, <1>4, <1>5, <1>6, <1>7

\* close() forbids new tasks,
LEMMA CloseStep ==
  ASSUME IInv, Close
  PROVE  IInv'
<1> USE DEF IInv
<1>1. TypeOK'
  BY IntakeAssumption DEF TypeOK, Close, States, Held, Settled, PCs, TasksOwnRows, InHandler
<1>2. ActiveCountsTasks'
  <2>1. Busy' = Busy /\ Limit' = Limit
    BY DEF Close, Busy, InHandler, Limit, TypeOK
  <2> QED BY <2>1 DEF ActiveCountsTasks, Close
<1>3. RowsNumbered'
  BY DEF TypeOK, RowsNumbered, Close, States, TasksOwnRows, InHandler
<1>4. TasksOwnRows'
  BY IntakeAssumption DEF TypeOK, TasksOwnRows, Running, InHandler, PCs, Close, States
<1>5. ExecutionsAccounted'
  BY DEF TypeOK, ExecutionsAccounted, TasksOwnRows, InHandler, PCs, Running, Close, States
<1>6. InFlightIsHead'
  BY DEF TypeOK, InFlightIsHead, TasksOwnRows, InHandler, Close, Before, Settled, Held, States
<1>7. NoTasksWhenDown'
  BY DEF NoTasksWhenDown, Close, TypeOK, TasksOwnRows
<1> QED BY <1>1, <1>2, <1>3, <1>4, <1>5, <1>6, <1>7

\* and the process ends when the threads are idle.
LEMMA StopStep ==
  ASSUME IInv, Stop
  PROVE  IInv'
<1> USE DEF IInv
<1>1. TypeOK'
  BY IntakeAssumption DEF TypeOK, Stop, States, Held, Settled, PCs, TasksOwnRows, InHandler
<1>2. ActiveCountsTasks'
  <2>1. Busy' = Busy /\ Limit' = Limit
    BY DEF Stop, Busy, InHandler, Limit, TypeOK
  <2> QED BY <2>1 DEF ActiveCountsTasks, Stop
<1>3. RowsNumbered'
  BY DEF TypeOK, RowsNumbered, Stop, States, TasksOwnRows, InHandler
<1>4. TasksOwnRows'
  BY IntakeAssumption DEF TypeOK, TasksOwnRows, Running, InHandler, PCs, Stop, States
<1>5. ExecutionsAccounted'
  BY DEF TypeOK, ExecutionsAccounted, TasksOwnRows, InHandler, PCs, Running, Stop, States
<1>6. InFlightIsHead'
  BY DEF TypeOK, InFlightIsHead, TasksOwnRows, InHandler, Stop, Before, Settled, Held, States
<1>7. NoTasksWhenDown'
  <2>1. pool = {} /\ Busy = {}
    BY DEF Stop, Busy, InHandler
  <2>2. active = 0
    BY <2>1, FS_EmptySet DEF ActiveCountsTasks
  <2> QED BY <2>1, <2>2 DEF NoTasksWhenDown, Stop
<1> QED BY <1>1, <1>2, <1>3, <1>4, <1>5, <1>6, <1>7

\* Nothing that is not a step of the specification changes a variable.
LEMMA StutterStep == ASSUME IInv, UNCHANGED vars PROVE IInv'
  BY DEF vars, IInv, TypeOK, ActiveCountsTasks, Busy, Limit, RowsNumbered, TasksOwnRows,
         Running, NoTasksWhenDown, ExecutionsAccounted, InFlightIsHead, Before

\* The invariant is inductive.
THEOREM Invariance == Spec => []IInv
<1>1. Init => IInv
  BY InitInvariant
<1>2. IInv /\ [Next]_vars => IInv'
  <2> SUFFICES ASSUME IInv, [Next]_vars PROVE IInv'
    OBVIOUS
  <2>1. ASSUME NEW i \in Intake, Accept(i) \/ Retry(i) \/ Discard(i) PROVE IInv'
    BY <2>1, AcceptStep, RetryStep, DiscardStep
  <2>2. ASSUME NEW w \in Worker, Process(w) PROVE IInv'
    <3>1. ASSUME NEW i \in Intake, StartTask(w, i) PROVE IInv'
      BY <3>1, StartTaskStep
    <3> QED
      BY <2>2, <3>1, PrepareFailsStep, MarkSubmittingStep, SubmitRefusedStep, ExecuteStep,
         SaveTurnStep, CompleteStep, ReconcileStep, ReleaseSlotStep, WakeNextStep DEF Process
  <2>3. CASE Crash \/ Restart \/ Resume \/ Close \/ Stop
    BY <2>3, CrashStep, RestartStep, ResumeStep, CloseStep, StopStep
  <2>4. CASE UNCHANGED vars
    BY <2>4, StutterStep
  <2> QED BY <2>1, <2>2, <2>3, <2>4 DEF Next
<1> QED BY <1>1, <1>2, PTL DEF Spec

\* Every variable keeps its type; in particular the task counter never goes
\* below zero.
THEOREM TypeCorrect == Spec => []TypeOK
<1>1. IInv => TypeOK
  BY DEF IInv
<1> QED BY <1>1, Invariance, PTL

\* Crashes, retries, failing lookups and repeated posts never make the provider
\* execute an intake twice.
THEOREM ExecutedAtMostOnce == Spec => []AtMostOneExecution
<1>1. IInv => AtMostOneExecution
  BY DEF IInv, ExecutionsAccounted, AtMostOneExecution
<1> QED BY <1>1, Invariance, PTL

\* A row that a retry or a restart may run again has not been executed.
THEOREM RetriesAreSafe == Spec => []RetryIsSafe
<1>1. IInv => RetryIsSafe
  BY DEF IInv, ExecutionsAccounted, RetryIsSafe
<1> QED BY <1>1, Invariance, PTL

\* A turn reported accepted was executed.
THEOREM AcceptedTruthfully == Spec => []AcceptedWasExecuted
<1>1. IInv => AcceptedWasExecuted
  BY DEF IInv, ExecutionsAccounted, AcceptedWasExecuted
<1> QED BY <1>1, Invariance, PTL

\* The counter that bounds the pool counts the tasks exactly.
THEOREM SlotsAccounted == Spec => []ActiveCountsTasks
<1>1. IInv => ActiveCountsTasks
  BY DEF IInv
<1> QED BY <1>1, Invariance, PTL

\* One pending intake per conversation is processed at a time.
THEOREM OnePerLane == Spec => []OneInFlightPerLane
<1>1. IInv => OneInFlightPerLane
  <2> SUFFICES ASSUME IInv, NEW i \in Intake, NEW j \in Intake, i # j, LaneOf[i] = LaneOf[j],
                      state[i] \in {"transcribing", "submitting"},
                      state[j] \in {"transcribing", "submitting"}
               PROVE  FALSE
    BY DEF OneInFlightPerLane
  <2>1. seq[i] # seq[j] /\ 0 < seq[i] /\ 0 < seq[j]
    BY DEF IInv, RowsNumbered, TypeOK
  <2>2. Before(i, j, seq) \/ Before(j, i, seq)
    BY <2>1 DEF Before, IInv, TypeOK
  <2> QED BY <2>2 DEF IInv, InFlightIsHead, Settled
<1> QED BY <1>1, Invariance, PTL

\* Turns of a conversation execute in the order they were accepted, each after
\* the earlier ones were accepted or discarded.
THEOREM LaneOrder == Spec => ExecutesInLaneOrder
<1> DEFINE Ordered == \A i \in Intake : executed'[i] # executed[i] =>
                        \A j \in Intake : Before(j, i, seq) => state[j] \in Settled
<1>1. IInv /\ [Next]_vars => [Ordered]_vars
  <2> SUFFICES ASSUME IInv, Next, NEW i \in Intake, executed'[i] # executed[i],
                      NEW j \in Intake, Before(j, i, seq)
               PROVE  state[j] \in Settled
    OBVIOUS
  <2>1. PICK w \in Worker : Execute(w)
    BY DEF Next, Process, Accept, Retry, Discard, StartTask, PrepareFails, MarkSubmitting,
           SubmitRefused, SaveTurn, Complete, Reconcile, ReleaseSlot, WakeNext,
           Crash, Restart, Resume, Close, Stop
  <2>2. i = row[w] /\ state[i] = "submitting"
    BY <2>1 DEF Execute, IInv, TasksOwnRows, TypeOK
  <2> QED BY <2>2 DEF IInv, InFlightIsHead
<1> QED BY <1>1, Invariance, PTL DEF Spec, ExecutesInLaneOrder

\* A turn that was accepted or discarded keeps that end, and is not executed
\* again.
THEOREM EndsAreFinal == Spec => SettledForGood
<1> DEFINE Final == \A i \in Intake : state[i] \in Settled =>
                      state'[i] = state[i] /\ executed'[i] = executed[i]
<1>1. IInv /\ [Next]_vars => [Final]_vars
  <2> SUFFICES ASSUME IInv, Next, NEW i \in Intake, state[i] \in Settled
               PROVE  state'[i] = state[i] /\ executed'[i] = executed[i]
    OBVIOUS
  <2> USE DEF IInv, TypeOK, Settled
  <2>1. ASSUME NEW st, NEW sq, Wake(st, sq, active), st[i] = state[i], state[i] # "queued"
        PROVE  state'[i] = state[i]
    BY <2>1 DEF Wake, Runnable
  <2>2. ASSUME NEW k \in Intake, Accept(k) \/ Retry(k) \/ Discard(k)
        PROVE  state'[i] = state[i] /\ executed'[i] = executed[i]
    BY <2>1, <2>2 DEF Accept, Retry, Discard, Retried, Discardable
  <2>3. ASSUME NEW w \in Worker, WakeNext(w)
        PROVE  state'[i] = state[i] /\ executed'[i] = executed[i]
    BY <2>1, <2>3 DEF WakeNext
  <2>4. CASE Resume
    BY <2>1, <2>4 DEF Resume
  <2>5. ASSUME NEW w \in Worker, Process(w), ~WakeNext(w)
        PROVE  state'[i] = state[i] /\ executed'[i] = executed[i]
    BY <2>5 DEF Process, StartTask, PrepareFails, MarkSubmitting, SubmitRefused, Execute,
           SaveTurn, Complete, Reconcile, ReleaseSlot, TasksOwnRows
  <2>6. CASE Crash \/ Restart \/ Close \/ Stop
    BY <2>6 DEF Crash, Restart, Recovered, Close, Stop
  <2> QED BY <2>2, <2>3, <2>4, <2>5, <2>6 DEF Next
<1> QED BY <1>1, Invariance, PTL DEF Spec, SettledForGood

-----------------------------------------------------------------------------
(* The service implements TurnDelivery.                                     *)

\* wake() changes no receipt: queued and transcribing rows are both pending.
LEMMA WakeKeepsReceipts ==
  ASSUME NEW st \in [Intake -> States], NEW sq, NEW act, Wake(st, sq, act)
  PROVE  \A i \in Intake : Receipt(state'[i]) = Receipt(st[i])
<1>1. CASE phase = "closing"
  BY <1>1 DEF Wake
<1>2. CASE phase # "closing"
  <2>1. PICK T \in SUBSET Runnable(st, sq) :
               state' = [i \in Intake |-> IF i \in T THEN "transcribing" ELSE st[i]]
    BY <1>2 DEF Wake
  <2> QED BY <2>1 DEF Runnable, Receipt, Settled
<1> QED BY <1>1, <1>2

\* A new row takes its place behind those of its conversation.
LEMMA AcceptDelivers ==
  ASSUME IInv, NEW i \in Intake, Accept(i)
  PROVE  TD!Post(i)
<1> DEFINE st == [state EXCEPT ![i] = IF saved[i] THEN "accepted" ELSE "queued"]
<1> USE DEF IInv, TypeOK
<1>1. st \in [Intake -> States]
  BY DEF States, Held, Settled
<1>2. Wake(st, seq', active)
  BY DEF Accept
<1>3. \A j \in Intake : Receipt(state'[j]) = Receipt(st[j])
  BY <1>1, <1>2, WakeKeepsReceipts
<1>4. state[i] = "absent" /\ seq[i] = 0 /\ seq' = [seq EXCEPT ![i] = lastSeq + 1]
  BY DEF Accept, RowsNumbered
<1>5. Receipt(state[i]) = "none"
  BY <1>4 DEF Receipt, Settled
<1>6. executed[i] = 0 <=> ~saved[i]
  BY <1>4 DEF ExecutionsAccounted
<1>7. Receipt(st[i]) = IF executed[i] = 0 THEN "pending" ELSE "accepted"
  BY <1>6 DEF Receipt, Settled
<1>8. \A j \in Intake \ {i} : Receipt(st[j]) = Receipt(state[j])
  OBVIOUS
<1>9. [j \in Intake |-> Receipt(state'[j])]
        = [[j \in Intake |-> Receipt(state[j])] EXCEPT ![i] =
             IF executed[i] = 0 THEN "pending" ELSE "accepted"]
  BY <1>3, <1>7, <1>8
<1>10. \A j \in Intake : Before(j, i, seq')
         <=> (j \in Intake \ {i} /\ LaneOf[j] = LaneOf[i] /\ Receipt(state[j]) # "none")
  <2> TAKE j \in Intake
  <2>1. seq[j] <= lastSeq /\ (state[j] = "absent" <=> seq[j] = 0)
    BY DEF RowsNumbered
  <2>2. Receipt(state[j]) = "none" <=> state[j] = "absent"
    BY DEF Receipt, Settled
  <2>3. CASE j = i
    BY <2>3, <1>4 DEF Before
  <2>4. CASE j # i
    <3>1. seq'[j] = seq[j] /\ seq'[i] = lastSeq + 1
      BY <2>4, <1>4
    <3> QED BY <2>1, <2>2, <2>4, <3>1 DEF Before
  <2> QED BY <2>3, <2>4
<1>11. \A k \in Intake \ {i}, j \in Intake : Before(j, k, seq') <=> Before(j, k, seq)
  <2> TAKE k \in Intake \ {i}, j \in Intake
  <2>1. seq'[k] = seq[k] /\ seq[k] <= lastSeq
    BY <1>4 DEF RowsNumbered
  <2>2. CASE j = i
    BY <2>1, <2>2, <1>4 DEF Before
  <2>3. CASE j # i
    BY <2>1, <2>3, <1>4 DEF Before
  <2> QED BY <2>2, <2>3
<1>12. [k \in Intake |-> {j \in Intake : Before(j, k, seq')}]
         = [[k \in Intake |-> {j \in Intake : Before(j, k, seq)}] EXCEPT ![i] =
              {j \in Intake \ {i} : LaneOf[j] = LaneOf[i] /\ Receipt(state[j]) # "none"}]
  <2>1. {j \in Intake : Before(j, i, seq')}
          = {j \in Intake \ {i} : LaneOf[j] = LaneOf[i] /\ Receipt(state[j]) # "none"}
    BY <1>10
  <2>2. \A k \in Intake \ {i} :
          {j \in Intake : Before(j, k, seq')} = {j \in Intake : Before(j, k, seq)}
    BY <1>11
  <2> HIDE DEF IInv, TypeOK
  <2> QED BY <2>1, <2>2, Zenon
<1>13. {j \in Intake \ {i} : LaneOf[j] = LaneOf[i] /\ Receipt(state[j]) # "none"}
         = {j \in Intake \ {i} : LaneOf[j] = LaneOf[i]
                                /\ [k \in Intake |-> Receipt(state[k])][j] # "none"}
  OBVIOUS
<1>14. executed' = executed
  BY DEF Accept
<1> QED BY <1>5, <1>9, <1>12, <1>13, <1>14 DEF TD!Post, TD!Places

\* A retry is invisible; a discard is one, or repeats one.
LEMMA RetryDelivers ==
  ASSUME IInv, NEW i \in Intake, Retry(i)
  PROVE  UNCHANGED TD!vars
<1> DEFINE st == [state EXCEPT ![i] = Retried(@)]
<1> USE DEF IInv, TypeOK
<1>1. st \in [Intake -> States]
  BY DEF Retried, States, Held, Settled
<1>2. \A j \in Intake : Receipt(state'[j]) = Receipt(st[j])
  BY <1>1, WakeKeepsReceipts DEF Retry
<1>3. \A j \in Intake : Receipt(st[j]) = Receipt(state[j])
  BY DEF Retried, Receipt, Settled
<1> QED BY <1>2, <1>3 DEF TD!vars, Retry, Before

LEMMA DiscardDelivers ==
  ASSUME IInv, NEW i \in Intake, Discard(i)
  PROVE  TD!Discard(i) \/ UNCHANGED TD!vars
<1> DEFINE st == [state EXCEPT ![i] = "discarded"]
<1> USE DEF IInv, TypeOK
<1>1. st \in [Intake -> States]
  BY DEF States, Held, Settled
<1>2. \A j \in Intake : Receipt(state'[j]) = Receipt(st[j])
  BY <1>1, WakeKeepsReceipts DEF Discard
<1>3. UNCHANGED <<seq, executed>>
  BY DEF Discard
<1>4. Receipt(st[i]) = "discarded"
  BY DEF Receipt, Settled
<1>5. CASE state[i] = "discarded"
  <2>1. \A j \in Intake : Receipt(st[j]) = Receipt(state[j])
    BY <1>5
  <2> QED BY <1>2, <1>3, <2>1 DEF TD!vars, Before
<1>6. CASE state[i] # "discarded"
  <2>1. Receipt(state[i]) = "pending"
    BY <1>6 DEF Discard, Discardable, Receipt, Settled
  <2>2. [j \in Intake |-> Receipt(state'[j])]
          = [[j \in Intake |-> Receipt(state[j])] EXCEPT ![i] = "discarded"]
    BY <1>2, <1>4
  <2> QED BY <1>3, <2>1, <2>2 DEF TD!Discard, Before
<1> QED BY <1>5, <1>6

\* The provider's turn is the head of its lane and runs for the first time.
LEMMA ExecuteDelivers ==
  ASSUME IInv, NEW w \in Worker, Execute(w)
  PROVE  row[w] \in Intake /\ TD!Execute(row[w])
<1> USE DEF IInv, TypeOK
<1>1. row[w] \in Intake /\ state[row[w]] = "submitting" /\ executed[row[w]] = 0
  BY DEF Execute, TasksOwnRows, InHandler, ExecutionsAccounted
<1>2. Receipt(state[row[w]]) = "pending"
  BY <1>1 DEF Receipt, Settled
<1>3. \A j \in Intake : Before(j, row[w], seq) => Receipt(state[j]) \in {"accepted", "discarded"}
  BY <1>1 DEF InFlightIsHead, Receipt, Settled
<1>4. executed' = [executed EXCEPT ![row[w]] = 1] /\ UNCHANGED <<state, seq>>
  BY <1>1 DEF Execute
<1> QED BY <1>1, <1>2, <1>3, <1>4 DEF TD!Execute, Before

\* Rows that become accepted were pending and executed.
LEMMA AcknowledgeDelivers ==
  ASSUME IInv, NEW S \in SUBSET Intake, UNCHANGED <<seq, executed>>,
         \A i \in S : Receipt(state[i]) = "pending" /\ executed[i] = 1 /\ state'[i] = "accepted",
         \A i \in Intake \ S : Receipt(state'[i]) = Receipt(state[i])
  PROVE  TD!Acknowledge(S)
<1>1. \A i \in S : Receipt(state'[i]) = "accepted"
  BY DEF Receipt, Settled
<1>2. [i \in Intake |-> Receipt(state'[i])]
        = [i \in Intake |-> IF i \in S THEN "accepted"
                           ELSE [j \in Intake |-> Receipt(state[j])][i]]
  BY <1>1
<1> QED BY <1>2 DEF TD!Acknowledge, Before

LEMMA CompleteDelivers ==
  ASSUME IInv, NEW w \in Worker, Complete(w)
  PROVE  \E S \in SUBSET Intake : TD!Acknowledge(S)
<1> USE DEF IInv, TypeOK
<1>1. row[w] \in Intake /\ state[row[w]] = "submitting" /\ executed[row[w]] = 1
  BY DEF Complete, TasksOwnRows, InHandler, ExecutionsAccounted
<1>2. Receipt(state[row[w]]) = "pending"
  BY <1>1 DEF Receipt, Settled
<1>3. state' = [state EXCEPT ![row[w]] = "accepted"] /\ UNCHANGED <<seq, executed>>
  BY DEF Complete
<1>4. state'[row[w]] = "accepted" /\ \A i \in Intake \ {row[w]} : state'[i] = state[i]
  BY <1>1, <1>3
<1> DEFINE S == {row[w]}
<1>5. \A i \in S : Receipt(state[i]) = "pending" /\ executed[i] = 1 /\ state'[i] = "accepted"
  BY <1>1, <1>2, <1>4
<1>6. \A i \in Intake \ S : Receipt(state'[i]) = Receipt(state[i])
  BY <1>4
<1>7. S \in SUBSET Intake
  BY <1>1
<1> HIDE DEF S
<1>8. TD!Acknowledge(S)
  BY <1>3, <1>5, <1>6, <1>7, AcknowledgeDelivers
<1> QED BY <1>7, <1>8

LEMMA ReconcileDelivers ==
  ASSUME IInv, NEW w \in Worker, Reconcile(w)
  PROVE  \E S \in SUBSET Intake : TD!Acknowledge(S)
<1> USE DEF IInv, TypeOK
<1>1. row[w] \in Intake /\ state[row[w]] = "submitting"
  BY DEF Reconcile, TasksOwnRows, InHandler
<1>2. Receipt(state[row[w]]) = "pending" /\ UNCHANGED <<seq, executed>>
  BY <1>1 DEF Receipt, Settled, Reconcile
<1>3. PICK found \in BOOLEAN : /\ found => saved[row[w]]
                              /\ state' = [state EXCEPT ![row[w]] = Outcome(found)]
  BY DEF Reconcile
<1>4. \A i \in Intake \ {row[w]} : state'[i] = state[i]
  BY <1>1, <1>3
<1>5. CASE found
  <2>1. executed[row[w]] = 1 /\ state'[row[w]] = "accepted"
    BY <1>1, <1>3, <1>5 DEF ExecutionsAccounted, Outcome
  <2> DEFINE S == {row[w]}
  <2>2. \A i \in S : Receipt(state[i]) = "pending" /\ executed[i] = 1 /\ state'[i] = "accepted"
    BY <1>1, <1>2, <2>1
  <2>3. \A i \in Intake \ S : Receipt(state'[i]) = Receipt(state[i])
    BY <1>4
  <2>4. S \in SUBSET Intake
    BY <1>1
  <2> HIDE DEF S
  <2>5. TD!Acknowledge(S)
    BY <1>2, <2>2, <2>3, <2>4, AcknowledgeDelivers
  <2> QED BY <2>4, <2>5
<1>6. CASE ~found
  <2>1. Receipt(state'[row[w]]) = "pending"
    BY <1>1, <1>3, <1>6 DEF Outcome, Receipt, Settled
  <2>2. TD!Acknowledge({})
    BY <1>1, <1>2, <1>4, <2>1, AcknowledgeDelivers
  <2> QED BY <2>2
<1> QED BY <1>5, <1>6

LEMMA RestartDelivers ==
  ASSUME IInv, Restart
  PROVE  \E S \in SUBSET Intake : TD!Acknowledge(S)
<1> USE DEF IInv, TypeOK
<1>1. UNCHANGED <<seq, executed>>
  BY DEF Restart
<1>2. PICK found \in SUBSET {i \in Intake : saved[i]} :
             state' = [i \in Intake |-> Recovered(state[i], i \in found)]
  BY DEF Restart
<1> DEFINE S == {i \in found : state[i] = "submitting"}
<1>3. \A i \in S : Receipt(state[i]) = "pending" /\ executed[i] = 1 /\ state'[i] = "accepted"
  BY <1>2 DEF Receipt, Settled, ExecutionsAccounted, Recovered, Outcome
<1>4. \A i \in Intake \ S : Receipt(state'[i]) = Receipt(state[i])
  BY <1>2 DEF Receipt, Settled, Recovered, Outcome
<1> QED BY <1>1, <1>3, <1>4, AcknowledgeDelivers

\* Every other step of a thread or of the process leaves receipts as they are.
LEMMA QuietStep ==
  ASSUME IInv, UNCHANGED <<seq, executed>>,
         \A i \in Intake : Receipt(state'[i]) = Receipt(state[i])
  PROVE  UNCHANGED TD!vars
BY DEF TD!vars, Before

\* A step that accepts no new row executes, acknowledges or discards a turn, or
\* is invisible.
LEMMA OtherStepDelivers ==
  ASSUME IInv, [Next]_vars, ~ \E i \in Intake : Accept(i)
  PROVE  \/ \E i \in Intake : TD!Execute(i) \/ TD!Discard(i)
         \/ \E S \in SUBSET Intake : TD!Acknowledge(S)
         \/ UNCHANGED TD!vars
<1> USE DEF IInv, TypeOK
<1>1. ASSUME NEW i \in Intake, Retry(i) \/ Discard(i)
      PROVE  TD!Discard(i) \/ UNCHANGED TD!vars
  BY <1>1, RetryDelivers, DiscardDelivers
<1>2. ASSUME NEW w \in Worker, Execute(w)
      PROVE  \E i \in Intake : TD!Execute(i)
  BY <1>2, ExecuteDelivers
<1>3. ASSUME NEW w \in Worker, Complete(w) \/ Reconcile(w)
      PROVE  \E S \in SUBSET Intake : TD!Acknowledge(S)
  BY <1>3, CompleteDelivers, ReconcileDelivers
<1>4. ASSUME NEW w \in Worker, PrepareFails(w) \/ MarkSubmitting(w)
      PROVE  UNCHANGED TD!vars
  <2>1. row[w] \in Intake /\ state[row[w]] = "transcribing"
    BY <1>4 DEF PrepareFails, MarkSubmitting, TasksOwnRows, InHandler
  <2>2. \A i \in Intake : Receipt(state'[i]) = Receipt(state[i])
    BY <1>4, <2>1 DEF PrepareFails, MarkSubmitting, Receipt, Settled
  <2> QED BY <1>4, <2>2, QuietStep DEF PrepareFails, MarkSubmitting
<1>5. ASSUME NEW w \in Worker, WakeNext(w)
      PROVE  UNCHANGED TD!vars
  BY <1>5, WakeKeepsReceipts, QuietStep DEF WakeNext
<1>6. ASSUME NEW w \in Worker, (\E i \in Intake : StartTask(w, i)) \/ SubmitRefused(w)
                               \/ SaveTurn(w) \/ ReleaseSlot(w)
      PROVE  UNCHANGED TD!vars
  BY <1>6, QuietStep DEF StartTask, SubmitRefused, SaveTurn, ReleaseSlot
<1>7. CASE Crash \/ Close \/ Stop
  BY <1>7, QuietStep DEF Crash, Close, Stop
<1>8. CASE Restart
  BY <1>8, RestartDelivers
<1>9. CASE Resume
  BY <1>9, WakeKeepsReceipts, QuietStep DEF Resume
<1>10. CASE UNCHANGED vars
  BY <1>10, QuietStep DEF vars
<1> QED BY <1>1, <1>2, <1>3, <1>4, <1>5, <1>6, <1>7, <1>8, <1>9, <1>10 DEF Next, Process

\* The outbox is an implementation of TurnDelivery.
THEOREM ImplementsDelivery == Spec => Delivers
<1>1. Init => TD!Init
  <2> SUFFICES ASSUME Init PROVE TD!Init
    OBVIOUS
  <2>1. \A i \in Intake : Receipt(state[i]) = "none"
    BY DEF Init, Receipt, Settled
  <2>2. \A i \in Intake : {j \in Intake : Before(j, i, seq)} = {}
    BY DEF Init, Before
  <2>3. executed \in [Intake -> {0, 1}]
    BY DEF Init
  <2> QED BY <2>1, <2>2, <2>3 DEF TD!Init
<1>2. IInv /\ [Next]_vars => [TD!Next]_(TD!vars)
  <2> SUFFICES ASSUME IInv, [Next]_vars PROVE TD!Next \/ UNCHANGED TD!vars
    OBVIOUS
  <2>1. ASSUME NEW i \in Intake, Accept(i) PROVE TD!Next
    BY <2>1, AcceptDelivers DEF TD!Next
  <2>2. CASE ~ \E i \in Intake : Accept(i)
    BY <2>2, OtherStepDelivers DEF TD!Next
  <2> QED BY <2>1, <2>2
<1> QED BY <1>1, <1>2, Invariance, PTL DEF Spec, Delivers, TD!Spec

-----------------------------------------------------------------------------
(* The capacity of the table, and wake-ups.                                 *)

\* Open rows are the pending ones.
LEMMA OpenIsPending ==
  ASSUME NEW st \in [Intake -> States]
  PROVE  \A i \in Intake : i \in Open(st) <=> Receipt(st[i]) = "pending"
BY DEF Open, Receipt, States, Held, Settled

\* The table never holds more than Capacity open rows: only a post opens one,
\* and it counts the parked ones too.
THEOREM RowsBounded == Spec => []OpenRowsBounded
<1>1. Init => OpenRowsBounded
  <2> SUFFICES ASSUME Init PROVE OpenRowsBounded
    OBVIOUS
  <2>1. Open(state) = {}
    BY DEF Init, Open, Held
  <2> QED BY <2>1, FS_EmptySet, CapacityAssumption DEF OpenRowsBounded
<1>2. IInv /\ IInv' /\ OpenRowsBounded /\ [Next]_vars => OpenRowsBounded'
  <2> SUFFICES ASSUME IInv, IInv', OpenRowsBounded, [Next]_vars PROVE OpenRowsBounded'
    OBVIOUS
  <2>1. IsFiniteSet(Open(state)) /\ Cardinality(Open(state)) \in Nat
    BY IntakeAssumption, FS_Subset, FS_CardinalityType DEF Open
  <2>2. state \in [Intake -> States] /\ state' \in [Intake -> States]
    BY DEF IInv, TypeOK
  <2>3. ASSUME NEW i \in Intake, Accept(i) PROVE OpenRowsBounded'
    <3>1. Open(state') \subseteq Open(state) \cup {i}
      <4>1. \A j \in Intake \ {i} : Receipt(state'[j]) = Receipt(state[j])
        BY <2>3, AcceptDelivers DEF TD!Post
      <4>2. \A j \in Intake \ {i} : j \in Open(state') => j \in Open(state)
        BY <2>2, <4>1, OpenIsPending
      <4> QED BY <4>2 DEF Open
    <3>2. i \notin Open(state) /\ Cardinality(Open(state)) < Capacity
      BY <2>3 DEF Accept, HasRoom, Open, Held
    <3>3. IsFiniteSet(Open(state) \cup {i})
          /\ Cardinality(Open(state) \cup {i}) = Cardinality(Open(state)) + 1
      BY <2>1, <3>2, FS_AddElement
    <3>4. Cardinality(Open(state')) <= Cardinality(Open(state)) + 1
          /\ Cardinality(Open(state')) \in Nat
      BY <3>1, <3>3, FS_Subset, FS_CardinalityType
    <3> QED BY <2>1, <3>2, <3>4, CapacityAssumption DEF OpenRowsBounded
  <2>4. CASE ~ \E i \in Intake : Accept(i)
    <3>1. \A j \in Intake : Receipt(state'[j]) = "pending" => Receipt(state[j]) = "pending"
      BY <2>4, OtherStepDelivers DEF TD!Execute, TD!Discard, TD!Acknowledge, TD!vars
    <3>2. Open(state') \subseteq Open(state)
      BY <2>2, <3>1, OpenIsPending DEF Open
    <3>3. Cardinality(Open(state')) <= Cardinality(Open(state))
          /\ Cardinality(Open(state')) \in Nat
      BY <2>1, <3>2, FS_Subset, FS_CardinalityType
    <3> QED BY <2>1, <3>3, CapacityAssumption DEF OpenRowsBounded
  <2> QED BY <2>3, <2>4
<1> QED BY <1>1, <1>2, Invariance, PTL DEF Spec

\* After a wake() that was not refused no slot is free or no row can run.
LEMMA WakeFinds ==
  ASSUME IInv, NEW st \in [Intake -> States], NEW sq, NEW act \in Nat, Wake(st, sq, act),
         phase # "closing"
  PROVE  ~(active' < Limit) \/ Runnable(state', sq) = {}
<1>1. PICK T \in SUBSET Runnable(st, sq) :
         /\ T = Runnable(st, sq) \/ ~Fits(act + Cardinality(T) + 1)
         /\ state' = [i \in Intake |-> IF i \in T THEN "transcribing" ELSE st[i]]
         /\ active' = act + Cardinality(T)
  BY DEF Wake
<1>2. IsFiniteSet(T) /\ Cardinality(T) \in Nat /\ Limit \in Nat
  BY IntakeAssumption, WorkerAssumption, FS_Subset, FS_CardinalityType DEF Runnable, Limit
<1>3. CASE T = Runnable(st, sq)
  <2>1. ASSUME NEW i \in Runnable(state', sq) PROVE FALSE
    <3>1. i \in Intake /\ i \notin T /\ st[i] = "queued"
      BY <1>1 DEF Runnable
    <3>2. \A j \in Intake : Before(j, i, sq) => st[j] \notin Held
      BY <1>1 DEF Runnable, Held
    <3> QED BY <1>3, <3>1, <3>2 DEF Runnable
  <2> QED BY <2>1
<1>4. CASE ~Fits(act + Cardinality(T) + 1)
  BY <1>1, <1>2, <1>4 DEF Fits
<1> QED BY <1>1, <1>3, <1>4

\* No wake-up is lost: if a slot is free and a row could run, a thread on its
\* way out has yet to look.
THEOREM WakeupsKept == Spec => []NoLostWakeup
<1>1. Init => NoLostWakeup
  BY DEF Init, NoLostWakeup
<1>2. IInv /\ IInv' /\ NoLostWakeup /\ [Next]_vars => NoLostWakeup'
  <2> SUFFICES ASSUME IInv, IInv', NoLostWakeup, [Next]_vars PROVE NoLostWakeup'
    OBVIOUS
  <2> USE DEF IInv, TypeOK
  <2>1. Limit' = Limit
    BY DEF Limit
  <2>2. ASSUME NEW st \in [Intake -> States], Wake(st, seq', active), phase # "closing"
        PROVE  NoLostWakeup'
    BY <2>1, <2>2, WakeFinds DEF NoLostWakeup
  <2>3. ASSUME NEW i \in Intake, Accept(i) \/ Retry(i) \/ Discard(i)
        PROVE  NoLostWakeup'
    <3>1. CASE phase = "closing"
      BY <2>3, <3>1 DEF Accept, Retry, Discard, NoLostWakeup
    <3>2. CASE phase # "closing"
      <4> DEFINE new == [state EXCEPT ![i] = IF saved[i] THEN "accepted" ELSE "queued"]
                 again == [state EXCEPT ![i] = Retried(@)]
                 gone == [state EXCEPT ![i] = "discarded"]
      <4>1. new \in [Intake -> States] /\ again \in [Intake -> States]
            /\ gone \in [Intake -> States]
        BY DEF Retried, States, Held, Settled
      <4>2. Wake(new, seq', active) \/ Wake(again, seq, active) \/ Wake(gone, seq, active)
        BY <2>3 DEF Accept, Retry, Discard
      <4>3. seq' = seq \/ Wake(new, seq', active)
        BY <2>3 DEF Accept, Retry, Discard
      <4> HIDE DEF new, again, gone
      <4> QED BY <3>2, <4>1, <4>2, <4>3, <2>2
    <3> QED BY <3>1, <3>2
  <2>4. CASE Resume
    BY <2>2, <2>4 DEF Resume
  <2>5. ASSUME NEW w \in Worker, WakeNext(w) PROVE NoLostWakeup'
    <3>1. CASE phase = "closing"
      BY <2>5, <3>1 DEF WakeNext, NoLostWakeup
    <3> QED BY <2>5, <2>2, <3>1 DEF WakeNext
  <2>6. ASSUME NEW w \in Worker,
               PrepareFails(w) \/ Complete(w) \/ Reconcile(w) \/ ReleaseSlot(w)
        PROVE  NoLostWakeup'
    <3>1. pc'[w] \in {"finishing", "waking"}
      BY <2>6 DEF PrepareFails, Complete, Reconcile, ReleaseSlot
    <3> QED BY <3>1 DEF NoLostWakeup
  <2>7. ASSUME NEW w \in Worker, (\E i \in Intake : StartTask(w, i)) \/ MarkSubmitting(w)
                                 \/ SubmitRefused(w) \/ Execute(w) \/ SaveTurn(w)
        PROVE  NoLostWakeup'
    <3>1. phase' = phase /\ active' = active /\ seq' = seq
      BY <2>7 DEF StartTask, MarkSubmitting, SubmitRefused, Execute, SaveTurn
    <3>2. \A v \in Worker : pc[v] \in {"finishing", "waking"} => pc'[v] = pc[v]
      BY <2>7 DEF StartTask, MarkSubmitting, SubmitRefused, Execute, SaveTurn
    <3>3. \A i \in Intake : (state'[i] = state[i])
                             \/ (state[i] = "transcribing" /\ state'[i] = "submitting")
      BY <2>7 DEF StartTask, MarkSubmitting, SubmitRefused, Execute, SaveTurn,
                  TasksOwnRows, InHandler
    <3>4. Runnable(state', seq) = Runnable(state, seq)
      BY <3>3 DEF Runnable, Held
    <3> QED BY <2>1, <3>1, <3>2, <3>4 DEF NoLostWakeup
  <2>8. CASE Crash \/ Restart \/ Close \/ Stop
    BY <2>8 DEF Crash, Restart, Close, Stop, NoLostWakeup
  <2>9. CASE UNCHANGED vars
    BY <2>1, <2>9 DEF vars, NoLostWakeup, Runnable
  <2> QED BY <2>3, <2>4, <2>5, <2>6, <2>7, <2>8, <2>9 DEF Next, Process
<1> QED BY <1>1, <1>2, Invariance, PTL DEF Spec
=============================================================================
