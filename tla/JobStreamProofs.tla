-------------------------- MODULE JobStreamProofs --------------------------
(***************************************************************************)
(* Proofs that coalescing signals lose no change of a job and that all     *)
(* clients are told the same result, for any number of clients, of threads *)
(* that ask for the job, of cancellations and of lines of output.          *)
(***************************************************************************)
EXTENDS JobStream, TLAPS

\* What the steps of the provider leave alone.
Others == <<loop, row, pc, copy, gone, replaced>>

\* A step after which more listeners are about to be called, and every subscriber
\* if the job has changed, keeps the subscribers up to date.
LEMMA PublishingPreserves ==
  ASSUME StreamInv, UNCHANGED Others,
         state' \in Snapshot, state.update <= state'.update,
         lines' \in 0 .. MaxLines, ended' \in BOOLEAN, cancelling' \subseteq Canceller,
         toCall' \in [Publisher -> SUBSET Client],
         \A p \in Publisher : toCall[p] \subseteq toCall'[p],
         state' = state \/ \E p \in Publisher : toCall'[p] = subscribers
  PROVE  StreamInv'
<1>1. TypeOK' /\ TypeOK
  BY DEF StreamInv, TypeOK, Others, loop
<1>2. Ordered'
  BY <1>1 DEF StreamInv, Ordered, TypeOK, Others, Snapshot, Row
<1>3. ASSUME ~replaced'
      PROVE  ToldIsStored' /\ EndIsFinal' /\ UpToDate' /\ ResultIsStored'
  <2>1. ToldIsStored /\ EndIsFinal /\ UpToDate /\ ResultIsStored
    BY <1>3 DEF StreamInv, Others
  <2>2. ToldIsStored' /\ EndIsFinal' /\ ResultIsStored'
    BY <2>1 DEF ToldIsStored, EndIsFinal, ResultIsStored, Content, Others, loop
  <2>3. \A c \in Client : Pending(c) => Pending(c)'
    BY DEF Pending, Others, loop
  <2>4. \A c \in subscribers : state' = state \/ Pending(c)'
    BY DEF Pending
  <2>5. UpToDate'
    BY <2>1, <2>3, <2>4, <1>1 DEF UpToDate, Content, Others, loop, TypeOK
  <2> QED BY <2>2, <2>5
<1> QED BY <1>1, <1>2, <1>3 DEF StreamInv

LEMMA SetStatePublishes ==
  ASSUME TypeOK, NEW p \in Publisher, NEW s \in {"running"} \cup Terminal, SetState(p, s)
  PROVE  /\ state' \in Snapshot /\ state.update <= state'.update
         /\ toCall' \in [Publisher -> SUBSET Client]
         /\ \A q \in Publisher : toCall[q] \subseteq toCall'[q]
         /\ state' = state \/ \E q \in Publisher : toCall'[q] = subscribers
<1>1. /\ toCall[p] = {}
      /\ toCall' = [toCall EXCEPT ![p] = subscribers]
      /\ state' = IF state.status = "cancelled" /\ s # "cancelled" THEN state
                  ELSE [status |-> s, update |-> state.update + 1]
  BY DEF SetState
<1>2. state.update \in Nat /\ state.status \in {"running"} \cup Terminal
  BY DEF TypeOK, Snapshot
<1>3. toCall' \in [Publisher -> SUBSET Client] /\ toCall'[p] = subscribers
  BY <1>1 DEF TypeOK
<1>4. \A q \in Publisher : toCall[q] \subseteq toCall'[q]
  BY <1>1 DEF TypeOK
<1>5. state' \in Snapshot /\ state.update <= state'.update
  BY <1>1, <1>2 DEF TypeOK, Snapshot
<1> QED BY <1>3, <1>4, <1>5

LEMMA ProviderPreserves ==
  ASSUME StreamInv, Progress \/ End \/ \E p \in Canceller : CancelCheck(p) \/ CancelSet(p)
  PROVE  StreamInv'
<1>1. TypeOK /\ MaxLines \in Nat
  BY MaxLinesAssumption DEF StreamInv
<1>2. CASE Progress
  <2>1. SetState("reader", "running") /\ UNCHANGED Others /\ UNCHANGED <<ended, cancelling>>
    BY <1>2 DEF Progress, Others
  <2>2. lines' \in 0 .. MaxLines
    BY <1>1, <1>2 DEF Progress, TypeOK
  <2> QED BY <2>1, <2>2, <1>1, SetStatePublishes, PublishingPreserves DEF Publisher, TypeOK
<1>3. CASE End
  <2>1. SetState("worker", "completed") /\ UNCHANGED Others /\ ended' = TRUE /\ UNCHANGED <<lines, cancelling>>
    BY <1>3 DEF End, Others
  <2> QED BY <2>1, <1>1, SetStatePublishes, PublishingPreserves DEF Publisher, TypeOK, Terminal
<1>4. ASSUME NEW p \in Canceller, CancelCheck(p)
      PROVE  StreamInv'
  <2>1. UNCHANGED Others /\ UNCHANGED <<state, lines, ended, toCall>> /\ cancelling' \subseteq Canceller
    BY <1>1, <1>4 DEF CancelCheck, Others, TypeOK
  <2> QED BY <2>1, <1>1, PublishingPreserves DEF TypeOK, Snapshot
<1>5. ASSUME NEW p \in Canceller, CancelSet(p)
      PROVE  StreamInv'
  <2>1. SetState(p, "cancelled") /\ UNCHANGED Others /\ UNCHANGED <<lines, ended>> /\ cancelling' \subseteq Canceller
    BY <1>1, <1>5 DEF CancelSet, Others, TypeOK
  <2> QED BY <2>1, <1>1, SetStatePublishes, PublishingPreserves DEF Publisher, TypeOK, Terminal
<1> QED BY <1>2, <1>3, <1>4, <1>5

LEMMA NotifyPreserves ==
  ASSUME StreamInv, NEW p \in Publisher, NEW c \in Client, Notify(p, c)
  PROVE  StreamInv'
<1>1. TypeOK /\ TypeOK'
  BY DEF StreamInv, TypeOK, Notify
<1>2. Ordered'
  BY DEF StreamInv, Ordered, Notify
<1>3. ASSUME ~replaced'
      PROVE  ToldIsStored' /\ EndIsFinal' /\ UpToDate' /\ ResultIsStored'
  <2>1. ToldIsStored /\ EndIsFinal /\ UpToDate /\ ResultIsStored
    BY <1>3 DEF StreamInv, Notify
  <2>2. ToldIsStored' /\ EndIsFinal' /\ ResultIsStored'
    BY <2>1 DEF ToldIsStored, EndIsFinal, ResultIsStored, Content, Notify
  <2>3. ASSUME NEW d \in Client, Pending(d)
        PROVE  Pending(d)'
    <3>1. CASE d = c
      BY <3>1, <1>1 DEF Notify, Pending, TypeOK
    <3>2. CASE d # c
      BY <3>2, <2>3, <1>1 DEF Notify, Pending, TypeOK
    <3> QED BY <3>1, <3>2
  <2>4. UpToDate'
    BY <2>1, <2>3 DEF UpToDate, Content, Notify
  <2> QED BY <2>2, <2>4
<1> QED BY <1>1, <1>2, <1>3 DEF StreamInv

\* What a save that replaces nothing does to the stored job: it does not go back,
\* and the end is final.
LEMMA SaveAdvances ==
  ASSUME TypeOK, NEW r \in Row, Save(r), ~replaced'
  PROVE  /\ ~replaced /\ row' = r /\ row.update <= row'.update
         /\ row.status \in Terminal => row'.status \in Terminal /\ Content(row') = Content(row)
<1>1. /\ row' = r /\ ~replaced /\ ~(r.update < row.update)
      /\ ~(row.status \in Terminal /\ Content(r) # Content(row))
  BY DEF Save
<1>2. row.update \in Nat /\ r.update \in Nat
  BY DEF TypeOK, Row
<1>3. Content(r) = Content(row) => r.status = row.status
  BY DEF Content
<1> QED BY <1>1, <1>2, <1>3

\* A step that saves a copy, and moves one thread on that is not about to send or
\* to wait for a signal, keeps what the clients have been told true.
LEMMA SavingPreserves ==
  ASSUME StreamInv, NEW t \in Thread, NEW r \in Row, Save(r), Content(r) = Content(copy[t]),
         UNCHANGED <<provider, loop, copy, gone>>,
         NEW next \in PCs, Goes(t, next), pc[t] \in {"store", "mark"},
         next = "send" => t \in Client /\ pc[t] = "store" /\ copy[t].status \notin Terminal,
         next \in {"lock", "return"} => copy[t].status \in Terminal \/ row.status \in Terminal,
         next \in {"send", "lock", "return", "idle"}
  PROVE  StreamInv'
<1>1. TypeOK /\ TypeOK'
  BY DEF StreamInv, TypeOK, Save, Goes, provider, loop
<1>2. Ordered'
  <2>1. r.update = copy[t].update
    BY DEF Content
  <2> QED BY <2>1, <1>1 DEF StreamInv, Ordered, Save, provider, loop
<1>3. ASSUME ~replaced'
      PROVE  ToldIsStored' /\ EndIsFinal' /\ UpToDate' /\ ResultIsStored'
  <2>1. ToldIsStored /\ EndIsFinal /\ UpToDate /\ ResultIsStored
    BY <1>3, <1>1, SaveAdvances DEF StreamInv
  <2>2. /\ row' = r /\ row.update <= row'.update
        /\ row.status \in Terminal => row'.status \in Terminal /\ Content(row') = Content(row)
    BY <1>3, <1>1, SaveAdvances
  <2>3. \A u \in Thread : pc'[u] = IF u = t THEN next ELSE pc[u]
    BY <1>1 DEF Goes, TypeOK
  <2>4. Content(row') = Content(copy[t]) /\ row'.status = copy[t].status /\ row'.update = copy[t].update
    BY <2>2 DEF Content
  <2>5. row.update \in Nat /\ row'.update \in Nat /\ \A c \in Client : sent[c].update \in Nat
    BY <1>1 DEF TypeOK, Row, Snapshot, NotSent
  <2>6. \A u \in Thread : copy[u].update \in Nat
    BY <1>1 DEF TypeOK, Row
  <2>7. ToldIsStored'
    <3> SUFFICES ASSUME NEW c \in Client
                 PROVE  /\ sent[c].update <= row'.update
                        /\ pc'[c] \in {"store", "send"} => sent[c].update <= copy[c].update
                        /\ pc'[c] = "send" => copy[c].update <= row'.update
                        /\ pc'[c] = "send" /\ copy[c].status \in Terminal => Content(copy[c]) = Content(row')
      BY DEF ToldIsStored, provider, loop, Content
    <3>1. c \in Thread
      BY DEF Thread
    <3>2. sent[c].update <= row'.update
      BY <2>1, <2>2, <2>5 DEF ToldIsStored
    <3>3. CASE c = t
      BY <3>1, <3>2, <3>3, <2>1, <2>3, <2>4, <2>6 DEF ToldIsStored
    <3>4. CASE c # t
      <4>1. pc'[c] = pc[c]
        BY <3>1, <3>4, <2>3
      <4>2. pc[c] = "send" /\ copy[c].status \in Terminal => row.status \in Terminal
        BY <2>1 DEF ToldIsStored, Content
      <4> QED BY <3>1, <3>2, <4>1, <4>2, <2>1, <2>2, <2>5, <2>6 DEF ToldIsStored
    <3> QED BY <3>3, <3>4
  <2>8. EndIsFinal'
    <3> SUFFICES ASSUME NEW u \in Thread, pc'[u] \in {"lock"} \cup InLock
                 PROVE  row'.status \in Terminal
      BY DEF EndIsFinal
    <3>1. CASE u = t
      BY <3>1, <2>2, <2>3, <2>4 DEF InLock
    <3>2. CASE u # t
      BY <3>2, <2>1, <2>2, <2>3 DEF EndIsFinal
    <3> QED BY <3>1, <3>2
  <2>9. UpToDate'
    <3> SUFFICES ASSUME NEW c \in Client
                 PROVE  /\ pc'[c] = "wait" => c \in subscribers /\ (Pending(c) \/ sent[c] = state)
                        /\ pc'[c] \in {"store", "send"} /\ c \in subscribers /\ copy[c].status \notin Terminal =>
                             Pending(c) \/ Content(copy[c]) = state
      BY DEF UpToDate, provider, loop, Content, Pending
    <3>1. pc'[c] = IF c = t THEN next ELSE pc[c]
      BY <2>3 DEF Thread
    <3> QED BY <3>1, <2>1 DEF UpToDate
  <2>10. ResultIsStored'
    <3>1. \A c \in Client : sent[c].status \in Terminal => sent[c] = Content(row')
      <4> TAKE c \in Client
      <4> HAVE sent[c].status \in Terminal
      <4>1. sent[c] = Content(row)
        BY <2>1, <1>3 DEF ResultIsStored, Save
      <4>2. row.status \in Terminal
        BY <4>1 DEF Content
      <4> QED BY <4>1, <4>2, <2>2
    <3> QED BY <3>1 DEF ResultIsStored, Content, provider, loop
  <2> QED BY <2>7, <2>8, <2>9, <2>10
<1> QED BY <1>1, <1>2, <1>3 DEF StreamInv

LEMMA StorePreserves ==
  ASSUME StreamInv, NEW t \in Thread, Store(t)
  PROVE  StreamInv'
<1>1. copy[t] \in Row /\ pc[t] = "store" /\ Save(copy[t]) /\ UNCHANGED <<provider, loop, copy, gone>>
  BY DEF StreamInv, TypeOK, Store
<1>2. CASE copy[t].status \in Terminal
  BY <1>1, <1>2, SavingPreserves DEF Store, PCs, OnLoop
<1>3. CASE copy[t].status \notin Terminal
  <2>1. Goes(t, IF t \in Client THEN "send" ELSE "idle")
    BY <1>3 DEF Store, Returns
  <2>2. (IF t \in Client THEN "send" ELSE "idle") \in PCs
    BY DEF PCs
  <2> QED BY <1>1, <1>3, <2>1, <2>2, SavingPreserves
<1> QED BY <1>2, <1>3

LEMMA MarkPreserves ==
  ASSUME StreamInv, NEW t \in Thread, Mark(t)
  PROVE  StreamInv'
<1> DEFINE r == [copy[t] EXCEPT !.processed = TRUE]
<1>1. pc[t] = "mark" /\ Save(r) /\ Goes(t, "return") /\ UNCHANGED <<provider, loop, copy, gone>>
  BY DEF Mark
<1>2. r \in Row /\ Content(r) = Content(copy[t])
  BY DEF StreamInv, TypeOK, Row, Content
<1>3. CASE row.status \in Terminal
  BY <1>1, <1>2, <1>3, SavingPreserves DEF PCs, OnLoop, InLock
<1>4. CASE row.status \notin Terminal
  <2>1. replaced
    BY <1>1, <1>4 DEF StreamInv, EndIsFinal, InLock
  <2>2. replaced'
    BY <1>1, <2>1 DEF Save
  <2>3. TypeOK'
    BY <1>1, <1>2 DEF StreamInv, TypeOK, Save, Goes, provider, loop, PCs, OnLoop, InLock
  <2>4. Ordered'
    BY <1>1, <1>2 DEF StreamInv, TypeOK, Ordered, Save, Content, provider, loop
  <2> QED BY <2>2, <2>3, <2>4 DEF StreamInv
<1> QED BY <1>3, <1>4

\* A thread that enters get_job: it has the end, or the job as it is now.  The
\* signal it has taken is no longer needed.
LEMMA StartingPreserves ==
  ASSUME StreamInv, NEW t \in Thread, StartGetJob(t), pc[t] \in {"idle", "connect", "wait"},
         UNCHANGED <<provider, subscribers, scheduled, sent, row, gone, replaced>>,
         signal' \in [Client -> BOOLEAN], \A c \in Client : c # t => signal'[c] = signal[c]
  PROVE  StreamInv'
<1> DEFINE now == IF row.status \in Terminal THEN row
                  ELSE [row EXCEPT !.status = state.status, !.update = state.update]
           next == IF row.status \in Terminal THEN "lock" ELSE "store"
<1>1. copy' = [copy EXCEPT ![t] = now] /\ pc' = [pc EXCEPT ![t] = next]
  BY DEF StartGetJob, Goes
<1>2. TypeOK /\ Ordered
  BY DEF StreamInv
<1>3. now \in Row /\ now.update <= state.update /\ row.update <= now.update
  <2>1. row \in Row /\ state \in Snapshot /\ row.update <= state.update
    BY <1>2 DEF TypeOK, Ordered
  <2>2. CASE row.status \in Terminal
    BY <2>1, <2>2 DEF Row
  <2>3. CASE row.status \notin Terminal
    <3>1. now.status = state.status /\ now.update = state.update /\ now.processed = row.processed
      BY <2>1, <2>3 DEF Row
    <3>2. now = [status |-> state.status, update |-> state.update, processed |-> row.processed]
      BY <2>1, <2>3 DEF Row
    <3> QED BY <2>1, <3>1, <3>2 DEF Row, Snapshot
  <2> QED BY <2>2, <2>3
<1>4. next \in PCs
  BY DEF PCs, OnLoop
<1> HIDE DEF now, next
<1>5. TypeOK'
  BY <1>1, <1>2, <1>3, <1>4 DEF TypeOK, provider
<1>6. Ordered'
  BY <1>1, <1>2, <1>3 DEF TypeOK, Ordered, provider
<1>7. ASSUME ~replaced'
      PROVE  ToldIsStored' /\ EndIsFinal' /\ UpToDate' /\ ResultIsStored'
  <2>1. ToldIsStored /\ EndIsFinal /\ UpToDate /\ ResultIsStored
    BY <1>7 DEF StreamInv
  <2>2. \A u \in Thread : copy'[u] = (IF u = t THEN now ELSE copy[u]) /\ pc'[u] = (IF u = t THEN next ELSE pc[u])
    BY <1>1, <1>2 DEF TypeOK
  <2>3. \A c \in Client : sent[c].update \in Nat /\ row.update \in Nat /\ now.update \in Nat
    BY <1>2, <1>3 DEF TypeOK, Row, Snapshot, NotSent
  <2>4. next \in {"lock", "store"} /\ (next = "lock" <=> row.status \in Terminal)
    BY DEF next
  <2>5. ToldIsStored'
    <3> SUFFICES ASSUME NEW c \in Client
                 PROVE  /\ sent[c].update <= row.update
                        /\ pc'[c] \in {"store", "send"} => sent[c].update <= copy'[c].update
                        /\ pc'[c] = "send" => copy'[c].update <= row.update
                        /\ pc'[c] = "send" /\ copy'[c].status \in Terminal => Content(copy'[c]) = Content(row)
      BY DEF ToldIsStored, Content
    <3>1. c \in Thread
      BY DEF Thread
    <3>2. CASE c = t
      BY <3>1, <3>2, <2>1, <2>2, <2>3, <2>4, <1>3 DEF ToldIsStored
    <3>3. CASE c # t
      BY <3>1, <3>3, <2>1, <2>2 DEF ToldIsStored
    <3> QED BY <3>2, <3>3
  <2>6. EndIsFinal'
    BY <2>1, <2>2, <2>4 DEF EndIsFinal, InLock
  <2>7. UpToDate'
    <3> SUFFICES ASSUME NEW c \in Client
                 PROVE  /\ pc'[c] = "wait" => c \in subscribers /\ (Pending(c)' \/ sent[c] = state)
                        /\ pc'[c] \in {"store", "send"} /\ c \in subscribers /\ copy'[c].status \notin Terminal =>
                             Pending(c)' \/ Content(copy'[c]) = state
      BY DEF UpToDate, provider, Content
    <3>1. c \in Thread
      BY DEF Thread
    <3>2. CASE c = t
      <4>1. row.status \notin Terminal => Content(now) = state
        BY <1>2 DEF now, Content, TypeOK, Snapshot, Row
      <4> QED BY <3>1, <3>2, <4>1, <2>2, <2>4
    <3>3. CASE c # t
      <4>1. Pending(c) => Pending(c)'
        BY <3>3 DEF Pending, provider
      <4> QED BY <3>1, <3>3, <4>1, <2>1, <2>2 DEF UpToDate
    <3> QED BY <3>2, <3>3
  <2>8. ResultIsStored'
    BY <2>1 DEF ResultIsStored, Content
  <2> QED BY <2>5, <2>6, <2>7, <2>8
<1> QED BY <1>5, <1>6, <1>7 DEF StreamInv

LEMMA StartPreserves ==
  ASSUME StreamInv, (\E t \in Thread : Poll(t)) \/ (\E c \in Client : Connect(c) \/ Wake(c))
  PROVE  StreamInv'
<1>1. TypeOK
  BY DEF StreamInv
<1>2. ASSUME NEW t \in Thread, Poll(t)
      PROVE  StreamInv'
  BY <1>1, <1>2, StartingPreserves DEF Poll, loop, TypeOK
<1>3. ASSUME NEW c \in Client, Connect(c)
      PROVE  StreamInv'
  BY <1>1, <1>3, StartingPreserves DEF Connect, loop, TypeOK, Thread
<1>4. ASSUME NEW c \in Client, Wake(c)
      PROVE  StreamInv'
  <2>1. signal' \in [Client -> BOOLEAN] /\ \A d \in Client : d # c => signal'[d] = signal[d]
    BY <1>1, <1>4 DEF Wake, TypeOK
  <2> QED BY <2>1, <1>4, StartingPreserves DEF Wake, Thread
<1> QED BY <1>2, <1>3, <1>4

\* The steps under the job's lock read the stored job, which has ended.
LEMMA RereadingPreserves ==
  ASSUME StreamInv, NEW t \in Thread, Lock(t) \/ Return(t)
  PROVE  StreamInv'
<1>1. PICK next \in {"return", "mark", "send", "idle"} :
        /\ pc' = [pc EXCEPT ![t] = next]
        /\ next = "idle" => t \notin Client
  BY DEF Lock, Return, Returns, Goes
<1>2. /\ copy' = [copy EXCEPT ![t] = row] /\ pc[t] \in {"lock"} \cup InLock
      /\ UNCHANGED <<provider, loop, row, gone, replaced>>
  BY DEF Lock, Return, InLock
<1>3. TypeOK /\ Ordered
  BY DEF StreamInv
<1>4. TypeOK'
  BY <1>1, <1>2, <1>3 DEF TypeOK, provider, loop, PCs, OnLoop, InLock
<1>5. Ordered'
  BY <1>2, <1>3 DEF TypeOK, Ordered, provider, loop
<1>6. ASSUME ~replaced'
      PROVE  ToldIsStored' /\ EndIsFinal' /\ UpToDate' /\ ResultIsStored'
  <2>1. ToldIsStored /\ EndIsFinal /\ UpToDate /\ ResultIsStored
    BY <1>2, <1>6 DEF StreamInv
  <2>2. \A u \in Thread : copy'[u] = (IF u = t THEN row ELSE copy[u]) /\ pc'[u] = (IF u = t THEN next ELSE pc[u])
    BY <1>1, <1>2, <1>3 DEF TypeOK
  <2>3. row.status \in Terminal
    BY <1>2, <2>1 DEF EndIsFinal
  <2>4. row.update \in Nat
    BY <1>3 DEF TypeOK, Row
  <2>5. ToldIsStored'
    <3> SUFFICES ASSUME NEW c \in Client
                 PROVE  /\ sent[c].update <= row.update
                        /\ pc'[c] \in {"store", "send"} => sent[c].update <= copy'[c].update
                        /\ pc'[c] = "send" => copy'[c].update <= row.update
                        /\ pc'[c] = "send" /\ copy'[c].status \in Terminal => Content(copy'[c]) = Content(row)
      BY <1>2 DEF ToldIsStored, Content, loop
    <3>1. c \in Thread
      BY DEF Thread
    <3>2. CASE c = t
      BY <3>1, <3>2, <2>1, <2>2, <2>4 DEF ToldIsStored
    <3>3. CASE c # t
      BY <3>1, <3>3, <2>1, <2>2 DEF ToldIsStored
    <3> QED BY <3>2, <3>3
  <2>6. EndIsFinal'
    BY <2>3, <1>2 DEF EndIsFinal
  <2>7. UpToDate'
    BY <2>1, <2>2, <2>3, <1>2 DEF UpToDate, Pending, Content, provider, loop, Thread
  <2>8. ResultIsStored'
    BY <2>1, <1>2 DEF ResultIsStored, Content, loop
  <2> QED BY <2>5, <2>6, <2>7, <2>8
<1> QED BY <1>4, <1>5, <1>6 DEF StreamInv

LEMMA SendPreserves ==
  ASSUME StreamInv, NEW c \in Client, Send(c)
  PROVE  StreamInv'
<1>1. PICK next \in {"wait", "subscribe", "closed"} : pc' = [pc EXCEPT ![c] = next]
  BY DEF Send, Close, Goes
<1>2. /\ pc[c] = "send" /\ UNCHANGED <<provider, scheduled, signal, row, copy, gone, replaced>>
      /\ subscribers' \subseteq subscribers
      /\ \A d \in Client \ {c} : d \in subscribers' <=> d \in subscribers
      /\ next = "wait" => c \in subscribers' /\ c \in subscribers /\ copy[c].status \notin Terminal
      /\ next = "wait" => sent' = [sent EXCEPT ![c] = Content(copy[c])]
      /\ sent' = sent \/ sent' = [sent EXCEPT ![c] = Content(copy[c])]
  BY <1>1 DEF Send, Close, Goes, StreamInv, TypeOK, Thread
<1>3. TypeOK /\ Ordered /\ c \in Thread
  BY DEF StreamInv, Thread
<1>4. Content(copy[c]) \in Snapshot
  BY <1>3 DEF TypeOK, Content, Row, Snapshot
<1>5. TypeOK'
  BY <1>1, <1>2, <1>3, <1>4 DEF TypeOK, provider, PCs, OnLoop, InLock
<1>6. Ordered'
  BY <1>2, <1>3 DEF Ordered, provider
<1>7. ASSUME ~replaced'
      PROVE  ToldIsStored' /\ EndIsFinal' /\ UpToDate' /\ ResultIsStored'
  <2>1. ToldIsStored /\ EndIsFinal /\ UpToDate /\ ResultIsStored
    BY <1>2, <1>7 DEF StreamInv
  <2>2. /\ \A u \in Thread : pc'[u] = (IF u = c THEN next ELSE pc[u])
        /\ \A d \in Client : sent'[d] = sent[d] \/ (d = c /\ sent'[d] = Content(copy[c]))
    <3>1. \A u \in Thread : pc'[u] = IF u = c THEN next ELSE pc[u]
      BY <1>1, <1>3 DEF TypeOK
    <3>2. \A d \in Client : sent'[d] = sent[d] \/ (d = c /\ sent'[d] = Content(copy[c]))
      <4>1. sent \in [Client -> Snapshot \cup {NotSent}]
        BY <1>3 DEF TypeOK
      <4>2. CASE sent' = sent
        BY <4>2
      <4>3. CASE sent' = [sent EXCEPT ![c] = Content(copy[c])]
        BY <4>1, <4>3
      <4> QED BY <1>2, <4>2, <4>3
    <3> QED BY <3>1, <3>2
  <2>3. ToldIsStored'
    BY <2>1, <2>2, <1>2, <1>3 DEF ToldIsStored, Content, Thread
  <2>4. EndIsFinal'
    BY <2>1, <2>2, <1>2 DEF EndIsFinal, InLock
  <2>5. UpToDate'
    <3> SUFFICES ASSUME NEW d \in Client
                 PROVE  /\ pc'[d] = "wait" => d \in subscribers' /\ (Pending(d) \/ sent'[d] = state)
                        /\ pc'[d] \in {"store", "send"} /\ d \in subscribers' /\ copy[d].status \notin Terminal =>
                             Pending(d) \/ Content(copy[d]) = state
      BY <1>2 DEF UpToDate, provider, Content, Pending
    <3>1. CASE d = c
      <4>1. next = "wait" => sent'[c] = Content(copy[c])
        BY <1>2, <1>3 DEF TypeOK
      <4> QED BY <3>1, <4>1, <2>1, <2>2, <1>2, <1>3 DEF UpToDate
    <3>2. CASE d # c
      <4>1. sent'[d] = sent[d] /\ pc'[d] = pc[d]
        BY <3>2, <2>2 DEF Thread
      <4> QED BY <3>2, <4>1, <2>1, <1>2 DEF UpToDate
    <3> QED BY <3>1, <3>2
  <2>6. ResultIsStored'
    <3> SUFFICES ASSUME NEW d \in Client, sent'[d].status \in Terminal
                 PROVE  sent'[d] = Content(row)
      BY <1>2 DEF ResultIsStored, Content
    <3>1. CASE sent'[d] = sent[d]
      BY <3>1, <2>1, <1>7, <1>2 DEF ResultIsStored
    <3>2. CASE sent'[d] # sent[d]
      BY <3>2, <2>1, <2>2, <1>2 DEF ToldIsStored, Content
    <3> QED BY <3>1, <3>2
  <2> QED BY <2>3, <2>4, <2>5, <2>6
<1> QED BY <1>5, <1>6, <1>7 DEF StreamInv

\* A client that subscribes has a callback scheduled; one that disconnects stays
\* what it was; and a callback that runs leaves a signal in place of itself.
LEMMA SubscribePreserves ==
  ASSUME StreamInv, NEW c \in Client, Subscribe(c)
  PROVE  StreamInv'
<1>1. TypeOK /\ c \in Thread
  BY DEF StreamInv, Thread
<1>2. /\ pc' = [pc EXCEPT ![c] = "wait"] /\ subscribers' = subscribers \cup {c}
      /\ scheduled' = [scheduled EXCEPT ![c] = @ + 1] /\ pc[c] = "subscribe"
      /\ UNCHANGED <<provider, signal, sent, row, copy, gone, replaced>>
  BY DEF Subscribe, Goes
<1>3. TypeOK'
  BY <1>1, <1>2 DEF TypeOK, provider, PCs
<1>4. Ordered'
  BY <1>2 DEF StreamInv, Ordered, provider
<1>5. ASSUME ~replaced'
      PROVE  ToldIsStored' /\ EndIsFinal' /\ UpToDate' /\ ResultIsStored'
  <2>1. ToldIsStored /\ EndIsFinal /\ UpToDate /\ ResultIsStored
    BY <1>2, <1>5 DEF StreamInv
  <2>2. \A u \in Thread : pc'[u] = IF u = c THEN "wait" ELSE pc[u]
    BY <1>1, <1>2 DEF TypeOK
  <2>3. ToldIsStored' /\ EndIsFinal' /\ ResultIsStored'
    BY <2>1, <2>2, <1>2 DEF ToldIsStored, EndIsFinal, ResultIsStored, Content, Thread, InLock
  <2>4. scheduled'[c] > 0 /\ \A d \in Client : d # c => scheduled'[d] = scheduled[d]
    BY <1>1, <1>2 DEF TypeOK
  <2>5. \A d \in Client : d = c \/ Pending(d) => Pending(d)'
    BY <2>4, <1>2 DEF Pending, provider
  <2>6. UpToDate'
    <3> SUFFICES ASSUME NEW d \in Client
                 PROVE  /\ pc'[d] = "wait" => d \in subscribers' /\ (Pending(d)' \/ sent[d] = state)
                        /\ pc'[d] \in {"store", "send"} /\ d \in subscribers' /\ copy[d].status \notin Terminal =>
                             Pending(d)' \/ Content(copy[d]) = state
      BY <1>2 DEF UpToDate, provider, Content
    <3>1. d \in Thread
      BY DEF Thread
    <3>2. CASE d = c
      BY <3>1, <3>2, <2>2, <2>5, <1>2
    <3>3. CASE d # c
      BY <3>1, <3>3, <2>1, <2>2, <2>5, <1>2 DEF UpToDate
    <3> QED BY <3>2, <3>3
  <2> QED BY <2>3, <2>6
<1> QED BY <1>3, <1>4, <1>5 DEF StreamInv

LEMMA EnqueuePreserves ==
  ASSUME StreamInv, NEW c \in Client, Enqueue(c)
  PROVE  StreamInv'
<1>1. TypeOK
  BY DEF StreamInv
<1>2. /\ scheduled[c] > 0 /\ scheduled' = [scheduled EXCEPT ![c] = @ - 1]
      /\ signal' = [signal EXCEPT ![c] = TRUE]
      /\ UNCHANGED <<provider, subscribers, sent, row, pc, copy, gone, replaced>>
  BY DEF Enqueue
<1>3. TypeOK'
  BY <1>1, <1>2 DEF TypeOK, provider
<1>4. Ordered'
  BY <1>2 DEF StreamInv, Ordered, provider
<1>5. ASSUME ~replaced'
      PROVE  ToldIsStored' /\ EndIsFinal' /\ UpToDate' /\ ResultIsStored'
  <2>1. ToldIsStored /\ EndIsFinal /\ UpToDate /\ ResultIsStored
    BY <1>2, <1>5 DEF StreamInv
  <2>2. ToldIsStored' /\ EndIsFinal' /\ ResultIsStored'
    BY <2>1, <1>2 DEF ToldIsStored, EndIsFinal, ResultIsStored, Content
  <2>3. signal'[c] /\ \A d \in Client : d # c => scheduled'[d] = scheduled[d] /\ signal'[d] = signal[d]
    BY <1>1, <1>2 DEF TypeOK
  <2>4. \A d \in Client : Pending(d) => Pending(d)'
    BY <2>3, <1>2 DEF Pending, provider
  <2>5. UpToDate'
    BY <2>1, <2>4, <1>2 DEF UpToDate, Content, provider
  <2> QED BY <2>2, <2>5
<1> QED BY <1>3, <1>4, <1>5 DEF StreamInv

LEMMA DisconnectPreserves ==
  ASSUME StreamInv, NEW c \in Client, Disconnect(c)
  PROVE  StreamInv'
<1>1. UNCHANGED <<provider, loop, row, pc, copy, replaced>> /\ gone' \subseteq Client
  BY DEF StreamInv, TypeOK, Disconnect
<1>2. TypeOK' /\ Ordered'
  BY <1>1 DEF StreamInv, TypeOK, Ordered, provider, loop
<1>3. ASSUME ~replaced'
      PROVE  ToldIsStored' /\ EndIsFinal' /\ UpToDate' /\ ResultIsStored'
  <2>1. ToldIsStored /\ EndIsFinal /\ UpToDate /\ ResultIsStored
    BY <1>1, <1>3 DEF StreamInv
  <2> QED BY <2>1, <1>1 DEF ToldIsStored, EndIsFinal, UpToDate, ResultIsStored, Content, Pending, provider, loop
<1> QED BY <1>2, <1>3 DEF StreamInv

LEMMA StutterPreserves ==
  ASSUME StreamInv, UNCHANGED vars
  PROVE  StreamInv'
<1>1. UNCHANGED <<state, lines, ended, cancelling, toCall, subscribers, scheduled, signal, sent,
                  row, pc, copy, gone, replaced>>
  BY DEF vars, provider, loop
<1>2. TypeOK' /\ Ordered'
  BY <1>1 DEF StreamInv, TypeOK, Ordered
<1>3. (~replaced => ToldIsStored /\ EndIsFinal /\ UpToDate /\ ResultIsStored)'
  BY <1>1 DEF StreamInv, ToldIsStored, EndIsFinal, UpToDate, ResultIsStored, Content, Pending
<1> QED BY <1>2, <1>3 DEF StreamInv

LEMMA InitialStream == Init => StreamInv
<1> SUFFICES ASSUME Init
             PROVE  StreamInv
  OBVIOUS
<1>1. TypeOK
  <2>1. state \in Snapshot /\ row \in Row
    BY DEF Init, Snapshot, Row
  <2>2. /\ lines \in 0 .. MaxLines /\ ended \in BOOLEAN /\ replaced \in BOOLEAN
        /\ cancelling \subseteq Canceller /\ subscribers \subseteq Client /\ gone \subseteq Client
    <3>1. 0 \in 0 .. MaxLines
      BY MaxLinesAssumption
    <3> QED BY <3>1 DEF Init
  <2>3. pc \in [Thread -> PCs] /\ copy \in [Thread -> Row]
    BY <2>1 DEF Init, PCs
  <2>4. /\ toCall \in [Publisher -> SUBSET Client] /\ scheduled \in [Client -> Nat]
        /\ signal \in [Client -> BOOLEAN] /\ sent \in [Client -> Snapshot \cup {NotSent}]
    BY DEF Init
  <2> QED BY <2>1, <2>2, <2>3, <2>4 DEF TypeOK
<1>2. Ordered
  BY DEF Init, Ordered
<1>3. \A c \in Client : c \in Thread /\ pc[c] = "connect" /\ sent[c] = NotSent
  BY DEF Init, Thread
<1>4. \A t \in Thread : pc[t] \in {"connect", "idle"}
  BY DEF Init
<1>5. ToldIsStored
  BY <1>3 DEF Init, ToldIsStored, NotSent
<1>6. EndIsFinal
  BY <1>4 DEF EndIsFinal, InLock
<1>7. UpToDate
  BY <1>3 DEF UpToDate
<1>8. ResultIsStored
  BY <1>3 DEF ResultIsStored, NotSent, Terminal
<1> QED BY <1>1, <1>2, <1>5, <1>6, <1>7, <1>8 DEF StreamInv

LEMMA StepPreserves == StreamInv /\ [Next]_vars => StreamInv'
<1> SUFFICES ASSUME StreamInv, [Next]_vars
             PROVE  StreamInv'
  OBVIOUS
<1>1. CASE Progress \/ End \/ \E p \in Canceller : CancelCheck(p) \/ CancelSet(p)
  BY <1>1, ProviderPreserves
<1>2. CASE \E p \in Publisher, c \in Client : Notify(p, c)
  BY <1>2, NotifyPreserves
<1>3. ASSUME NEW t \in Thread, GetJob(t)
      PROVE  StreamInv'
  BY <1>3, StorePreserves, MarkPreserves, RereadingPreserves DEF GetJob
<1>4. CASE (\E t \in Thread : Poll(t)) \/ (\E c \in Client : Connect(c) \/ Wake(c))
  BY <1>4, StartPreserves
<1>5. ASSUME NEW c \in Client, Send(c) \/ Subscribe(c) \/ Enqueue(c) \/ Disconnect(c)
      PROVE  StreamInv'
  BY <1>5, SendPreserves, SubscribePreserves, EnqueuePreserves, DisconnectPreserves
<1>6. CASE UNCHANGED vars
  BY <1>6, StutterPreserves
<1> QED BY <1>1, <1>2, <1>3, <1>4, <1>5, <1>6 DEF Next, Stream

-----------------------------------------------------------------------------
\* The invariant of the streams holds in every reachable state, in whatever order
\* the threads publish, the event loop runs the callbacks and get_job is called.
THEOREM Invariance == Spec => []StreamInv
BY InitialStream, StepPreserves, PTL DEF Spec

\* The variables have their types: the count of scheduled callbacks never goes
\* below zero, and signals are Booleans however many changes there are.
THEOREM StreamsTyped == Spec => []TypeOK
<1>1. StreamInv => TypeOK
  BY DEF StreamInv
<1> QED BY <1>1, Invariance, PTL

\* A queue of length one is enough: the client of _enqueue_signal that waits with
\* nothing on its way has been sent the job as the provider has it.
THEOREM NothingLost == Spec => []NoLostUpdate
<1>1. StreamInv => NoLostUpdate
  BY DEF StreamInv, UpToDate, NoLostUpdate
<1> QED BY <1>1, Invariance, PTL

\* What stream_job sends as the result is what is stored, for every client.
THEOREM OneResult == Spec => []ResultIsStored
<1>1. StreamInv => ResultIsStored
  BY DEF StreamInv, ResultIsStored
<1> QED BY <1>1, Invariance, PTL

\* The snapshots that stream_job sends to a client never go back.
THEOREM OnlyForward == Spec => SnapshotsAdvance
<1>1. StreamInv /\ [Next]_vars => [replaced' \/ \A c \in Client : sent'[c].update >= sent[c].update]_vars
  <2> SUFFICES ASSUME StreamInv, [Next]_vars, ~replaced', NEW c \in Client
               PROVE  sent'[c].update >= sent[c].update
    OBVIOUS
  <2>1. sent \in [Client -> Snapshot \cup {NotSent}] /\ sent[c].update \in Nat
    BY DEF StreamInv, TypeOK, Snapshot, NotSent
  <2>2. CASE UNCHANGED sent
    BY <2>1, <2>2
  <2>3. ASSUME NEW d \in Client, Send(d)
        PROVE  sent'[c].update >= sent[c].update
    <3>1. ~replaced /\ pc[d] = "send" /\ (sent' = sent \/ sent' = [sent EXCEPT ![d] = Content(copy[d])])
      BY <2>3 DEF Send
    <3>2. sent[d].update <= copy[d].update
      BY <3>1 DEF StreamInv, ToldIsStored
    <3>3. CASE c = d /\ sent' = [sent EXCEPT ![d] = Content(copy[d])]
      <4>1. sent'[c].update = copy[d].update
        BY <2>1, <3>3 DEF Content
      <4>2. copy[d].update \in Nat
        BY DEF StreamInv, TypeOK, Row, Thread
      <4> QED BY <2>1, <3>2, <3>3, <4>1, <4>2
    <3>4. CASE c # d \/ sent' = sent
      BY <2>1, <3>1, <3>4
    <3> QED BY <3>1, <3>3, <3>4
  <2>4. (\E d \in Client : Send(d)) \/ UNCHANGED sent
    BY DEF Next, Progress, End, CancelCheck, CancelSet, Notify, GetJob, Store, Lock, Mark, Return, Poll,
           Stream, Connect, Subscribe, Wake, Enqueue, Disconnect, vars, loop
  <2> QED BY <2>2, <2>3, <2>4
<1> QED BY <1>1, Invariance, PTL DEF Spec, SnapshotsAdvance
=============================================================================
