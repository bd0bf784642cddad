-------------------------- MODULE DevBacklogProofs --------------------------
(***************************************************************************)
(* Proofs about DevBacklog: whatever the interleaving of reads, writes,    *)
(* renames and crashes, the state file never reports what did not happen.  *)
(***************************************************************************)
EXTENDS DevBacklog, TLAPS

\* Every version of the state that is somewhere, in the state file, in the
\* temporary file or in the hands of an actor, is truthful.
DiskOK ==
  /\ file \subseteq Content /\ tmp \subseteq Content
  /\ named \in BOOLEAN
  /\ fd \in [Actor -> {"none", "tmp", "file", "gone"}]
  /\ \A s \in file \cup tmp : Truthful(s)

\* The operations that have a chat in hand.
WithChat == {"bind", "prepare", "submit", "record"}

\* What an actor holds is truthful; its chat was created for the stage of its call,
\* and the kickoff is sent before it is recorded.
ActorOK(a) ==
  /\ todo[a] # "idle" => call[a] \in Call
  /\ phase[a] # "read" => todo[a] \in Updates
  /\ Truthful(copy[a])
  /\ todo[a] \in WithChat => /\ call[a].chat \in Chat
                             /\ owner[call[a].chat] = {StageOf[call[a].h]}
  /\ todo[a] = "record" => call[a].chat \in sent

ActorsOK ==
  /\ todo \in [Actor -> Todo]
  /\ phase \in [Actor -> Phases]
  /\ copy \in [Actor -> Content]
  /\ call \in [Actor -> Call \cup {NoCall}]
  /\ \A a \in Actor : ActorOK(a)

OutsideOK ==
  /\ worktree \subseteq Stage
  /\ owner \in [Chat -> SUBSET Stage]
  /\ sent \subseteq Chat
  /\ kickoffs \in [Stage -> 0..Many]
  /\ stray \subseteq Stage
  /\ accepted \subseteq Handoff
  /\ claimed \in [Handoff -> 0..Many]
  /\ seen \in {"nothing", "contention", "overlap"}

BacklogInv == DiskOK /\ ActorsOK /\ OutsideOK

\* What happened stays so.
Grows ==
  /\ worktree \subseteq worktree'
  /\ sent \subseteq sent'
  /\ \A c \in Chat : owner[c] # {} => owner'[c] = owner[c]

-----------------------------------------------------------------------------
(* Lemmas.                                                                  *)

LEMMA Kept == UNCHANGED external => Grows
BY DEF external, Grows

\* What is true stays true.
LEMMA StaysTruthful ==
  ASSUME NEW s \in Content, Truthful(s), Grows
  PROVE  Reports(s, worktree', owner', sent')
<1>1. \A st \in Stage : \A c \in s.bound[st] \cup s.runs[st] : c \in Chat
  BY DEF Content
<1>2. \A st \in Stage : \A c \in s.runs[st] \cup s.bound[st] : owner'[c] = {st}
  BY <1>1 DEF Truthful, Reports, Grows
<1>3. /\ \A h \in Handoff : s.item[h] = "materialized" => StageOf[h] \in worktree'
      /\ s.stages \subseteq worktree'
      /\ \A st \in Stage : s.runs[st] \subseteq sent'
  BY DEF Truthful, Reports, Grows
<1> QED BY <1>2, <1>3 DEF Reports

LEMMA EmptyTruthful ==
  Empty \in Content /\ Truthful(Empty) /\ Reports(Empty, worktree', owner', sent')
<1>1. Empty \in Content BY DEF Empty, Content, Statuses
<1>2. Truthful(Empty) /\ Reports(Empty, worktree', owner', sent')
  BY DEF Empty, Truthful, Reports
<1> QED BY <1>1, <1>2

\* What is read is truthful.
LEMMA ReadingsTruthful ==
  ASSUME DiskOK PROVE Readings \subseteq Content /\ \A s \in Readings : Truthful(s)
BY EmptyTruthful DEF Readings, DiskOK

\* The disk stays as it is.
LEMMA DiskKept ==
  ASSUME DiskOK, Grows, UNCHANGED disk PROVE DiskOK'
<1>1. \A s \in file \cup tmp : Reports(s, worktree', owner', sent')
  BY StaysTruthful DEF DiskOK
<1>2. \A s \in (file \cup tmp)' : Truthful(s)' BY <1>1 DEF Truthful, disk
<1> QED BY <1>2 DEF DiskOK, disk

\* An actor that does nothing keeps what is said of it.
LEMMA OthersKeep ==
  ASSUME ActorsOK, Grows, NEW b \in Actor,
         todo'[b] = todo[b], phase'[b] = phase[b], copy'[b] = copy[b], call'[b] = call[b]
  PROVE  ActorOK(b)'
<1>1. Reports(copy'[b], worktree', owner', sent') BY StaysTruthful DEF ActorsOK, ActorOK
<1>2. Truthful(copy[b])' BY <1>1 DEF Truthful
<1>3. todo'[b] \in WithChat => /\ call'[b].chat \in Chat
                               /\ owner'[call'[b].chat] = {StageOf[call'[b].h]}
  BY DEF ActorsOK, ActorOK, Grows
<1>4. todo'[b] = "record" => call'[b].chat \in sent'
  BY DEF ActorsOK, ActorOK, Grows
<1> QED BY <1>2, <1>3, <1>4 DEF ActorsOK, ActorOK

\* An actor turns to an operation.
LEMMA TurnsKeeps ==
  ASSUME ActorsOK, Grows, NEW a \in Actor, NEW op \in Todo, NEW c,
         op # "idle" => c \in Call,
         op \in WithChat => c.chat \in Chat /\ owner'[c.chat] = {StageOf[c.h]},
         op = "record" => c.chat \in sent',
         Turns(a, op, c)
  PROVE  ActorsOK'
<1>1. /\ todo' \in [Actor -> Todo]
      /\ phase' \in [Actor -> Phases]
      /\ copy' \in [Actor -> Content]
      /\ call' \in [Actor -> Call \cup {NoCall}]
  BY EmptyTruthful DEF ActorsOK, Turns, Phases
<1>2. ASSUME NEW b \in Actor PROVE ActorOK(b)'
  <2>1. CASE b = a
    <3>1. /\ todo'[a] = op /\ phase'[a] = "read" /\ copy'[a] = Empty
          /\ op # "idle" => call'[a] = c
      BY DEF Turns, ActorsOK
    <3>2. "idle" \notin WithChat BY DEF WithChat
    <3>3. Truthful(copy[a])' BY <3>1, EmptyTruthful DEF Truthful
    <3> QED BY <2>1, <3>1, <3>2, <3>3 DEF ActorOK
  <2>2. CASE b # a
    <3>1. /\ todo'[b] = todo[b] /\ phase'[b] = phase[b] /\ copy'[b] = copy[b]
          /\ call'[b] = call[b]
      BY <2>2 DEF Turns, ActorsOK
    <3> QED BY <3>1, OthersKeep
  <2> QED BY <2>1, <2>2
<1> QED BY <1>1, <1>2 DEF ActorsOK

\* An actor has read the state, and is going to write s.
LEMMA HoldsKeeps ==
  ASSUME ActorsOK, UNCHANGED external, NEW a \in Actor, NEW op \in Updates,
         NEW s \in Content, Truthful(s), NEW c \in Call,
         op \in WithChat => c.chat \in Chat /\ owner[c.chat] = {StageOf[c.h]},
         op = "record" => c.chat \in sent,
         Holds(a, op, s, c)
  PROVE  ActorsOK'
<1>0. Grows BY Kept
<1>1. /\ todo' \in [Actor -> Todo]
      /\ phase' \in [Actor -> Phases]
      /\ copy' \in [Actor -> Content]
      /\ call' \in [Actor -> Call \cup {NoCall}]
  BY DEF ActorsOK, Holds, Phases, Todo
<1>2. ASSUME NEW b \in Actor PROVE ActorOK(b)'
  <2>1. CASE b = a
    <3>1. todo'[a] = op /\ copy'[a] = s /\ call'[a] = c BY DEF Holds, ActorsOK
    <3>2. Truthful(copy[a])' BY <3>1 DEF Truthful, external
    <3> QED BY <2>1, <3>1, <3>2 DEF ActorOK, external
  <2>2. CASE b # a
    <3>1. /\ todo'[b] = todo[b] /\ phase'[b] = phase[b] /\ copy'[b] = copy[b]
          /\ call'[b] = call[b]
      BY <2>2 DEF Holds, ActorsOK
    <3> QED BY <1>0, <3>1, OthersKeep
  <2> QED BY <2>1, <2>2
<1> QED BY <1>1, <1>2 DEF ActorsOK

\* The two ways of going on, with everything else as it is.
LEMMA TurnStep ==
  ASSUME BacklogInv, NEW a \in Actor, NEW op \in Todo, NEW c,
         op # "idle" => c \in Call,
         op \in WithChat => c.chat \in Chat /\ owner'[c.chat] = {StageOf[c.h]},
         op = "record" => c.chat \in sent',
         Turns(a, op, c), Grows, UNCHANGED disk, OutsideOK'
  PROVE  BacklogInv'
BY DiskKept, TurnsKeeps DEF BacklogInv

LEMMA HoldStep ==
  ASSUME BacklogInv, NEW a \in Actor, NEW op \in Updates,
         NEW s \in Content, Truthful(s), NEW c \in Call,
         op \in WithChat => c.chat \in Chat /\ owner[c.chat] = {StageOf[c.h]},
         op = "record" => c.chat \in sent,
         Holds(a, op, s, c), UNCHANGED <<disk, external, accepted, claimed>>
  PROVE  BacklogInv'
<1>1. UNCHANGED disk /\ UNCHANGED external /\ Grows BY Kept
<1>2. OutsideOK' BY DEF BacklogInv, OutsideOK, external, Holds
<1> QED BY <1>1, <1>2, DiskKept, HoldsKeeps DEF BacklogInv

LEMMA CallFields ==
  ASSUME ActorsOK, NEW a \in Actor, todo[a] # "idle"
  PROVE  call[a] \in Call /\ Item(a) \in Handoff /\ Here(a) \in Stage
BY StageAssumption DEF ActorsOK, ActorOK, Call, Item, Here

LEMMA OutsideKept == ASSUME OutsideOK, UNCHANGED <<external, ghosts>> PROVE OutsideOK'
BY DEF OutsideOK, external, ghosts

\* What a handoff is given that is not materialized reports nothing more.
LEMMA ItemTruthful ==
  ASSUME NEW s \in Content, Truthful(s), NEW h \in Handoff,
         NEW status \in Statuses \ {"materialized"}, NEW w \in Worker \cup {NoWorker}
  PROVE  LET new == [s EXCEPT !.item[h] = status, !.lock[h] = w]
             same == [s EXCEPT !.item[h] = status]
         IN  new \in Content /\ Truthful(new) /\ same \in Content /\ Truthful(same)
<1> DEFINE new == [s EXCEPT !.item[h] = status, !.lock[h] = w]
           same == [s EXCEPT !.item[h] = status]
<1>1. new \in Content /\ same \in Content BY DEF Content
<1>2. \A x \in {new, same} : /\ x.stages = s.stages /\ x.runs = s.runs /\ x.bound = s.bound
                            /\ x.item = [s.item EXCEPT ![h] = status]
  BY DEF Content
<1>3. \A x \in {new, same} : Truthful(x)
  <2>1. SUFFICES ASSUME NEW x \in {new, same}
                 PROVE  Truthful(x)
    OBVIOUS
  <2>2. s.item \in [Handoff -> Statuses] BY DEF Content
  <2>3. \A g \in Handoff : x.item[g] = "materialized" => s.item[g] = "materialized"
    BY <1>2, <2>2
  <2> QED BY <1>2, <2>3 DEF Truthful, Reports
<1> QED BY <1>1, <1>3

-----------------------------------------------------------------------------
(* Requests and ticks.                                                      *)

LEMMA AskedCall ==
  ASSUME NEW h \in Handoff, NEW w \in Worker, NEW go \in BOOLEAN
  PROVE  Asked(h, w, go) \in Call
BY DEF Asked, Call

LEMMA ServeKeeps ==
  ASSUME BacklogInv, NEW h \in Handoff, Serve(h) PROVE BacklogInv'
<1>0. Readings \subseteq Content /\ \A s \in Readings : Truthful(s)
  BY ReadingsTruthful DEF BacklogInv
<1>1. CASE Enqueue(h)
  <2>1. PICK s \in Readings :
          Holds(Prod, "enqueue", [s EXCEPT !.item[h] = "queued", !.lock[h] = NoWorker],
                Asked(h, AutoWorker, FALSE))
    BY <1>1 DEF Enqueue
  <2>2. "enqueue" \in Updates /\ "enqueue" \notin WithChat /\ "queued" \in Statuses
    BY DEF Updates, WithChat, Statuses
  <2>3. Asked(h, AutoWorker, FALSE) \in Call BY AskedCall, WorkerAssumption
  <2>4. LET new == [s EXCEPT !.item[h] = "queued", !.lock[h] = NoWorker]
        IN  new \in Content /\ Truthful(new)
    BY <1>0, <2>2, ItemTruthful
  <2>5. UNCHANGED <<disk, external, accepted, claimed>> BY <1>1 DEF Enqueue
  <2> QED BY <2>1, <2>2, <2>3, <2>4, <2>5, HoldStep DEF Actor
<1>2. ASSUME NEW w \in Worker, Pick(h, w) PROVE BacklogInv'
  <2>1. PICK s \in Readings : Holds(Loop, "pick", ClaimedBy(s, h, w), Asked(h, w, FALSE))
    BY <1>2 DEF Pick
  <2>2. "pick" \in Updates /\ "pick" \notin WithChat /\ "claimed" \in Statuses
    BY DEF Updates, WithChat, Statuses
  <2>3. ClaimedBy(s, h, w) \in Content /\ Truthful(ClaimedBy(s, h, w))
    BY <1>0, <2>2, ItemTruthful DEF ClaimedBy
  <2>4. UNCHANGED <<disk, external, accepted, claimed>> BY <1>2 DEF Pick
  <2> QED BY <2>1, <2>2, <2>3, <2>4, AskedCall, HoldStep DEF Actor
<1>3. ASSUME NEW a \in Actor, NEW op \in {"claim", "materialize"}, NEW c \in Call,
             Turns(a, op, c), UNCHANGED <<disk, external, ghosts>>
      PROVE  BacklogInv'
  <2>1. op \in Todo /\ op \notin WithChat /\ op # "record"
    BY DEF Todo, Updates, WithChat
  <2>2. Grows /\ OutsideOK' BY <1>3, Kept, OutsideKept DEF BacklogInv
  <2> QED BY <1>3, <2>1, <2>2, TurnStep
<1>4. CASE Notify(h)
  BY <1>3, <1>4, AskedCall, WorkerAssumption DEF Notify, Actor
<1>5. CASE Tick(h)
  BY <1>3, <1>5, AskedCall, WorkerAssumption DEF Tick, Actor
<1>6. ASSUME NEW w \in Worker, AskMaterialize(h, w) PROVE BacklogInv'
  BY <1>3, <1>6, AskedCall DEF AskMaterialize, Actor
<1> QED BY <1>1, <1>2, <1>4, <1>5, <1>6 DEF Serve

LEMMA EnqueueAgainKeeps ==
  ASSUME BacklogInv, NEW h \in Handoff, EnqueueAgain(h) PROVE BacklogInv'
<1>1. UNCHANGED disk /\ UNCHANGED external /\ Grows
  BY Kept DEF EnqueueAgain
<1>2. DiskOK' BY <1>1, DiskKept DEF BacklogInv
<1>3. ActorsOK'
  BY <1>1, OthersKeep DEF BacklogInv, ActorsOK, EnqueueAgain
<1>4. OutsideOK' BY DEF BacklogInv, OutsideOK, EnqueueAgain, external
<1> QED BY <1>2, <1>3, <1>4 DEF BacklogInv

-----------------------------------------------------------------------------
(* Claims and materialization.                                              *)

\* An actor goes on with an operation that has no chat in hand, or stops.
LEMMA IdleOrCalled ==
  ASSUME BacklogInv, NEW a \in Actor, NEW op \in Todo \ WithChat, NEW c,
         op # "idle" => c \in Call,
         Turns(a, op, c), UNCHANGED <<disk, external, accepted, claimed>>,
         seen' \in {"nothing", "contention", "overlap"}
  PROVE  BacklogInv'
<1>1. op # "record" BY DEF WithChat
<1>2. Grows /\ UNCHANGED disk BY Kept
<1>3. OutsideOK' BY DEF BacklogInv, OutsideOK, external
<1> QED BY <1>1, <1>2, <1>3, TurnStep

LEMMA TodoNames ==
  /\ {"idle", "look", "note", "complain", "materialize"} \subseteq Todo \ WithChat
  /\ {"claim", "materialize", "enqueue", "pick", "note", "complain"}
       \subseteq Updates \ WithChat
  /\ {"bind", "prepare", "submit", "record"} \subseteq Todo \cap WithChat
  /\ {"bind", "record"} \subseteq Updates
  /\ {"look"} \cup WithChat = Starting
BY DEF Todo, Updates, Starting, WithChat

\* What begins has seen another value of seen, or the same.
LEMMA BeginsTurns ==
  ASSUME BacklogInv, NEW a \in Actor, NEW op, Begins(a, op)
  PROVE  Turns(a, op, call[a]) /\ seen' \in {"nothing", "contention", "overlap"}
BY DEF BacklogInv, OutsideOK, Begins

LEMMA SeenKept ==
  ASSUME BacklogInv, UNCHANGED ghosts
  PROVE  /\ seen' \in {"nothing", "contention", "overlap"}
         /\ UNCHANGED <<accepted, claimed>>
BY DEF BacklogInv, OutsideOK, ghosts

\* A materialization ends, well or badly, and its copy is ready to be written.
LEMMA ChangesKeeps ==
  ASSUME BacklogInv, NEW a \in Actor, phase[a] = "git", NEW s \in Content,
         worktree \subseteq worktree', worktree' \subseteq Stage,
         Reports(s, worktree', owner, sent), Changes(a, s)
  PROVE  BacklogInv'
<1>1. UNCHANGED disk /\ Grows BY DEF Changes, Grows
<1>2. DiskOK' BY <1>1, DiskKept DEF BacklogInv
<1>3. OutsideOK' BY DEF BacklogInv, OutsideOK, Changes, ghosts
<1>4. ActorsOK'
  <2>1. /\ todo' \in [Actor -> Todo]
        /\ phase' \in [Actor -> Phases]
        /\ copy' \in [Actor -> Content]
        /\ call' \in [Actor -> Call \cup {NoCall}]
    BY DEF BacklogInv, ActorsOK, Changes, Phases
  <2>2. ASSUME NEW b \in Actor PROVE ActorOK(b)'
    <3>1. CASE b = a
      <4>1. copy'[a] = s /\ todo'[a] = todo[a] /\ call'[a] = call[a]
        BY DEF Changes, BacklogInv, ActorsOK
      <4>2. Truthful(copy[a])' BY <4>1 DEF Changes, Truthful
      <4>3. todo[a] \in Updates BY DEF BacklogInv, ActorsOK, ActorOK
      <4>4. UNCHANGED <<owner, sent>> BY DEF Changes
      <4> QED BY <3>1, <4>1, <4>2, <4>3, <4>4 DEF BacklogInv, ActorsOK, ActorOK
    <3>2. CASE b # a
      <4>1. /\ todo'[b] = todo[b] /\ phase'[b] = phase[b] /\ copy'[b] = copy[b]
            /\ call'[b] = call[b]
        BY <3>2 DEF Changes, BacklogInv, ActorsOK
      <4> QED BY <1>1, <4>1, OthersKeep DEF BacklogInv
    <3> QED BY <3>1, <3>2
  <2> QED BY <2>1, <2>2 DEF ActorsOK
<1> QED BY <1>2, <1>3, <1>4 DEF BacklogInv

LEMMA TakeItemKeeps ==
  ASSUME BacklogInv, NEW a \in Actor, TakeItem(a) PROVE BacklogInv'
<1>0. Readings \subseteq Content /\ \A s \in Readings : Truthful(s)
  BY ReadingsTruthful DEF BacklogInv
<1>a. todo[a] # "idle" => /\ call[a] \in Call /\ Item(a) \in Handoff /\ Here(a) \in Stage
                          /\ call[a].w \in Worker
  BY CallFields DEF BacklogInv, Call
<1>1. CASE Claim(a)
  <2>1. PICK s \in Readings : Holds(a, "claim", ClaimedBy(s, Item(a), call[a].w), call[a])
    BY <1>1 DEF Claim
  <2>2. "claimed" \in Statuses \ {"materialized"} BY DEF Statuses
  <2>3. todo[a] = "claim" /\ UNCHANGED <<disk, external, accepted, claimed>>
    BY <1>1 DEF Claim
  <2>4. LET new == ClaimedBy(s, Item(a), call[a].w) IN new \in Content /\ Truthful(new)
    BY <1>0, <1>a, <2>2, <2>3, ItemTruthful DEF ClaimedBy
  <2>5. "claim" \in Updates /\ "claim" \notin WithChat BY TodoNames
  <2> QED BY <1>a, <2>1, <2>3, <2>4, <2>5, HoldStep
<1>2. CASE ClaimDone(a)
  <2>1. PICK op \in {"look", "idle"} : Begins(a, op) BY <1>2 DEF ClaimDone
  <2>2. todo[a] # "idle" /\ UNCHANGED <<disk, external, accepted, claimed>>
    BY <1>2 DEF ClaimDone
  <2> QED BY <1>a, <2>1, <2>2, TodoNames, BeginsTurns, IdleOrCalled
<1>3. CASE ClaimRefused(a)
  <2>1. Turns(a, "idle", NoCall) /\ UNCHANGED <<disk, external>> /\ UNCHANGED ghosts
    BY <1>3 DEF ClaimRefused
  <2> QED BY <2>1, TodoNames, SeenKept, IdleOrCalled
<1>4. CASE Materialize(a)
  <2>1. PICK s \in Readings : Holds(a, "materialize", s, call[a]) BY <1>4 DEF Materialize
  <2>2. todo[a] # "idle" /\ UNCHANGED <<disk, external, accepted, claimed>>
    BY <1>4 DEF Materialize
  <2> QED BY <1>0, <1>a, <2>1, <2>2, TodoNames, HoldStep
<1>5. CASE MaterializeDone(a)
  <2>1. PICK op \in {"look", "idle"} : Begins(a, op) BY <1>5 DEF MaterializeDone
  <2>2. todo[a] # "idle" /\ UNCHANGED <<disk, external, accepted, claimed>>
    BY <1>5 DEF MaterializeDone
  <2> QED BY <1>a, <2>1, <2>2, TodoNames, BeginsTurns, IdleOrCalled
<1>6. CASE MaterializeRefused(a)
  <2>1. Turns(a, "idle", NoCall) /\ UNCHANGED <<disk, external>> /\ UNCHANGED ghosts
    BY <1>6 DEF MaterializeRefused
  <2> QED BY <2>1, TodoNames, SeenKept, IdleOrCalled
<1>b. phase[a] = "git" => todo[a] # "idle" /\ copy[a] \in Content /\ Truthful(copy[a])
  BY DEF BacklogInv, ActorsOK, ActorOK, Updates
<1>7. CASE Materialized(a)
  <2> DEFINE s == MaterializedIn(copy[a], Item(a))
  <2>1. phase[a] = "git" /\ worktree' = worktree \cup {Here(a)} /\ Changes(a, s)
    BY <1>7 DEF Materialized
  <2>2. worktree' \subseteq Stage /\ worktree \subseteq worktree'
    BY <1>a, <1>b, <2>1 DEF BacklogInv, OutsideOK
  <2>3. /\ s \in Content
        /\ s.stages = copy[a].stages \cup {Here(a)}
        /\ s.item = [copy[a].item EXCEPT ![Item(a)] = "materialized"]
        /\ s.runs = copy[a].runs /\ s.bound = copy[a].bound
    BY <1>a, <1>b, <2>1 DEF MaterializedIn, Content, Statuses, Here, Item
  <2>4. copy[a].item \in [Handoff -> Statuses] BY <1>b, <2>1 DEF Content
  <2>5. \A h \in Handoff : s.item[h] = "materialized" => StageOf[h] \in worktree'
    BY <1>a, <1>b, <2>1, <2>3, <2>4 DEF Truthful, Reports, Here, Item
  <2>6. Reports(s, worktree', owner, sent)
    BY <1>b, <2>1, <2>3, <2>5 DEF Truthful, Reports
  <2> HIDE DEF s
  <2> QED BY <2>1, <2>2, <2>3, <2>6, ChangesKeeps
<1>8. CASE Blocked(a)
  <2> DEFINE s == [copy[a] EXCEPT !.item[Item(a)] = "blocked"]
  <2>1. /\ phase[a] = "git" /\ Changes(a, s)
        /\ worktree' \in {worktree, worktree \cup {Here(a)}}
    BY <1>8 DEF Blocked
  <2>2. worktree' \subseteq Stage /\ worktree \subseteq worktree'
    BY <1>a, <1>b, <2>1 DEF BacklogInv, OutsideOK
  <2>3. "blocked" \in Statuses \ {"materialized"} BY DEF Statuses
  <2>4. NoWorker \in Worker \cup {NoWorker} OBVIOUS
  <2>5. s \in Content /\ Truthful(s) BY <1>a, <1>b, <2>1, <2>3, <2>4, ItemTruthful
  <2> HIDE DEF s
  <2>6. Reports(s, worktree', owner, sent) BY <2>2, <2>5 DEF Truthful, Reports
  <2> QED BY <2>1, <2>2, <2>5, <2>6, ChangesKeeps
<1> QED BY <1>1, <1>2, <1>3, <1>4, <1>5, <1>6, <1>7, <1>8 DEF TakeItem

-----------------------------------------------------------------------------
(* The chat of a stage.                                                     *)

\* An exception ends the operation, or leads to a complaint; what happened in
\* worktrees and chats stays.
LEMMA RaisesOutside ==
  ASSUME BacklogInv, NEW a \in Actor, Raises(a), UNCHANGED <<worktree, owner, sent, ghosts>>
  PROVE  OutsideOK' /\ Grows
<1>1. kickoffs' \in [Stage -> 0..Many] /\ stray' \subseteq Stage
  <2>1. CASE todo[a] = "record"
    <3>1. Here(a) \in Stage BY <2>1, CallFields DEF BacklogInv
    <3> QED BY <2>1, <3>1 DEF Raises, Forgets, BacklogInv, OutsideOK, Many
  <2>2. CASE todo[a] # "record" BY <2>2 DEF Raises, BacklogInv, OutsideOK
  <2> QED BY <2>1, <2>2
<1>2. OutsideOK' BY <1>1 DEF BacklogInv, OutsideOK, ghosts
<1>3. Grows BY DEF Grows
<1> QED BY <1>2, <1>3

LEMMA RaisesKeeps ==
  ASSUME BacklogInv, NEW a \in Actor, Raises(a), UNCHANGED <<disk, worktree, owner, sent, ghosts>>
  PROVE  BacklogInv'
<1>1. PICK op \in {"complain", "idle"} : /\ Turns(a, op, call[a])
                                         /\ op # "idle" => todo[a] # "idle"
  BY DEF Raises, Starting
<1>2. todo[a] # "idle" => call[a] \in Call BY CallFields DEF BacklogInv
<1>3. OutsideOK' /\ Grows BY RaisesOutside
<1>4. op \in Todo /\ op \notin WithChat /\ op # "record" BY TodoNames
<1> QED BY <1>1, <1>2, <1>3, <1>4, TurnStep

\* An actor goes on with a chat that was created for the stage of its call.
LEMMA ChatStep ==
  ASSUME BacklogInv, NEW a \in Actor, NEW op \in WithChat, NEW c \in Call,
         Turns(a, op, c), Grows, UNCHANGED disk, OutsideOK',
         c.chat \in Chat /\ owner'[c.chat] = {StageOf[c.h]},
         op = "record" => c.chat \in sent'
  PROVE  BacklogInv'
<1>1. op \in Todo BY TodoNames DEF WithChat
<1> QED BY <1>1, TurnStep

LEMMA ChatNamed ==
  ASSUME NEW x \in Call, NEW c \in Chat
  PROVE  LET new == [x EXCEPT !.chat = c] IN new \in Call /\ new.chat = c /\ new.h = x.h
BY DEF Call

\* A chat is looked for, found or created.
LEMMA LookKeeps ==
  ASSUME BacklogInv, NEW a \in Actor, FindRun(a) \/ FindChat(a) \/ CreateChat(a)
  PROVE  BacklogInv'
<1>0. Readings \subseteq Content /\ \A s \in Readings : Truthful(s)
  BY ReadingsTruthful DEF BacklogInv
<1>a. todo[a] # "idle" /\ call[a] \in Call /\ Item(a) \in Handoff /\ Here(a) \in Stage
  BY CallFields DEF BacklogInv, FindRun, FindChat, CreateChat
<1>1. CASE FindRun(a)
  <2>1. Turns(a, "note", call[a]) /\ UNCHANGED <<disk, external>> /\ UNCHANGED ghosts
    BY <1>1 DEF FindRun
  <2> QED BY <1>a, <2>1, TodoNames, SeenKept, IdleOrCalled
<1>2. CASE FindChat(a)
  <2>1. PICK s \in Readings : \E c \in s.bound[Here(a)] :
               Turns(a, "bind", [call[a] EXCEPT !.chat = c])
    BY <1>2 DEF FindChat
  <2>2. PICK c \in s.bound[Here(a)] : Turns(a, "bind", [call[a] EXCEPT !.chat = c])
    BY <2>1
  <2>3. c \in Chat /\ owner[c] = {Here(a)}
    BY <1>0, <1>a DEF Content, Truthful, Reports
  <2>4. UNCHANGED disk /\ UNCHANGED external /\ UNCHANGED ghosts BY <1>2 DEF FindChat
  <2>5. Grows /\ OutsideOK' /\ UNCHANGED owner
    BY <2>4, Kept, OutsideKept DEF BacklogInv, external
  <2>6. "bind" \in WithChat BY DEF WithChat
  <2> QED BY <1>a, <2>2, <2>3, <2>4, <2>5, <2>6, ChatNamed, ChatStep DEF Here
<1>3. CASE CreateChat(a)
  <2>1. PICK c \in Chat : /\ owner[c] = {}
                          /\ owner' = [owner EXCEPT ![c] = {Here(a)}]
                          /\ Turns(a, "bind", [call[a] EXCEPT !.chat = c])
    BY <1>3 DEF CreateChat
  <2>2. UNCHANGED <<worktree, sent, kickoffs, stray>> /\ UNCHANGED ghosts /\ UNCHANGED disk
    BY <1>3 DEF CreateChat
  <2>3. owner'[c] = {Here(a)} BY <2>1 DEF BacklogInv, OutsideOK
  <2>4. Grows BY <2>1, <2>2 DEF Grows, BacklogInv, OutsideOK
  <2>5. OutsideOK' BY <1>a, <2>1, <2>2 DEF BacklogInv, OutsideOK, ghosts
  <2>6. "bind" \in WithChat BY DEF WithChat
  <2> QED BY <1>a, <2>1, <2>2, <2>3, <2>4, <2>5, <2>6, ChatNamed, ChatStep DEF Here
<1> QED BY <1>1, <1>2, <1>3

\* A binding, or a run, is added to the state that was read.
LEMMA AddsTruthful ==
  ASSUME BacklogInv, NEW s \in Content, Truthful(s), NEW st \in Stage, NEW c \in Chat,
         owner[c] = {st}
  PROVE  LET b == [s EXCEPT !.bound[st] = @ \cup {c}]
             r == [s EXCEPT !.runs[st] = @ \cup {c}]
         IN  /\ b \in Content /\ Truthful(b)
             /\ r \in Content /\ (c \in sent => Truthful(r))
<1> DEFINE b == [s EXCEPT !.bound[st] = @ \cup {c}]
           r == [s EXCEPT !.runs[st] = @ \cup {c}]
<1>1. /\ s.bound \in [Stage -> SUBSET Chat] /\ s.runs \in [Stage -> SUBSET Chat]
      /\ b \in Content /\ r \in Content
      /\ b.item = s.item /\ b.stages = s.stages /\ b.runs = s.runs
      /\ b.bound = [s.bound EXCEPT ![st] = @ \cup {c}]
      /\ r.item = s.item /\ r.stages = s.stages /\ r.bound = s.bound
      /\ r.runs = [s.runs EXCEPT ![st] = @ \cup {c}]
  BY DEF Content
<1> HIDE DEF b, r
<1>2. \A x \in Stage : b.bound[x] \subseteq s.bound[x] \cup (IF x = st THEN {c} ELSE {})
  BY <1>1
<1>3. Truthful(b) BY <1>1, <1>2 DEF Truthful, Reports
<1>4. \A x \in Stage : r.runs[x] \subseteq s.runs[x] \cup (IF x = st THEN {c} ELSE {})
  BY <1>1
<1>5. c \in sent => Truthful(r) BY <1>1, <1>4 DEF Truthful, Reports
<1> QED BY <1>1, <1>3, <1>5 DEF b, r

\* The chat is bound, the stage prepared, the kickoff submitted and recorded.
LEMMA RunKeeps ==
  ASSUME BacklogInv, NEW a \in Actor,
         Bind(a) \/ Prepare(a) \/ Submit(a) \/ SubmitRaises(a) \/ Record(a)
  PROVE  BacklogInv'
<1>0. Readings \subseteq Content /\ \A s \in Readings : Truthful(s)
  BY ReadingsTruthful DEF BacklogInv
<1>a. todo[a] \in WithChat /\ todo[a] # "idle"
  BY DEF Bind, Prepare, Submit, SubmitRaises, Record, WithChat
<1>b. call[a] \in Call /\ Item(a) \in Handoff /\ Here(a) \in Stage
  BY <1>a, CallFields DEF BacklogInv
<1>c. /\ call[a].chat \in Chat /\ owner[call[a].chat] = {StageOf[call[a].h]}
      /\ todo[a] = "record" => call[a].chat \in sent
  BY <1>a DEF BacklogInv, ActorsOK, ActorOK
<1>d. {"bind", "submit", "record"} \subseteq WithChat /\ {"bind", "record"} \subseteq Updates
  BY DEF WithChat, Updates
<1>1. CASE Bind(a)
  <2>1. PICK s \in Readings :
               Holds(a, "bind", [s EXCEPT !.bound[Here(a)] = @ \cup {call[a].chat}], call[a])
    BY <1>1 DEF Bind
  <2>2. LET new == [s EXCEPT !.bound[Here(a)] = @ \cup {call[a].chat}]
        IN  new \in Content /\ Truthful(new)
    BY <1>0, <1>b, <1>c, AddsTruthful DEF Here
  <2>3. UNCHANGED <<disk, external, accepted, claimed>> BY <1>1 DEF Bind
  <2> QED BY <1>b, <1>c, <1>d, <2>1, <2>2, <2>3, HoldStep
<1>2. CASE Prepare(a)
  <2>1. Turns(a, "submit", call[a]) /\ UNCHANGED <<disk, external, ghosts>>
    BY <1>2 DEF Prepare
  <2>2. Grows /\ UNCHANGED disk /\ OutsideOK' /\ UNCHANGED owner
    BY <2>1, Kept, OutsideKept DEF BacklogInv, external
  <2> QED BY <1>b, <1>c, <1>d, <2>1, <2>2, ChatStep
<1>3. CASE Submit(a)
  <2>1. /\ Turns(a, "record", call[a]) /\ UNCHANGED disk /\ UNCHANGED <<worktree, owner, stray>>
        /\ sent' = sent \cup {call[a].chat} /\ UNCHANGED ghosts
        /\ kickoffs' = [kickoffs EXCEPT ![Here(a)] = More(@)]
    BY <1>3 DEF Submit
  <2>2. Grows BY <2>1 DEF Grows
  <2>3. kickoffs' \in [Stage -> 0..Many]
    BY <1>b, <2>1 DEF BacklogInv, OutsideOK, More, Many
  <2>4. OutsideOK' BY <1>c, <2>1, <2>3 DEF BacklogInv, OutsideOK, ghosts
  <2> QED BY <1>b, <1>c, <1>d, <2>1, <2>2, <2>4, ChatStep
<1>4. CASE Record(a)
  <2>1. PICK s \in Readings :
               Holds(a, "record", [s EXCEPT !.runs[Here(a)] = @ \cup {call[a].chat}], call[a])
    BY <1>4 DEF Record
  <2>2. call[a].chat \in sent BY <1>4, <1>c DEF Record
  <2>3. LET new == [s EXCEPT !.runs[Here(a)] = @ \cup {call[a].chat}]
        IN  new \in Content /\ Truthful(new)
    BY <1>0, <1>b, <1>c, <2>2, AddsTruthful DEF Here
  <2>4. UNCHANGED <<disk, external, accepted, claimed>> BY <1>4 DEF Record
  <2> QED BY <1>b, <1>c, <1>d, <2>1, <2>2, <2>3, <2>4, HoldStep
<1>5. CASE SubmitRaises(a)
  <2>1. /\ Turns(a, "complain", call[a]) /\ UNCHANGED disk /\ UNCHANGED <<worktree, owner>>
        /\ sent' = sent \cup {call[a].chat} /\ UNCHANGED ghosts
        /\ kickoffs' = [kickoffs EXCEPT ![Here(a)] = 0] /\ stray' = stray \cup {Here(a)}
    BY <1>5 DEF SubmitRaises, Forgets
  <2>2. Grows BY <2>1 DEF Grows
  <2>3. kickoffs' \in [Stage -> 0..Many] /\ stray' \subseteq Stage
    BY <1>b, <2>1 DEF BacklogInv, OutsideOK, Many
  <2>4. OutsideOK' BY <1>c, <2>1, <2>3 DEF BacklogInv, OutsideOK, ghosts
  <2>5. "complain" \in Todo /\ "complain" \notin WithChat /\ "complain" # "record" BY TodoNames
  <2> QED BY <1>b, <2>1, <2>2, <2>4, <2>5, TurnStep
<1> QED BY <1>1, <1>2, <1>3, <1>4, <1>5

LEMMA StartChatKeeps ==
  ASSUME BacklogInv, NEW a \in Actor, StartChat(a) PROVE BacklogInv'
<1>0. Readings \subseteq Content /\ \A s \in Readings : Truthful(s)
  BY ReadingsTruthful DEF BacklogInv
<1>1. CASE Lost(a) \/ SubmitFails(a) BY <1>1, RaisesKeeps DEF Lost, SubmitFails
<1>2. CASE Annotate(a)
  <2>1. PICK s \in Readings : Holds(a, todo[a], s, call[a]) BY <1>2 DEF Annotate
  <2>2. /\ todo[a] \in {"note", "complain"} /\ todo[a] # "idle"
        /\ UNCHANGED <<disk, external, accepted, claimed>>
    BY <1>2 DEF Annotate
  <2>3. call[a] \in Call BY <2>2, CallFields DEF BacklogInv
  <2>4. todo[a] \in Updates /\ todo[a] \notin WithChat /\ todo[a] # "record"
    BY <2>2, TodoNames
  <2> QED BY <1>0, <2>1, <2>2, <2>3, <2>4, HoldStep
<1>3. CASE Skip(a)
  <2>1. Turns(a, "idle", NoCall) /\ UNCHANGED <<disk, external>> /\ UNCHANGED ghosts
    BY <1>3 DEF Skip
  <2> QED BY <2>1, TodoNames, SeenKept, IdleOrCalled
<1> QED BY <1>1, <1>2, <1>3, LookKeeps, RunKeeps DEF StartChat

-----------------------------------------------------------------------------
(* Writing, and the stop of processes.                                      *)

LEMMA OpenKeeps ==
  ASSUME BacklogInv, NEW a \in Actor, Open(a) PROVE BacklogInv'
<1>0. UNCHANGED external /\ UNCHANGED ghosts /\ Grows BY Kept DEF Open
<1>1. DiskOK'
  <2>1. \A s \in file : Reports(s, worktree', owner', sent')
    BY <1>0, StaysTruthful DEF BacklogInv, DiskOK
  <2>2. file' = file /\ tmp' = {} BY DEF Open
  <2>3. \A s \in (file \cup tmp)' : Truthful(s)' BY <2>1, <2>2 DEF Truthful
  <2> QED BY <2>2, <2>3 DEF Open, BacklogInv, DiskOK
<1>2. ActorsOK'
  <2>1. /\ UNCHANGED <<todo, copy, call>> /\ phase' = [phase EXCEPT ![a] = "write"]
        /\ phase[a] = "open"
    BY DEF Open
  <2>2. ASSUME NEW b \in Actor PROVE ActorOK(b)'
    <3>1. Truthful(copy[b])'
      BY <1>0, <2>1, StaysTruthful DEF BacklogInv, ActorsOK, ActorOK, Truthful
    <3>2. phase'[b] # "read" => todo'[b] \in Updates
      BY <2>1 DEF BacklogInv, ActorsOK, ActorOK
    <3> QED BY <1>0, <2>1, <3>1, <3>2 DEF BacklogInv, ActorsOK, ActorOK, external
  <2> QED BY <2>1, <2>2 DEF BacklogInv, ActorsOK, Phases
<1>3. OutsideOK' BY <1>0, OutsideKept DEF BacklogInv
<1> QED BY <1>1, <1>2, <1>3 DEF BacklogInv

\* Whatever the temporary file holds is truthful, and so is what replaces the
\* state file.
LEMMA TextsTruthful ==
  ASSUME BacklogInv, NEW a \in Actor, NEW text \in Texts(a) \cup {{copy[a]}, {}, tmp, file}
  PROVE  text \subseteq Content /\ \A s \in text : Truthful(s)
<1>1. \A b \in Actor : copy[b] \in Content /\ Truthful(copy[b])
  BY DEF BacklogInv, ActorsOK, ActorOK
<1>2. (\E b \in Actor : text = {copy[b]}) \/ text \in {{}, tmp, file}
  BY DEF Texts, Writers
<1> QED BY <1>1, <1>2 DEF BacklogInv, DiskOK

LEMMA ReplaceKeeps ==
  ASSUME BacklogInv, NEW a \in Actor, Replace(a) PROVE BacklogInv'
<1>0. UNCHANGED external /\ Grows BY Kept DEF Replace
<1>1. DiskOK'
  <2>1. file' \in Texts(a) /\ tmp' = {} /\ named' = FALSE
        /\ fd' \in [Actor -> {"none", "tmp", "file", "gone"}]
    BY DEF Replace, BacklogInv, DiskOK
  <2>2. file' \subseteq Content /\ \A s \in file' : Truthful(s)
    BY <2>1, TextsTruthful
  <2>3. \A s \in (file \cup tmp)' : Truthful(s)'
    BY <1>0, <2>1, <2>2 DEF Truthful, external
  <2> QED BY <2>1, <2>2, <2>3 DEF DiskOK
<1>2. /\ Turns(a, Follows(a), call[a])
      /\ seen' \in {"nothing", "contention", "overlap"}
  BY BeginsTurns DEF Replace
<1>3. todo[a] \in Updates /\ todo[a] # "idle"
  BY DEF Replace, BacklogInv, ActorsOK, ActorOK, Updates
<1>4. call[a] \in Call /\ Item(a) \in Handoff BY <1>3, CallFields DEF BacklogInv
<1>5. Follows(a) \in {"materialize", "look", "idle", "note"}
      \/ (todo[a] = "bind" /\ Follows(a) = "prepare")
  BY DEF Follows
<1>6. Follows(a) \in Todo
      /\ (Follows(a) \in WithChat => todo[a] = "bind" /\ Follows(a) = "prepare")
  BY <1>5, TodoNames
<1>7. Follows(a) \in WithChat => /\ call[a].chat \in Chat
                                 /\ owner'[call[a].chat] = {StageOf[call[a].h]}
  BY <1>0, <1>6 DEF BacklogInv, ActorsOK, ActorOK, WithChat, external
<1>8. Follows(a) # "record" BY <1>5
<1>9. ActorsOK' BY <1>0, <1>2, <1>4, <1>6, <1>7, <1>8, TurnsKeeps DEF BacklogInv
<1>10. OutsideOK'
  <2>1. accepted' \subseteq Handoff BY <1>4 DEF Replace, BacklogInv, OutsideOK
  <2>2. claimed' \in [Handoff -> 0..Many]
    BY <1>4 DEF Replace, BacklogInv, OutsideOK, More, Many
  <2> QED BY <1>0, <1>2, <2>1, <2>2 DEF BacklogInv, OutsideOK, external
<1> QED BY <1>1, <1>9, <1>10 DEF BacklogInv

LEMMA ReplaceFailsKeeps ==
  ASSUME BacklogInv, NEW a \in Actor, ReplaceFails(a) PROVE BacklogInv'
<1>0. UNCHANGED <<worktree, owner, sent, ghosts>> /\ Raises(a) BY DEF ReplaceFails
<1>00. OutsideOK' /\ Grows BY <1>0, RaisesOutside
<1>1. DiskOK'
  <2>1. file' \in {{copy[a]}, {}, file} /\ UNCHANGED <<named, tmp>>
        /\ fd' \in [Actor -> {"none", "tmp", "file", "gone"}]
    BY DEF ReplaceFails, BacklogInv, DiskOK
  <2>2. \A s \in file' \cup tmp : s \in Content /\ Truthful(s)
    BY <2>1, TextsTruthful DEF BacklogInv, DiskOK
  <2>3. \A s \in (file \cup tmp)' : Truthful(s)'
    BY <1>0, <2>1, <2>2 DEF Truthful
  <2> QED BY <2>1, <2>2, <2>3 DEF BacklogInv, DiskOK
<1>2. PICK op \in {"complain", "idle"} : /\ Turns(a, op, call[a])
                                         /\ op # "idle" => todo[a] # "idle"
  BY <1>0 DEF Raises, Starting
<1>3. op # "idle" => call[a] \in Call BY <1>2, CallFields DEF BacklogInv
<1>4. op \in Todo /\ op \notin WithChat /\ op # "record" BY TodoNames
<1>5. ActorsOK' BY <1>00, <1>2, <1>3, <1>4, TurnsKeeps DEF BacklogInv
<1> QED BY <1>1, <1>5, <1>00 DEF BacklogInv

\* A write that fails leaves all texts as they were.
LEMMA WriteFailsKeeps ==
  ASSUME BacklogInv, NEW a \in Actor, WriteFails(a) PROVE BacklogInv'
<1>0. /\ UNCHANGED <<worktree, owner, sent, ghosts>> /\ Raises(a)
      /\ UNCHANGED <<file, named, tmp>> /\ fd' = [fd EXCEPT ![a] = "none"]
  BY DEF WriteFails
<1>00. OutsideOK' /\ Grows BY <1>0, RaisesOutside
<1>1. DiskOK'
  <2>1. \A s \in (file \cup tmp)' : Truthful(s)'
    BY <1>0 DEF Truthful, BacklogInv, DiskOK
  <2> QED BY <1>0, <2>1 DEF BacklogInv, DiskOK
<1>2. PICK op \in {"complain", "idle"} : /\ Turns(a, op, call[a])
                                         /\ op # "idle" => todo[a] # "idle"
  BY <1>0 DEF Raises, Starting
<1>3. op # "idle" => call[a] \in Call BY <1>2, CallFields DEF BacklogInv
<1>4. op \in Todo /\ op \notin WithChat /\ op # "record" BY TodoNames
<1>5. ActorsOK' BY <1>00, <1>2, <1>3, <1>4, TurnsKeeps DEF BacklogInv
<1> QED BY <1>1, <1>5, <1>00 DEF BacklogInv

LEMMA StopKeeps ==
  ASSUME BacklogInv, StopDev \/ StopProd PROVE BacklogInv'
<1>1. PICK A \in SUBSET Actor : Stop(A)
  BY DEF StopDev, StopProd, Dev, Actor
<1>2. seen' \in {"nothing", "contention", "overlap"}
  BY DEF StopDev, StopProd, BacklogInv, OutsideOK
<1>3. UNCHANGED external /\ UNCHANGED <<accepted, claimed>> /\ Grows
  BY <1>1, Kept DEF Stop
<1>4. \A b \in Actor : copy[b] \in Content /\ Truthful(copy[b])
  BY DEF BacklogInv, ActorsOK, ActorOK
<1>5. DiskOK'
  <2>1. /\ UNCHANGED <<file, named>>
        /\ tmp' = tmp \/ \E b \in Actor : tmp' = {copy[b]}
        /\ fd' \in [Actor -> {"none", "tmp", "file", "gone"}]
    BY <1>1 DEF Stop, BacklogInv, DiskOK
  <2>2. \A s \in (file \cup tmp)' : s \in Content /\ Truthful(s)
    BY <1>4, <2>1 DEF BacklogInv, DiskOK
  <2>3. \A s \in (file \cup tmp)' : Truthful(s)' BY <1>3, <2>2 DEF Truthful, external
  <2> QED BY <2>1, <2>2, <2>3 DEF BacklogInv, DiskOK
<1>6. ActorsOK'
  <2>1. /\ todo' = [b \in Actor |-> IF b \in A THEN "idle" ELSE todo[b]]
        /\ phase' = [b \in Actor |-> IF b \in A THEN "read" ELSE phase[b]]
        /\ copy' = [b \in Actor |-> IF b \in A THEN Empty ELSE copy[b]]
        /\ call' = [b \in Actor |-> IF b \in A THEN NoCall ELSE call[b]]
    BY <1>1 DEF Stop
  <2>2. /\ todo' \in [Actor -> Todo] /\ phase' \in [Actor -> Phases]
        /\ copy' \in [Actor -> Content] /\ call' \in [Actor -> Call \cup {NoCall}]
    BY <2>1, EmptyTruthful, TodoNames DEF BacklogInv, ActorsOK, Phases
  <2>3. ASSUME NEW b \in Actor PROVE ActorOK(b)'
    <3>1. CASE b \in A
      <4>1. todo'[b] = "idle" /\ phase'[b] = "read" /\ copy'[b] = Empty
        BY <2>1, <3>1
      <4>2. Truthful(copy[b])' BY <4>1, EmptyTruthful DEF Truthful
      <4> QED BY <4>1, <4>2 DEF ActorOK, WithChat
    <3>2. CASE b \notin A
      <4>1. /\ todo'[b] = todo[b] /\ phase'[b] = phase[b] /\ copy'[b] = copy[b]
            /\ call'[b] = call[b]
        BY <2>1, <3>2
      <4> QED BY <1>3, <4>1, OthersKeep DEF BacklogInv
    <3> QED BY <3>1, <3>2
  <2> QED BY <2>2, <2>3 DEF ActorsOK
<1>7. OutsideOK' BY <1>2, <1>3 DEF BacklogInv, OutsideOK, external
<1> QED BY <1>5, <1>6, <1>7 DEF BacklogInv

-----------------------------------------------------------------------------
(* The theorems.                                                            *)

LEMMA InitHolds == Init => BacklogInv
<1> SUFFICES ASSUME Init PROVE BacklogInv OBVIOUS
<1>1. DiskOK BY DEF Init, DiskOK
<1>2. ASSUME NEW a \in Actor PROVE ActorOK(a)
  BY EmptyTruthful DEF Init, ActorOK, WithChat
<1>3. ActorsOK BY <1>2, EmptyTruthful, TodoNames DEF Init, ActorsOK, Phases
<1>4. OutsideOK BY DEF Init, OutsideOK, Many
<1> QED BY <1>1, <1>3, <1>4 DEF BacklogInv

LEMMA StepHolds == BacklogInv /\ [Next]_vars => BacklogInv'
<1> SUFFICES ASSUME BacklogInv, [Next]_vars PROVE BacklogInv' OBVIOUS
<1>1. ASSUME NEW h \in Handoff, Serve(h) PROVE BacklogInv' BY <1>1, ServeKeeps
<1>2. ASSUME NEW h \in Handoff, EnqueueAgain(h) PROVE BacklogInv' BY <1>2, EnqueueAgainKeeps
<1>3. ASSUME NEW a \in Actor, Write(a) PROVE BacklogInv'
  BY <1>3, OpenKeeps, ReplaceKeeps, ReplaceFailsKeeps, WriteFailsKeeps DEF Write
<1>4. ASSUME NEW a \in Actor, TakeItem(a) \/ StartChat(a) PROVE BacklogInv'
  BY <1>4, TakeItemKeeps, StartChatKeeps
<1>5. CASE StopDev \/ StopProd BY <1>5, StopKeeps
<1>6. CASE UNCHANGED vars
  <2>1. UNCHANGED disk /\ UNCHANGED <<external, ghosts>> /\ Grows BY <1>6, Kept DEF vars
  <2>2. ASSUME NEW b \in Actor PROVE ActorOK(b)'
    BY <1>6, <2>1, OthersKeep DEF vars, BacklogInv
  <2>3. ActorsOK' BY <1>6, <2>2 DEF vars, BacklogInv, ActorsOK
  <2>4. DiskOK' BY <2>1, DiskKept DEF BacklogInv
  <2>5. OutsideOK' BY <2>1, OutsideKept DEF BacklogInv
  <2> QED BY <2>3, <2>4, <2>5 DEF BacklogInv
<1> QED BY <1>1, <1>2, <1>3, <1>4, <1>5, <1>6 DEF Next, GoesOn, Rests

\* Every version of the state that the file, the temporary file or an actor
\* holds is truthful, and the chat of a call belongs to its stage.
THEOREM Invariance == Spec => []BacklogInv
<1> QED BY InitHolds, StepHolds, PTL DEF Spec

LEMMA CallsBounded == Spec => [](calls \in 0..MaxCalls)
<1>1. Init => calls \in 0..MaxCalls BY CallsAssumption DEF Init
<1>2. calls \in 0..MaxCalls /\ [Next]_vars => (calls \in 0..MaxCalls)'
  BY CallsAssumption DEF Next, Counts, Rests, vars
<1> QED BY <1>1, <1>2, PTL DEF Spec

\* The variables of the pipeline have their types.
THEOREM WellTyped == Spec => []TypeOK
<1>1. BacklogInv /\ calls \in 0..MaxCalls => TypeOK
  BY DEF BacklogInv, DiskOK, ActorsOK, ActorOK, OutsideOK, TypeOK
<1> QED BY <1>1, Invariance, CallsBounded, PTL

\* However the reads and writes of PROD, of the requests and of the auto-runner
\* overlap, are torn or are cut off by a crash: what the state file reports of
\* worktrees, chats and runs is so.
THEOREM FileReportsTrue == Spec => []ReportsTrue
<1>1. BacklogInv => ReportsTrue BY DEF BacklogInv, DiskOK, ReportsTrue
<1> QED BY <1>1, Invariance, PTL

-----------------------------------------------------------------------------
(* Without an overlap: OrderInv.                                            *)

Free == {"none", "queued"}

\* What an operation op on handoff h makes t of the state s that it has read: no
\* handoff is dropped or freed, no stage and no run is lost, and only a claim of a
\* queued handoff gives it to a worker.
Follow(op, h, s, t) ==
  /\ \A g \in Handoff : /\ s.item[g] # "none" => t.item[g] # "none"
                        /\ t.item[g] \in Free => s.item[g] \in Free
  /\ s.stages \subseteq t.stages
  /\ \A st \in Stage : s.runs[st] \subseteq t.runs[st]
  /\ op # "record" => t.runs = s.runs
  /\ op = "record" => t.runs[StageOf[h]] # {}
  /\ op = "enqueue" => t.item[h] # "none"
  /\ op \in {"pick", "claim"} => s.item[h] = "queued" /\ t.item[h] = "claimed"

\* One actor reads, changes and writes at a time, ...
Alone == \A a, b \in Actor : Updating(a) /\ Updating(b) => a = b

\* ... so that the temporary file it has open is its own, ...
Opened ==
  \A a \in Actor : /\ phase[a] = "write" => fd[a] = "tmp" /\ named
                   /\ phase[a] # "write" => fd[a] = "none"

\* ... the state file is one version, and what the actor holds follows it.
Current ==
  /\ \A s, t \in Readings : s = t
  /\ \A a \in Actor : Updating(a) => \A s \in Readings : Follow(todo[a], Item(a), s, copy[a])
  /\ \A a \in Actor : phase[a] = "git" => todo[a] = "materialize"

\* Handoffs that were acknowledged are there, and free ones were given to nobody.
Handoffs ==
  /\ \A s \in Readings : \A h \in accepted : s.item[h] # "none"
  /\ \A h \in Handoff : /\ claimed[h] <= 1
                        /\ \A s \in Readings : s.item[h] \in Free => claimed[h] = 0

Orderly == Alone /\ Opened /\ Current /\ Handoffs

OrderInv == seen # "overlap" => Orderly

LEMMA ReadingsExist == \E s \in Readings : TRUE
<1>1. CASE file = {} BY <1>1 DEF Readings
<1>2. CASE file # {} BY <1>2 DEF Readings
<1> QED BY <1>1, <1>2

\* An operation that has read s, and follows it, begins to change the state.
LEMMA HoldsInOrder ==
  ASSUME BacklogInv, OrderInv, NEW a \in Actor, NEW op, NEW s \in Readings, NEW t, NEW c,
         Follow(op, c.h, s, t), ~Updating(a),
         Holds(a, op, t, c), UNCHANGED <<disk, accepted, claimed>>
  PROVE  OrderInv'
<1> SUFFICES ASSUME seen' # "overlap" PROVE Orderly' BY DEF OrderInv
<1>1. seen' = seen /\ \A b \in Actor \ {a} : ~Updating(b) BY DEF Holds
<1>2. Orderly BY <1>1 DEF OrderInv
<1>3. /\ todo'[a] = op /\ copy'[a] = t /\ call'[a] = c
      /\ phase'[a] = IF op = "materialize" THEN "git" ELSE "open"
      /\ \A b \in Actor \ {a} : phase'[b] = phase[b]
  BY DEF Holds, BacklogInv, ActorsOK
<1>4. file' = file /\ fd' = fd /\ named' = named /\ Readings' = Readings BY DEF disk, Readings
<1>5. Alone' BY <1>1, <1>3 DEF Alone, Updating
<1>6. Opened'
  <2>1. fd[a] = "none" BY <1>2 DEF Orderly, Opened, Updating
  <2> QED BY <1>2, <1>3, <1>4, <2>1 DEF Orderly, Opened
<1>7. Current'
  <2>1. \A b \in Actor : Updating(b)' => b = a BY <1>1, <1>3 DEF Updating
  <2>2. \A x \in Readings : x = s BY <1>2 DEF Orderly, Current
  <2>3. (\A x, y \in Readings : x = y)' BY <1>4, <2>2
  <2>4. (\A x \in Readings : Follow(todo[a], Item(a), x, copy[a]))'
    BY <1>3, <1>4, <2>2 DEF Item, Follow
  <2>5. \A b \in Actor : phase'[b] = "git" => b = a /\ op = "materialize"
    BY <1>1, <1>3 DEF Updating
  <2> QED BY <1>3, <2>1, <2>3, <2>4, <2>5 DEF Current
<1>8. Handoffs' BY <1>2, <1>4 DEF Orderly, Handoffs
<1> QED BY <1>5, <1>6, <1>7, <1>8 DEF Orderly

\* An actor that holds nothing turns to something else.
LEMMA TurnsInOrder ==
  ASSUME BacklogInv, OrderInv, NEW a \in Actor, NEW op, NEW c, ~Updating(a),
         Turns(a, op, c), UNCHANGED <<disk, accepted, claimed>>, seen' # "overlap" => seen # "overlap"
  PROVE  OrderInv'
<1> SUFFICES ASSUME seen' # "overlap" PROVE Orderly' BY DEF OrderInv
<1>1. Orderly BY DEF OrderInv
<1>2. /\ phase'[a] = "read" /\ phase[a] = "read"
      /\ \A b \in Actor \ {a} : /\ phase'[b] = phase[b] /\ todo'[b] = todo[b]
                                /\ copy'[b] = copy[b] /\ call'[b] = call[b]
  BY DEF Turns, BacklogInv, ActorsOK, Updating
<1>3. file' = file /\ fd' = fd /\ named' = named /\ Readings' = Readings BY DEF disk, Readings
<1>4. \A b \in Actor : Updating(b)' => Updating(b) /\ b # a BY <1>2 DEF Updating
<1>5. Alone' BY <1>1, <1>4 DEF Orderly, Alone
<1>6. Opened' BY <1>1, <1>2, <1>3 DEF Orderly, Opened
<1>7. Current' BY <1>1, <1>2, <1>3, <1>4 DEF Orderly, Current, Item
<1>8. Handoffs' BY <1>1, <1>3 DEF Orderly, Handoffs
<1> QED BY <1>5, <1>6, <1>7, <1>8 DEF Orderly

\* What happens to the copy of a materialization follows what it has read.
LEMMA ChangesInOrder ==
  ASSUME BacklogInv, OrderInv, NEW a \in Actor, phase[a] = "git", NEW t, Changes(a, t),
         \A g \in Handoff : /\ copy[a].item[g] # "none" => t.item[g] # "none"
                            /\ t.item[g] \in Free => copy[a].item[g] \in Free,
         copy[a].stages \subseteq t.stages, t.runs = copy[a].runs
  PROVE  OrderInv'
<1> SUFFICES ASSUME seen' # "overlap" PROVE Orderly' BY DEF OrderInv
<1>1. Orderly BY DEF OrderInv, Changes, ghosts
<1>2. /\ copy'[a] = t /\ phase'[a] = "open" /\ UNCHANGED <<todo, call, accepted, claimed>>
      /\ \A b \in Actor \ {a} : phase'[b] = phase[b] /\ copy'[b] = copy[b]
  BY DEF Changes, ghosts, BacklogInv, ActorsOK
<1>3. file' = file /\ fd' = fd /\ named' = named /\ Readings' = Readings
  BY DEF Changes, disk, Readings
<1>4. Alone' /\ Opened' BY <1>1, <1>2, <1>3 DEF Orderly, Alone, Opened, Updating
<1>5. Current'
  <2>1. todo[a] = "materialize" /\ \A s \in Readings : Follow(todo[a], Item(a), s, copy[a])
    BY <1>1 DEF Orderly, Current, Updating
  <2>2. \A s \in Readings : Follow(todo[a], Item(a), s, t) BY <2>1 DEF Follow
  <2> QED BY <1>1, <1>2, <1>3, <2>2 DEF Orderly, Current, Updating, Item
<1>6. Handoffs' BY <1>1, <1>2, <1>3 DEF Orderly, Handoffs
<1> QED BY <1>4, <1>5, <1>6 DEF Orderly

LEMMA OpenInOrder ==
  ASSUME BacklogInv, OrderInv, NEW a \in Actor, Open(a) PROVE OrderInv'
<1> SUFFICES ASSUME seen' # "overlap" PROVE Orderly' BY DEF OrderInv
<1>1. Orderly BY DEF OrderInv, Open, ghosts
<1>2. /\ UNCHANGED <<file, todo, copy, call, accepted, claimed>> /\ named' = TRUE
      /\ fd' = [fd EXCEPT ![a] = "tmp"] /\ phase' = [phase EXCEPT ![a] = "write"]
      /\ phase[a] = "open" /\ Readings' = Readings
  BY DEF Open, ghosts, Readings
<1>3. Alone' BY <1>1, <1>2 DEF Orderly, Alone, Updating, BacklogInv, ActorsOK
<1>4. Opened' BY <1>1, <1>2 DEF Orderly, Opened, BacklogInv, ActorsOK, DiskOK
<1>5. Current' BY <1>1, <1>2 DEF Orderly, Current, Updating, BacklogInv, ActorsOK, Item
<1>6. Handoffs' BY <1>1, <1>2 DEF Orderly, Handoffs
<1> QED BY <1>3, <1>4, <1>5, <1>6 DEF Orderly

\* Without an overlap the text of an actor becomes the state file.
LEMMA WrittenAlone ==
  ASSUME BacklogInv, Orderly, NEW a \in Actor, Replace(a)
  PROVE  /\ file' = {copy[a]} /\ Readings' = {copy[a]}
         /\ \A b \in Actor \ {a} : ~Updating(b)
<1>1. phase[a] = "write" /\ file' \in Texts(a) BY DEF Replace
<1>2. \A b \in Actor \ {a} : ~Updating(b) BY <1>1 DEF Orderly, Alone, Updating
<1>3. Writers = {a} BY <1>1, <1>2 DEF Orderly, Opened, Updating, Writers
<1>4. file' = {copy[a]} BY <1>1, <1>3 DEF Texts
<1> QED BY <1>2, <1>4 DEF Readings

LEMMA ReplaceInOrder ==
  ASSUME BacklogInv, OrderInv, NEW a \in Actor, Replace(a) PROVE OrderInv'
<1> SUFFICES ASSUME seen' # "overlap" PROVE Orderly' BY DEF OrderInv
<1>1. Orderly BY DEF OrderInv, Replace, Begins
<1>2. Readings' = {copy[a]} /\ \A b \in Actor \ {a} : ~Updating(b) BY <1>1, WrittenAlone
<1>3. /\ Turns(a, Follows(a), call[a]) /\ phase[a] = "write"
      /\ accepted' = IF todo[a] = "enqueue" THEN accepted \cup {Item(a)} ELSE accepted
      /\ claimed' = IF todo[a] \in {"pick", "claim"} THEN [claimed EXCEPT ![Item(a)] = More(@)]
                    ELSE claimed
  BY DEF Replace, Begins
<1>4. \A b \in Actor : phase'[b] = "read"
  BY <1>2, <1>3 DEF Turns, Updating, BacklogInv, ActorsOK
<1>5. Alone' BY <1>4 DEF Alone, Updating
<1>6. Opened'
  <2>1. fd' = [b \in Actor |-> CASE b = a -> "none"
                              [] b # a /\ fd[b] = "tmp" -> "file"
                              [] b # a /\ fd[b] = "file" -> "gone"
                              [] OTHER -> fd[b]]
    BY DEF Replace
  <2>2. \A b \in Actor \ {a} : fd[b] = "none" BY <1>1, <1>2 DEF Orderly, Opened, Updating
  <2>3. \A b \in Actor : fd'[b] = "none" BY <2>1, <2>2
  <2> QED BY <1>4, <2>3 DEF Opened
<1>7. Current' BY <1>2, <1>4 DEF Current, Updating
<1>8. PICK s \in Readings : Follow(todo[a], Item(a), s, copy[a])
  BY <1>1, <1>3, ReadingsExist DEF Orderly, Current, Updating
<1>9. Handoffs'
  <2>1. \A h \in accepted' : copy[a].item[h] # "none"
    <3>1. \A h \in accepted : h \in Handoff /\ copy[a].item[h] # "none"
      BY <1>1, <1>8 DEF Orderly, Handoffs, Follow, BacklogInv, OutsideOK
    <3> QED BY <1>3, <1>8, <3>1 DEF Follow
  <2>2. ASSUME NEW h \in Handoff
        PROVE  claimed'[h] <= 1 /\ (copy[a].item[h] \in Free => claimed'[h] = 0)
    <3>1. claimed[h] <= 1 /\ (copy[a].item[h] \in Free => claimed[h] = 0)
      BY <1>1, <1>8 DEF Orderly, Handoffs, Follow
    <3>2. CASE todo[a] \in {"pick", "claim"} /\ h = Item(a)
      <4>1. claimed[h] = 0 /\ copy[a].item[h] \notin Free
        BY <1>1, <1>8, <3>2 DEF Orderly, Handoffs, Follow, Free
      <4>2. claimed'[h] = 1
        BY <1>3, <3>2, <4>1 DEF More, Many, BacklogInv, OutsideOK
      <4> QED BY <4>1, <4>2
    <3>3. CASE ~(todo[a] \in {"pick", "claim"} /\ h = Item(a))
      BY <1>3, <3>1, <3>3 DEF BacklogInv, OutsideOK
    <3> QED BY <3>2, <3>3
  <2> QED BY <1>2, <2>1, <2>2 DEF Handoffs
<1> QED BY <1>5, <1>6, <1>7, <1>9 DEF Orderly

\* Without an overlap the temporary file is there when it is renamed.
LEMMA ReplaceFailsInOrder ==
  ASSUME BacklogInv, OrderInv, NEW a \in Actor, ReplaceFails(a) PROVE OrderInv'
BY DEF OrderInv, ReplaceFails, ghosts, Orderly, Opened

\* A text that could not be written leaves the state file as it is.
LEMMA WriteFailsInOrder ==
  ASSUME BacklogInv, OrderInv, NEW a \in Actor, WriteFails(a) PROVE OrderInv'
<1> SUFFICES ASSUME seen' # "overlap" PROVE Orderly' BY DEF OrderInv
<1>1. Orderly BY DEF OrderInv, WriteFails, ghosts
<1>2. /\ UNCHANGED <<file, named, accepted, claimed>> /\ Readings' = Readings
      /\ fd' = [fd EXCEPT ![a] = "none"] /\ \E op : Turns(a, op, call[a])
  BY DEF WriteFails, Raises, ghosts, Readings
<1>3. /\ phase'[a] = "read" /\ fd'[a] = "none"
      /\ \A b \in Actor \ {a} : /\ phase'[b] = phase[b] /\ todo'[b] = todo[b] /\ fd'[b] = fd[b]
                                /\ copy'[b] = copy[b] /\ call'[b] = call[b]
  BY <1>2 DEF Turns, BacklogInv, ActorsOK, DiskOK
<1>4. \A b \in Actor : Updating(b)' => Updating(b) /\ b # a BY <1>3 DEF Updating
<1>5. Alone' BY <1>1, <1>4 DEF Orderly, Alone
<1>6. Opened' BY <1>1, <1>2, <1>3 DEF Orderly, Opened
<1>7. Current' BY <1>1, <1>2, <1>3, <1>4 DEF Orderly, Current, Item
<1>8. Handoffs' BY <1>1, <1>2 DEF Orderly, Handoffs
<1> QED BY <1>5, <1>6, <1>7, <1>8 DEF Orderly

LEMMA StopInOrder ==
  ASSUME BacklogInv, OrderInv, StopDev \/ StopProd PROVE OrderInv'
<1> SUFFICES ASSUME seen' # "overlap" PROVE Orderly' BY DEF OrderInv
<1>1. Orderly BY DEF OrderInv, StopDev, StopProd
<1>2. PICK A \in SUBSET Actor : Stop(A) BY DEF StopDev, StopProd, Dev, Actor
<1>3. /\ UNCHANGED <<file, named, accepted, claimed>> /\ Readings' = Readings
      /\ \A b \in A : phase'[b] = "read" /\ fd'[b] = "none"
      /\ \A b \in Actor \ A : /\ phase'[b] = phase[b] /\ fd'[b] = fd[b] /\ todo'[b] = todo[b]
                              /\ copy'[b] = copy[b] /\ call'[b] = call[b]
  BY <1>2 DEF Stop, Readings
<1>4. Alone' BY <1>1, <1>3 DEF Orderly, Alone, Updating
<1>5. Opened' BY <1>1, <1>3 DEF Orderly, Opened
<1>6. Current' BY <1>1, <1>3 DEF Orderly, Current, Updating, Item
<1>7. Handoffs' BY <1>1, <1>3 DEF Orderly, Handoffs
<1> QED BY <1>4, <1>5, <1>6, <1>7 DEF Orderly

LEMMA EnqueueAgainInOrder ==
  ASSUME BacklogInv, OrderInv, NEW h \in Handoff, EnqueueAgain(h) PROVE OrderInv'
<1> SUFFICES ASSUME seen' # "overlap" PROVE Orderly' BY DEF OrderInv
<1>1. Orderly BY DEF OrderInv, EnqueueAgain
<1>2. /\ UNCHANGED <<file, fd, named, todo, phase, copy, call, claimed>> /\ Readings' = Readings
      /\ accepted' = accepted \cup {h}
      /\ \E s \in Readings : s.item[h] # "none"
  BY DEF EnqueueAgain, disk, Readings
<1>3. Alone' /\ Opened' /\ Current'
  BY <1>1, <1>2 DEF Orderly, Alone, Opened, Current, Updating, Item
<1>4. Handoffs' BY <1>1, <1>2 DEF Orderly, Handoffs, Current
<1> QED BY <1>3, <1>4 DEF Orderly

LEMMA Holding ==
  ASSUME BacklogInv, NEW a \in Actor, todo[a] \notin Updates \/ phase[a] = "read"
  PROVE  ~Updating(a)
BY DEF Updating, BacklogInv, ActorsOK, ActorOK

\* A handoff is given a status and a worker.
LEMMA GivenItem ==
  ASSUME NEW s \in Content, NEW h \in Handoff, NEW status, NEW w
  PROVE  LET t == [s EXCEPT !.item[h] = status, !.lock[h] = w]
         IN  /\ t.stages = s.stages /\ t.runs = s.runs
             /\ t.item[h] = status /\ \A g \in Handoff \ {h} : t.item[g] = s.item[g]
BY DEF Content

LEMMA ServeInOrder ==
  ASSUME BacklogInv, OrderInv, NEW h \in Handoff, Serve(h) PROVE OrderInv'
<1>0. Readings \subseteq Content /\ {Prod, Loop, Runner} \subseteq Actor /\ "idle" \notin Updates
  BY ReadingsTruthful DEF BacklogInv, Actor, Updates
<1>1. CASE Enqueue(h)
  <2> DEFINE new(s) == [s EXCEPT !.item[h] = "queued", !.lock[h] = NoWorker]
             c == Asked(h, AutoWorker, FALSE)
  <2>1. PICK s \in Readings : s.item[h] = "none" /\ Holds(Prod, "enqueue", new(s), c)
    BY <1>1, Zenon DEF Enqueue
  <2>2. Follow("enqueue", h, s, new(s)) BY <1>0, <2>1, GivenItem DEF Follow, Free
  <2>3. c.h = h BY DEF Asked
  <2>4. UNCHANGED <<disk, accepted, claimed>> /\ ~Updating(Prod) BY <1>0, <1>1, Holding DEF Enqueue
  <2> HIDE DEF new, c
  <2> QED BY <1>0, <2>1, <2>2, <2>3, <2>4, HoldsInOrder
<1>2. ASSUME NEW w \in Worker, Pick(h, w) PROVE OrderInv'
  <2> DEFINE c == Asked(h, w, FALSE)
  <2>1. PICK s \in Readings : Claimable(s.item[h]) /\ Holds(Loop, "pick", ClaimedBy(s, h, w), c)
    BY <1>2 DEF Pick
  <2>2. Follow("pick", h, s, ClaimedBy(s, h, w))
    BY <1>0, <2>1, GivenItem DEF Follow, Free, ClaimedBy, Claimable
  <2>3. c.h = h BY DEF Asked
  <2>4. UNCHANGED <<disk, accepted, claimed>> /\ ~Updating(Loop) BY <1>0, <1>2, Holding DEF Pick
  <2> HIDE DEF c
  <2> QED BY <1>0, <2>1, <2>2, <2>3, <2>4, HoldsInOrder
<1>3. ASSUME NEW a \in Actor, NEW op, NEW c, todo[a] = "idle",
             Turns(a, op, c), UNCHANGED <<disk, external, ghosts>>
      PROVE  OrderInv'
  BY <1>0, <1>3, Holding, TurnsInOrder DEF ghosts
<1>4. CASE Notify(h) BY <1>0, <1>3, <1>4 DEF Notify
<1>5. CASE Tick(h) BY <1>0, <1>3, <1>5 DEF Tick
<1>6. ASSUME NEW w \in Worker, AskMaterialize(h, w) PROVE OrderInv' BY <1>0, <1>3, <1>6 DEF AskMaterialize
<1> QED BY <1>1, <1>2, <1>4, <1>5, <1>6 DEF Serve

\* To begin with something, or to be refused, is to turn to something else.
LEMMA PassesInOrder ==
  ASSUME BacklogInv, OrderInv, NEW a \in Actor, ~Updating(a), UNCHANGED <<disk, accepted, claimed>>,
         \/ \E op : Begins(a, op)
         \/ UNCHANGED seen /\ \E op, c : Turns(a, op, c)
  PROVE  OrderInv'
<1>1. PICK op, c : Turns(a, op, c) BY DEF Begins
<1>2. seen' # "overlap" => seen # "overlap" BY DEF Begins
<1> QED BY <1>1, <1>2, TurnsInOrder

LEMMA TakeItemInOrder ==
  ASSUME BacklogInv, OrderInv, NEW a \in Actor, TakeItem(a) PROVE OrderInv'
<1>0. Readings \subseteq Content BY ReadingsTruthful DEF BacklogInv
<1>1. todo[a] # "idle" => Item(a) \in Handoff BY CallFields DEF BacklogInv
<1>2. CASE Claim(a)
  <2> DEFINE t(s) == ClaimedBy(s, Item(a), call[a].w)
  <2>1. PICK s \in Readings : Claimable(s.item[Item(a)]) /\ Holds(a, "claim", t(s), call[a])
    BY <1>2 DEF Claim
  <2>2. Item(a) \in Handoff /\ UNCHANGED <<disk, accepted, claimed>> /\ ~Updating(a)
    BY <1>1, <1>2, Holding DEF Claim
  <2>3. Follow("claim", Item(a), s, t(s))
    BY <1>0, <2>1, <2>2, GivenItem DEF Follow, Free, ClaimedBy, Claimable
  <2> HIDE DEF t
  <2> QED BY <2>1, <2>2, <2>3, HoldsInOrder DEF Item
<1>3. CASE Materialize(a)
  <2>1. PICK s \in Readings : Holds(a, "materialize", s, call[a]) BY <1>3 DEF Materialize
  <2>2. UNCHANGED <<disk, accepted, claimed>> /\ ~Updating(a) BY <1>3, Holding DEF Materialize
  <2>3. Follow("materialize", Item(a), s, s) BY DEF Follow
  <2> QED BY <2>1, <2>2, <2>3, HoldsInOrder DEF Item
<1>4. CASE ClaimDone(a) \/ MaterializeDone(a)
  BY <1>4, Holding, PassesInOrder DEF ClaimDone, MaterializeDone
<1>5. CASE ClaimRefused(a) \/ MaterializeRefused(a)
  BY <1>5, Holding, PassesInOrder DEF ClaimRefused, MaterializeRefused, ghosts
<1>6. phase[a] = "git" => todo[a] # "idle" /\ copy[a] \in Content
  BY DEF BacklogInv, ActorsOK, ActorOK, Updates
<1>7. CASE Materialized(a)
  <2> DEFINE t == MaterializedIn(copy[a], Item(a))
  <2>1. phase[a] = "git" /\ Changes(a, t) /\ Item(a) \in Handoff /\ copy[a] \in Content
    BY <1>1, <1>6, <1>7 DEF Materialized
  <2>2. /\ copy[a].stages \subseteq t.stages /\ t.runs = copy[a].runs
        /\ t.item[Item(a)] = "materialized"
        /\ \A g \in Handoff \ {Item(a)} : t.item[g] = copy[a].item[g]
    BY <2>1 DEF MaterializedIn, Content
  <2>3. \A g \in Handoff : /\ copy[a].item[g] # "none" => t.item[g] # "none"
                           /\ t.item[g] \in Free => copy[a].item[g] \in Free
    BY <2>1, <2>2 DEF Free
  <2> HIDE DEF t
  <2> QED BY <2>1, <2>2, <2>3, ChangesInOrder
<1>8. CASE Blocked(a)
  <2> DEFINE t == [copy[a] EXCEPT !.item[Item(a)] = "blocked"]
  <2>1. phase[a] = "git" /\ Changes(a, t) /\ Item(a) \in Handoff /\ copy[a] \in Content
    BY <1>1, <1>6, <1>8 DEF Blocked
  <2>2. /\ copy[a].stages = t.stages /\ t.runs = copy[a].runs
        /\ t.item[Item(a)] = "blocked"
        /\ \A g \in Handoff \ {Item(a)} : t.item[g] = copy[a].item[g]
    BY <2>1 DEF Content
  <2>3. \A g \in Handoff : /\ copy[a].item[g] # "none" => t.item[g] # "none"
                           /\ t.item[g] \in Free => copy[a].item[g] \in Free
    BY <2>1, <2>2 DEF Free
  <2> HIDE DEF t
  <2> QED BY <2>1, <2>2, <2>3, ChangesInOrder
<1> QED BY <1>2, <1>3, <1>4, <1>5, <1>7, <1>8 DEF TakeItem

LEMMA StartChatInOrder ==
  ASSUME BacklogInv, OrderInv, NEW a \in Actor, StartChat(a) PROVE OrderInv'
<1>0. Readings \subseteq Content /\ {"look", "prepare", "submit"} \cap Updates = {}
  BY ReadingsTruthful DEF BacklogInv, Updates
<1>1. todo[a] # "idle" => Here(a) \in Stage BY CallFields DEF BacklogInv
<1>2. ASSUME ~Updating(a), \E op, c : Turns(a, op, c), UNCHANGED <<disk, accepted, claimed, seen>>
      PROVE  OrderInv'
  BY <1>2, PassesInOrder
<1>3. CASE FindRun(a) \/ FindChat(a) \/ CreateChat(a) \/ Prepare(a)
  BY <1>0, <1>2, <1>3, Holding DEF FindRun, FindChat, CreateChat, Prepare, ghosts
<1>4. CASE Submit(a) \/ SubmitRaises(a) \/ Skip(a)
  BY <1>0, <1>2, <1>4, Holding DEF Submit, SubmitRaises, Skip, ghosts
<1>8. CASE Lost(a) \/ SubmitFails(a)
  BY <1>0, <1>2, <1>8, Holding DEF Lost, SubmitFails, Raises, ghosts
<1>5. CASE Bind(a)
  <2> DEFINE t(s) == [s EXCEPT !.bound[Here(a)] = @ \cup {call[a].chat}]
  <2>1. PICK s \in Readings : Holds(a, "bind", t(s), call[a]) BY <1>5 DEF Bind
  <2>2. UNCHANGED <<disk, accepted, claimed>> /\ ~Updating(a) BY <1>5, Holding DEF Bind
  <2>3. t(s).item = s.item /\ t(s).stages = s.stages /\ t(s).runs = s.runs BY <1>0 DEF Content
  <2>4. Follow("bind", Item(a), s, t(s)) BY <2>3 DEF Follow
  <2> HIDE DEF t
  <2> QED BY <2>1, <2>2, <2>4, HoldsInOrder DEF Item
<1>6. CASE Record(a)
  <2> DEFINE t(s) == [s EXCEPT !.runs[Here(a)] = @ \cup {call[a].chat}]
  <2>1. PICK s \in Readings : Holds(a, "record", t(s), call[a]) BY <1>6 DEF Record
  <2>2. UNCHANGED <<disk, accepted, claimed>> /\ ~Updating(a) /\ Here(a) \in Stage
    BY <1>1, <1>6, Holding DEF Record
  <2>3. /\ t(s).item = s.item /\ t(s).stages = s.stages
        /\ t(s).runs = [s.runs EXCEPT ![Here(a)] = @ \cup {call[a].chat}]
        /\ s.runs \in [Stage -> SUBSET Chat]
    BY <1>0 DEF Content
  <2>4. t(s).runs[Here(a)] # {} /\ \A st \in Stage : s.runs[st] \subseteq t(s).runs[st]
    BY <2>2, <2>3
  <2>5. Follow("record", Item(a), s, t(s)) BY <2>3, <2>4 DEF Follow, Here, Item
  <2> HIDE DEF t
  <2> QED BY <2>1, <2>2, <2>5, HoldsInOrder DEF Item
<1>7. CASE Annotate(a)
  <2>1. PICK s \in Readings : Holds(a, todo[a], s, call[a]) BY <1>7 DEF Annotate
  <2>2. todo[a] \in {"note", "complain"} /\ UNCHANGED <<disk, accepted, claimed>> /\ ~Updating(a)
    BY <1>7, Holding DEF Annotate
  <2>3. Follow(todo[a], Item(a), s, s) BY <2>2 DEF Follow
  <2> QED BY <2>1, <2>2, <2>3, HoldsInOrder DEF Item
<1> QED BY <1>3, <1>4, <1>5, <1>6, <1>7, <1>8 DEF StartChat

LEMMA OrderInitial == Init => OrderInv
<1> SUFFICES ASSUME Init PROVE Orderly BY DEF OrderInv
<1>1. Readings = {Empty} /\ \A a \in Actor : phase[a] = "read" /\ fd[a] = "none"
  BY DEF Init, Readings
<1> QED BY <1>1 DEF Init, Orderly, Alone, Opened, Current, Handoffs, Updating

LEMMA OrderKept == BacklogInv /\ OrderInv /\ [Next]_vars => OrderInv'
<1> SUFFICES ASSUME BacklogInv, OrderInv, [Next]_vars PROVE OrderInv' OBVIOUS
<1>1. ASSUME NEW h \in Handoff, Serve(h) \/ EnqueueAgain(h) PROVE OrderInv'
  BY <1>1, ServeInOrder, EnqueueAgainInOrder
<1>2. ASSUME NEW a \in Actor, Write(a) PROVE OrderInv'
  BY <1>2, OpenInOrder, ReplaceInOrder, ReplaceFailsInOrder, WriteFailsInOrder DEF Write
<1>3. ASSUME NEW a \in Actor, TakeItem(a) \/ StartChat(a) PROVE OrderInv'
  BY <1>3, TakeItemInOrder, StartChatInOrder
<1>4. CASE StopDev \/ StopProd BY <1>4, StopInOrder
<1>5. CASE UNCHANGED vars
  BY <1>5 DEF vars, disk, ghosts, OrderInv, Orderly, Alone, Opened, Current, Handoffs, Updating, Readings, Item
<1> QED BY <1>1, <1>2, <1>3, <1>4, <1>5 DEF Next, GoesOn, Rests

\* As long as no read, change and write has overlapped another, the state file is one
\* version that follows from the one before it.
THEOREM InOrder == Spec => []OrderInv
<1> QED BY OrderInitial, OrderKept, Invariance, PTL DEF Spec

\* A handoff that was acknowledged to PROD stays in the backlog, whatever crashes
\* in between, unless an operation overlapped another.
THEOREM AcceptedStaysKept == Spec => []AcceptedKept
<1>1. OrderInv => AcceptedKept BY DEF OrderInv, Orderly, Handoffs, AcceptedKept
<1> QED BY <1>1, InOrder, PTL

\* Under the same reservation a handoff is given to one worker, once.
THEOREM GivenOnce == Spec => []ClaimedOnce
<1>1. OrderInv => ClaimedOnce BY DEF OrderInv, Orderly, Handoffs, ClaimedOnce
<1> QED BY <1>1, InOrder, PTL

-----------------------------------------------------------------------------
(* Without a disturbance: KickInv.                                          *)

\* PROD only enqueues.
ProdEnqueues == todo[Prod] \in {"idle", "enqueue"}

\* One actor starts a chat at a time, ...
OneStarts == \A a, b \in Actor : todo[a] \in Starting /\ todo[b] \in Starting => a = b

\* ... whose stage is in the state, and had no kickoff before it was submitted, ...
Starts ==
  \A a \in Actor :
    /\ todo[a] \in WithChat => \A s \in Readings : Here(a) \in s.stages
    /\ todo[a] \in {"bind", "prepare", "submit"} => kickoffs[Here(a)] = 0

\* ... and a stage that had one has a run, or is about to have it recorded.
Kicked ==
  \A st \in Stage :
    /\ kickoffs[st] <= 1
    /\ kickoffs[st] = 1 => \/ \E a \in Actor : todo[a] = "record" /\ Here(a) = st
                           \/ \A s \in Readings : s.runs[st] # {}

Undisturbed == OneStarts /\ Starts /\ Kicked

KickInv == ProdEnqueues /\ (seen = "nothing" => Undisturbed)

\* The other actors go on, and no stage and no run is lost from the state file.
Bystanders(a) ==
  /\ \A b \in Actor \ {a} : todo'[b] = todo[b] /\ call'[b] = call[b]
  /\ \A t \in Readings' : \E s \in Readings : /\ s.stages \subseteq t.stages
                                              /\ \A st \in Stage : s.runs[st] \subseteq t.runs[st]

LEMMA StartingHere ==
  ASSUME BacklogInv, NEW a \in Actor, todo[a] \in Starting
  PROVE  Item(a) \in Handoff /\ Here(a) \in Stage
BY CallFields DEF BacklogInv, Starting

\* An actor leaves the start of a chat, or was not in it.
LEMMA Leaves ==
  ASSUME Undisturbed, NEW a \in Actor, Bystanders(a), UNCHANGED kickoffs,
         todo'[a] \notin Starting,
         todo[a] = "record" => \A t \in Readings' : t.runs[Here(a)] # {}
  PROVE  Undisturbed'
<1>1. todo'[a] \notin WithChat /\ todo'[a] # "record" BY DEF Starting, WithChat
<1>2. OneStarts' BY DEF Undisturbed, OneStarts, Bystanders
<1>3. Starts' BY <1>1 DEF Undisturbed, Starts, Bystanders, Here, WithChat
<1>4. ASSUME NEW st \in Stage, kickoffs[st] = 1
      PROVE  \/ \E b \in Actor : todo'[b] = "record" /\ Here(b)' = st
             \/ \A t \in Readings' : t.runs[st] # {}
  <2>1. CASE \E b \in Actor \ {a} : todo[b] = "record" /\ Here(b) = st
    BY <2>1 DEF Bystanders, Here
  <2>2. CASE todo[a] = "record" /\ Here(a) = st BY <2>2
  <2>3. CASE \A s \in Readings : s.runs[st] # {} BY <2>3 DEF Bystanders
  <2> QED BY <1>4, <2>1, <2>2, <2>3 DEF Undisturbed, Kicked
<1>5. Kicked' BY <1>4 DEF Undisturbed, Kicked
<1> QED BY <1>2, <1>3, <1>5 DEF Undisturbed

\* It leaves with an error, and the run it may have started is forgotten.
LEMMA Forgotten ==
  ASSUME BacklogInv, Undisturbed, NEW a \in Actor, Bystanders(a), todo[a] \in Starting,
         kickoffs' = [kickoffs EXCEPT ![Here(a)] = 0], todo'[a] \notin Starting
  PROVE  Undisturbed'
<1>1. todo'[a] \notin WithChat /\ todo'[a] # "record" BY DEF Starting, WithChat
<1>2. OneStarts' BY DEF Undisturbed, OneStarts, Bystanders
<1>3. Here(a) \in Stage /\ kickoffs \in [Stage -> 0 .. Many]
  BY StartingHere DEF BacklogInv, OutsideOK
<1>4. kickoffs'[Here(a)] = 0 /\ \A st \in Stage \ {Here(a)} : kickoffs'[st] = kickoffs[st]
  BY <1>3
<1>5. Starts'
  <2>1. ASSUME NEW b \in Actor, b # a
        PROVE  /\ todo'[b] \in WithChat => \A t \in Readings' : Here(b) \in t.stages
               /\ todo'[b] \in {"bind", "prepare", "submit"} => kickoffs'[Here(b)] = 0
    <3>1. todo'[b] = todo[b] BY <2>1 DEF Bystanders
    <3>2. todo[b] \in {"bind", "prepare", "submit"} => todo[b] \in Starting BY DEF Starting
    <3> QED BY <1>4, <3>1, <3>2, StartingHere DEF Undisturbed, Starts, Bystanders
  <2> QED BY <1>1, <2>1 DEF Starts, Bystanders, Here, WithChat
<1>6. ASSUME NEW st \in Stage, kickoffs'[st] = 1
      PROVE  \/ \E b \in Actor : todo'[b] = "record" /\ Here(b)' = st
             \/ \A t \in Readings' : t.runs[st] # {}
  <2>1. st # Here(a) /\ kickoffs[st] = 1 BY <1>4, <1>6
  <2>2. CASE \E b \in Actor : todo[b] = "record" /\ Here(b) = st
    BY <2>1, <2>2 DEF Bystanders, Here
  <2>3. CASE \A s \in Readings : s.runs[st] # {} BY <2>3 DEF Bystanders
  <2> QED BY <2>1, <2>2, <2>3 DEF Undisturbed, Kicked
<1>7. Kicked' BY <1>4, <1>6 DEF Undisturbed, Kicked
<1> QED BY <1>2, <1>5, <1>7 DEF Undisturbed

\* It goes on to the next step of the start, for the same handoff.
LEMMA GoesOnStarting ==
  ASSUME Undisturbed, NEW a \in Actor, Bystanders(a), UNCHANGED kickoffs,
         todo[a] \in Starting, todo'[a] \in Starting, Item(a)' = Item(a),
         todo[a] = "record" <=> todo'[a] = "record",
         todo'[a] \in WithChat => \A t \in Readings' : Here(a) \in t.stages,
         todo'[a] \in {"bind", "prepare", "submit"} => kickoffs[Here(a)] = 0
  PROVE  Undisturbed'
<1>1. Here(a)' = Here(a) BY DEF Here, Item
<1>2. OneStarts' BY DEF Undisturbed, OneStarts, Bystanders
<1>3. Starts' BY <1>1 DEF Undisturbed, Starts, Bystanders, Here
<1>4. ASSUME NEW st \in Stage, kickoffs[st] = 1
      PROVE  \/ \E b \in Actor : todo'[b] = "record" /\ Here(b)' = st
             \/ \A t \in Readings' : t.runs[st] # {}
  <2>1. CASE \E b \in Actor : todo[b] = "record" /\ Here(b) = st
    BY <1>1, <2>1 DEF Bystanders, Here
  <2>2. CASE \A s \in Readings : s.runs[st] # {} BY <2>2 DEF Bystanders
  <2> QED BY <1>4, <2>1, <2>2 DEF Undisturbed, Kicked
<1>5. Kicked' BY <1>4 DEF Undisturbed, Kicked
<1> QED BY <1>2, <1>3, <1>5 DEF Undisturbed

\* It begins the start, and nobody else is at one.
LEMMA BeginsStarting ==
  ASSUME Undisturbed, NEW a \in Actor, Bystanders(a), UNCHANGED kickoffs,
         todo[a] \notin Starting, todo'[a] = "look",
         \A b \in Actor \ {a} : todo[b] \notin Starting
  PROVE  Undisturbed'
<1>1. todo'[a] \notin WithChat /\ \A b \in Actor : todo'[b] # "record" /\ todo[b] # "record"
  BY DEF WithChat, Bystanders, Starting
<1>2. OneStarts' BY DEF OneStarts, Bystanders
<1>3. Starts' BY <1>1 DEF Undisturbed, Starts, Bystanders, Here, WithChat
<1>4. Kicked' BY <1>1 DEF Undisturbed, Kicked, Bystanders
<1> QED BY <1>2, <1>3, <1>4 DEF Undisturbed

\* An actor that turns to something, while the state file stays.
LEMMA TurnsBystanders ==
  ASSUME BacklogInv, NEW a \in Actor, NEW op, NEW c, Turns(a, op, c), UNCHANGED disk
  PROVE  /\ Bystanders(a) /\ Readings' = Readings
         /\ todo'[a] = op /\ (op # "idle" => call'[a] = c)
BY DEF Turns, Bystanders, BacklogInv, ActorsOK, disk, Readings

\* An actor that has read the state for its operation, and is going to write it.
LEMMA HoldsUndisturbed ==
  ASSUME BacklogInv, KickInv, NEW a \in Actor, NEW op, NEW t, NEW c, Holds(a, op, t, c),
         UNCHANGED <<disk, kickoffs>>, seen' = "nothing",
         \/ op = todo[a] /\ c = call[a]
         \/ op \notin Starting /\ todo[a] \notin Starting
  PROVE  Undisturbed'
<1>1. seen = "nothing" BY DEF Holds
<1>2. Undisturbed BY <1>1 DEF KickInv
<1>3. /\ todo'[a] = op /\ call'[a] = c /\ Readings' = Readings /\ Bystanders(a)
  BY DEF Holds, Bystanders, BacklogInv, ActorsOK, disk, Readings
<1>4. CASE op \in Starting
  BY <1>2, <1>3, <1>4, GoesOnStarting DEF Undisturbed, Starts, Item
<1>5. CASE op \notin Starting
  BY <1>2, <1>3, <1>5, Leaves DEF Starting
<1> QED BY <1>4, <1>5

LEMMA ProdKeepsEnqueuing == BacklogInv /\ ProdEnqueues /\ [Next]_vars => ProdEnqueues'
<1> SUFFICES ASSUME BacklogInv, ProdEnqueues, [Next]_vars PROVE ProdEnqueues' OBVIOUS
<1>0. Prod \in Actor /\ Loop # Prod /\ Runner # Prod /\ todo \in [Actor -> Todo]
  BY ActorAssumption DEF Actor, BacklogInv, ActorsOK
<1>1. ASSUME NEW h \in Handoff, Serve(h) \/ EnqueueAgain(h) PROVE ProdEnqueues'
  <2>1. CASE Enqueue(h) \/ EnqueueAgain(h)
    BY <1>0, <2>1 DEF Enqueue, EnqueueAgain, Holds, ProdEnqueues
  <2>2. CASE Notify(h) \/ Tick(h) BY <1>0, <2>2 DEF Notify, Tick, Turns, ProdEnqueues
  <2>3. ASSUME NEW w \in Worker, AskMaterialize(h, w) \/ Pick(h, w) PROVE ProdEnqueues'
    BY <1>0, <2>3 DEF AskMaterialize, Pick, Turns, Holds, ProdEnqueues
  <2> QED BY <1>1, <2>1, <2>2, <2>3 DEF Serve
<1>2. ASSUME NEW a \in Actor, TakeItem(a) \/ StartChat(a) PROVE ProdEnqueues'
  <2>1. CASE Claim(a) \/ Materialize(a) \/ Bind(a) \/ Record(a) \/ Annotate(a)
    BY <1>0, <2>1 DEF Claim, Materialize, Bind, Record, Annotate, Holds, ProdEnqueues
  <2>2. CASE ClaimDone(a) \/ ClaimRefused(a) \/ MaterializeDone(a) \/ MaterializeRefused(a)
    BY <1>0, <2>2 DEF ClaimDone, ClaimRefused, MaterializeDone, MaterializeRefused, Begins, Turns, ProdEnqueues
  <2>3. CASE Materialized(a) \/ Blocked(a)
    BY <2>3 DEF Materialized, Blocked, Changes, ProdEnqueues
  <2>4. CASE FindRun(a) \/ FindChat(a) \/ CreateChat(a) \/ Prepare(a) \/ Submit(a) \/ SubmitRaises(a) \/ Skip(a)
    BY <1>0, <2>4 DEF FindRun, FindChat, CreateChat, Prepare, Submit, SubmitRaises, Skip, Turns, ProdEnqueues
  <2>5. CASE Lost(a) \/ SubmitFails(a)
    BY <1>0, <2>5 DEF Lost, SubmitFails, Raises, Turns, ProdEnqueues, Starting
  <2> QED BY <1>2, <2>1, <2>2, <2>3, <2>4, <2>5 DEF TakeItem, StartChat
<1>3. ASSUME NEW a \in Actor, Write(a) PROVE ProdEnqueues'
  <2>1. CASE Open(a) BY <2>1 DEF Open, ProdEnqueues
  <2>2. CASE Replace(a)
    BY <1>0, <2>2 DEF Replace, Begins, Turns, Follows, ProdEnqueues
  <2>3. CASE ReplaceFails(a) \/ WriteFails(a)
    BY <1>0, <2>3 DEF ReplaceFails, WriteFails, Raises, Turns, ProdEnqueues, Starting
  <2> QED BY <1>3, <2>1, <2>2, <2>3 DEF Write
<1>4. CASE StopDev \/ StopProd
  BY <1>0, <1>4 DEF StopDev, StopProd, Stop, ProdEnqueues
<1>5. CASE UNCHANGED vars BY <1>5 DEF vars, ProdEnqueues
<1> QED BY <1>1, <1>2, <1>3, <1>4, <1>5 DEF Next, GoesOn, Rests

LEMMA ServeUndisturbed ==
  ASSUME BacklogInv, KickInv, NEW h \in Handoff, Serve(h) \/ EnqueueAgain(h), seen' = "nothing"
  PROVE  Undisturbed'
<1>0. {Prod, Loop, Runner} \subseteq Actor BY DEF Actor
<1>1. {"idle", "enqueue", "pick", "claim", "materialize"} \cap Starting = {} BY DEF Starting
<1>2. CASE Enqueue(h)
  <2>1. PICK t, c : Holds(Prod, "enqueue", t, c) BY <1>2 DEF Enqueue
  <2> QED BY <1>0, <1>1, <1>2, <2>1, HoldsUndisturbed DEF Enqueue, external
<1>3. ASSUME NEW w \in Worker, Pick(h, w) PROVE Undisturbed'
  <2>1. PICK t, c : Holds(Loop, "pick", t, c) BY <1>3 DEF Pick
  <2> QED BY <1>0, <1>1, <1>3, <2>1, HoldsUndisturbed DEF Pick, external
<1>4. ASSUME NEW a \in Actor, todo[a] = "idle", NEW op \in {"claim", "materialize"}, NEW c,
             Turns(a, op, c), UNCHANGED <<disk, external, ghosts>>
      PROVE  Undisturbed'
  <2>1. Undisturbed BY <1>4 DEF KickInv, ghosts
  <2> QED BY <1>1, <1>4, <2>1, TurnsBystanders, Leaves DEF external
<1>5. CASE Notify(h) \/ Tick(h) BY <1>0, <1>4, <1>5 DEF Notify, Tick
<1>6. ASSUME NEW w \in Worker, AskMaterialize(h, w) PROVE Undisturbed' BY <1>0, <1>4, <1>6 DEF AskMaterialize
<1>7. CASE EnqueueAgain(h)
  BY <1>7 DEF EnqueueAgain, KickInv, Undisturbed, OneStarts, Starts, Kicked, disk, external, Readings, Here
<1> QED BY <1>2, <1>3, <1>5, <1>6, <1>7 DEF Serve

\* What begins with a chat begins alone, or has met another who does.
LEMMA BeginsUndisturbed ==
  ASSUME BacklogInv, KickInv, NEW a \in Actor, NEW op, Begins(a, op), Bystanders(a), UNCHANGED kickoffs,
         op \notin Starting \/ op = "look", todo[a] \notin Starting, seen' = "nothing"
  PROVE  Undisturbed'
<1>1. seen = "nothing" /\ Turns(a, op, call[a]) BY DEF Begins
<1>2. Undisturbed /\ todo'[a] = op BY <1>1 DEF KickInv, Turns, BacklogInv, ActorsOK
<1>3. CASE op = "look"
  <2>1. \A b \in Actor \ {a} : todo[b] \notin Starting BY <1>1, <1>3 DEF Begins
  <2> QED BY <1>2, <1>3, <2>1, BeginsStarting
<1>4. CASE op \notin Starting BY <1>2, <1>4, Leaves DEF Starting
<1> QED BY <1>3, <1>4

LEMMA TakeItemUndisturbed ==
  ASSUME BacklogInv, KickInv, NEW a \in Actor, TakeItem(a), seen' = "nothing"
  PROVE  Undisturbed'
<1>1. {"idle", "claim", "materialize"} \cap Starting = {} BY DEF Starting
<1>2. CASE Claim(a)
  <2>1. PICK t : Holds(a, "claim", t, call[a]) BY <1>2 DEF Claim
  <2> QED BY <1>2, <2>1, HoldsUndisturbed DEF Claim, external
<1>3. CASE Materialize(a)
  <2>1. PICK t : Holds(a, "materialize", t, call[a]) BY <1>3 DEF Materialize
  <2> QED BY <1>3, <2>1, HoldsUndisturbed DEF Materialize, external
<1>4. CASE ClaimDone(a) \/ MaterializeDone(a)
  <2>1. PICK op \in {"look", "idle"} : Begins(a, op) BY <1>4 DEF ClaimDone, MaterializeDone
  <2>2. todo[a] \notin Starting /\ UNCHANGED disk /\ UNCHANGED kickoffs
    BY <1>1, <1>4 DEF ClaimDone, MaterializeDone, external
  <2> QED BY <1>1, <2>1, <2>2, TurnsBystanders, BeginsUndisturbed DEF Begins
<1>5. CASE ClaimRefused(a) \/ MaterializeRefused(a)
  <2>1. Turns(a, "idle", NoCall) /\ UNCHANGED disk /\ UNCHANGED kickoffs /\ UNCHANGED seen
    BY <1>5 DEF ClaimRefused, MaterializeRefused, external, ghosts
  <2>2. Undisturbed /\ todo[a] # "record" BY <1>5, <2>1 DEF KickInv, ClaimRefused, MaterializeRefused
  <2> QED BY <1>1, <2>1, <2>2, TurnsBystanders, Leaves
<1>6. CASE Materialized(a) \/ Blocked(a)
  <2>1. UNCHANGED <<disk, todo, call, kickoffs, seen>>
    BY <1>6 DEF Materialized, Blocked, Changes, ghosts
  <2> QED BY <2>1 DEF KickInv, Undisturbed, OneStarts, Starts, Kicked, disk, Readings, Here
<1> QED BY <1>2, <1>3, <1>4, <1>5, <1>6 DEF TakeItem

\* A stage whose chat is looked for has no kickoff, if it has no run.
LEMMA NoKickoffYet ==
  ASSUME BacklogInv, Undisturbed, Current, NEW a \in Actor, todo[a] = "look",
         NEW s \in Readings, Unrun(s, Here(a))
  PROVE  kickoffs[Here(a)] = 0 /\ \A t \in Readings : Here(a) \in t.stages
<1>1. Here(a) \in Stage BY StartingHere DEF Starting
<1>2. kickoffs[Here(a)] \in 0 .. Many /\ kickoffs[Here(a)] <= 1
  BY <1>1 DEF BacklogInv, OutsideOK, Undisturbed, Kicked
<1>3. kickoffs[Here(a)] # 1
  <2>1. \A b \in Actor : todo[b] # "record" BY DEF Undisturbed, OneStarts, Starting
  <2> QED BY <1>1, <2>1 DEF Undisturbed, Kicked, Unrun
<1>4. \A t \in Readings : Here(a) \in t.stages BY DEF Current, Unrun
<1> QED BY <1>2, <1>3, <1>4 DEF Many

LEMMA StartChatUndisturbed ==
  ASSUME BacklogInv, OrderInv, KickInv, NEW a \in Actor, StartChat(a), seen' = "nothing"
  PROVE  Undisturbed'
<1>1. CASE FindRun(a) \/ Lost(a) \/ SubmitFails(a) \/ Skip(a)
  <2>1. PICK op \in {"note", "complain", "idle"} : \E c : Turns(a, op, c)
    BY <1>1 DEF FindRun, Lost, SubmitFails, Skip, Raises
  <2>2. UNCHANGED disk /\ Undisturbed
    BY <1>1 DEF FindRun, Lost, SubmitFails, Skip, ghosts, KickInv
  <2>3. todo[a] # "record"
    BY <1>1, <2>2 DEF FindRun, Lost, SubmitFails, Skip, Undisturbed, Starts, WithChat
  <2>6. UNCHANGED kickoffs BY <1>1, <2>3 DEF FindRun, Lost, SubmitFails, Skip, Raises, external
  <2>4. op \notin Starting BY DEF Starting
  <2>5. PICK c : Turns(a, op, c) BY <2>1
  <2> QED BY <2>2, <2>3, <2>4, <2>5, <2>6, TurnsBystanders, Leaves
<1>6. CASE SubmitRaises(a)
  <2>1. /\ todo[a] = "submit" /\ UNCHANGED disk /\ Undisturbed /\ Turns(a, "complain", call[a])
        /\ kickoffs' = [kickoffs EXCEPT ![Here(a)] = 0]
    BY <1>6 DEF SubmitRaises, Forgets, ghosts, KickInv
  <2>2. Bystanders(a) /\ todo'[a] = "complain" BY <2>1, TurnsBystanders
  <2>3. todo[a] \in Starting /\ todo'[a] \notin Starting BY <2>1, <2>2 DEF Starting
  <2> QED BY <2>1, <2>2, <2>3, Forgotten
<1>2. CASE FindChat(a) \/ CreateChat(a)
  <2>1. PICK s \in Readings, c \in Chat \cup UNION {r.bound[Here(a)] : r \in Readings} :
           Unrun(s, Here(a)) /\ Turns(a, "bind", [call[a] EXCEPT !.chat = c])
    BY <1>2 DEF FindChat, CreateChat
  <2>2. /\ todo[a] = "look" /\ UNCHANGED disk /\ UNCHANGED kickoffs
        /\ Undisturbed /\ Current
    BY <1>2 DEF FindChat, CreateChat, external, ghosts, KickInv, OrderInv, Orderly
  <2>3. call[a] \in Call BY <2>2, CallFields DEF BacklogInv
  <2>4. Item(a)' = Item(a)
    BY <2>1, <2>3, TurnsBystanders, <2>2 DEF Item, Call
  <2>5. kickoffs[Here(a)] = 0 /\ \A t \in Readings : Here(a) \in t.stages
    BY <2>1, <2>2, NoKickoffYet
  <2>6. Bystanders(a) /\ todo'[a] = "bind" /\ Readings' = Readings BY <2>1, <2>2, TurnsBystanders
  <2> QED BY <2>2, <2>4, <2>5, <2>6, GoesOnStarting DEF Starting
<1>3. CASE Prepare(a)
  <2>1. /\ Turns(a, "submit", call[a]) /\ todo[a] = "prepare" /\ UNCHANGED disk
        /\ UNCHANGED kickoffs /\ Undisturbed
    BY <1>3 DEF Prepare, external, ghosts, KickInv
  <2>2. /\ Bystanders(a) /\ todo'[a] = "submit" /\ Readings' = Readings /\ Item(a)' = Item(a)
    BY <2>1, TurnsBystanders DEF Item
  <2>3. kickoffs[Here(a)] = 0 /\ \A t \in Readings : Here(a) \in t.stages
    BY <2>1 DEF Undisturbed, Starts, WithChat
  <2> QED BY <2>1, <2>2, <2>3, GoesOnStarting DEF Starting
<1>4. CASE Bind(a) \/ Record(a) \/ Annotate(a)
  <2>1. PICK t : Holds(a, todo[a], t, call[a]) BY <1>4 DEF Bind, Record, Annotate
  <2>2. UNCHANGED <<disk, kickoffs>> BY <1>4 DEF Bind, Record, Annotate, external
  <2> QED BY <2>1, <2>2, HoldsUndisturbed
<1>5. CASE Submit(a)
  <2>1. /\ Turns(a, "record", call[a]) /\ todo[a] = "submit" /\ UNCHANGED disk
        /\ kickoffs' = [kickoffs EXCEPT ![Here(a)] = More(@)] /\ Undisturbed
    BY <1>5 DEF Submit, ghosts, KickInv
  <2>2. /\ Bystanders(a) /\ todo'[a] = "record" /\ Readings' = Readings /\ Item(a)' = Item(a)
    BY <2>1, TurnsBystanders DEF Item
  <2>3. Here(a) \in Stage /\ Here(a)' = Here(a)
    BY <2>1, <2>2, StartingHere DEF Starting, Here, Item
  <2>4. kickoffs[Here(a)] = 0 /\ \A t \in Readings : Here(a) \in t.stages
    BY <2>1 DEF Undisturbed, Starts, WithChat
  <2>5. kickoffs'[Here(a)] = 1 /\ \A st \in Stage \ {Here(a)} : kickoffs'[st] = kickoffs[st]
    BY <2>1, <2>3, <2>4 DEF More, Many, BacklogInv, OutsideOK
  <2>6. \A b \in Actor \ {a} : todo[b] \notin Starting
    BY <2>1 DEF Undisturbed, OneStarts, Starting
  <2>7. OneStarts' BY <2>2, <2>6 DEF OneStarts, Bystanders
  <2>8. Starts' BY <2>2, <2>3, <2>4, <2>6 DEF Starts, Bystanders, Starting, WithChat
  <2>9. Kicked'
    <3>1. ASSUME NEW st \in Stage, st # Here(a), kickoffs[st] = 1
          PROVE  \A t \in Readings : t.runs[st] # {}
      BY <2>1, <2>6, <3>1 DEF Undisturbed, Kicked, Starting
    <3>2. ASSUME NEW st \in Stage
          PROVE  /\ kickoffs'[st] <= 1
                 /\ kickoffs'[st] = 1 => \/ \E b \in Actor : todo'[b] = "record" /\ Here(b)' = st
                                         \/ \A t \in Readings' : t.runs[st] # {}
      BY <2>1, <2>2, <2>3, <2>5, <3>1 DEF Undisturbed, Kicked
    <3> QED BY <3>2 DEF Kicked
  <2> QED BY <2>7, <2>8, <2>9 DEF Undisturbed
<1> QED BY <1>1, <1>2, <1>3, <1>4, <1>5, <1>6 DEF StartChat

LEMMA WriteUndisturbed ==
  ASSUME BacklogInv, OrderInv, KickInv, NEW a \in Actor, Write(a), seen' = "nothing"
  PROVE  Undisturbed'
<1>1. CASE Open(a)
  BY <1>1 DEF Open, external, ghosts, KickInv, Undisturbed, OneStarts, Starts, Kicked, Readings, Here
<1>2. CASE ReplaceFails(a)
  BY <1>2 DEF ReplaceFails, ghosts, OrderInv, Orderly, Opened
<1>4. CASE WriteFails(a)
  <2>1. /\ Undisturbed /\ UNCHANGED file /\ \E op \in {"complain", "idle"} : Turns(a, op, call[a])
    BY <1>4 DEF WriteFails, Raises, ghosts, KickInv
  <2>2. todo'[a] \notin Starting /\ Readings' = Readings /\ Bystanders(a)
    BY <2>1 DEF Turns, Bystanders, BacklogInv, ActorsOK, Readings, Starting
  <2>3. CASE todo[a] = "record"
    <3>1. kickoffs' = [kickoffs EXCEPT ![Here(a)] = 0] BY <1>4, <2>3 DEF WriteFails, Raises, Forgets
    <3> QED BY <2>1, <2>2, <2>3, <3>1, Forgotten DEF Starting
  <2>4. CASE todo[a] # "record"
    <3>1. UNCHANGED kickoffs BY <1>4, <2>4 DEF WriteFails, Raises
    <3> QED BY <2>1, <2>2, <2>4, <3>1, Leaves
  <2> QED BY <2>3, <2>4
<1>3. CASE Replace(a)
  <2>1. seen = "nothing" /\ Begins(a, Follows(a)) /\ phase[a] = "write" /\ UNCHANGED kickoffs
    BY <1>3 DEF Replace, Begins, external
  <2>2. Undisturbed /\ Orderly BY <2>1 DEF KickInv, OrderInv
  <2>3. Readings' = {copy[a]} BY <1>3, <2>2, WrittenAlone
  <2>4. \A s \in Readings : Follow(todo[a], Item(a), s, copy[a])
    BY <2>1, <2>2 DEF Orderly, Current, Updating
  <2>5. PICK s \in Readings : /\ s.stages \subseteq copy[a].stages
                              /\ \A st \in Stage : s.runs[st] \subseteq copy[a].runs[st]
    BY <2>4, ReadingsExist DEF Follow
  <2>6. Turns(a, Follows(a), call[a]) BY <2>1 DEF Begins
  <2>7. /\ todo'[a] = Follows(a) /\ (Follows(a) # "idle" => call'[a] = call[a])
        /\ \A b \in Actor \ {a} : todo'[b] = todo[b] /\ call'[b] = call[b]
    BY <2>6 DEF Turns, BacklogInv, ActorsOK
  <2>8. Bystanders(a) BY <2>3, <2>5, <2>7 DEF Bystanders
  <2>9. CASE todo[a] = "bind"
    <3>1. Follows(a) = "prepare" BY <2>9 DEF Follows
    <3>2. kickoffs[Here(a)] = 0 /\ \A t \in Readings' : Here(a) \in t.stages
      BY <2>2, <2>3, <2>5, <2>9 DEF Undisturbed, Starts, WithChat
    <3> QED BY <2>1, <2>2, <2>7, <2>8, <2>9, <3>1, <3>2, GoesOnStarting DEF Starting, Item
  <2>10. CASE todo[a] = "record"
    <3>1. Follows(a) = "note" BY <2>10 DEF Follows
    <3>2. copy[a].runs[Here(a)] # {}
      BY <2>4, <2>10, ReadingsExist DEF Follow, Here, Item
    <3> QED BY <2>1, <2>2, <2>3, <2>7, <2>8, <2>10, <3>1, <3>2, Leaves DEF Starting
  <2>11. CASE todo[a] \notin {"bind", "record"}
    <3>1. todo[a] \notin Starting
      BY <2>1, <2>11 DEF BacklogInv, ActorsOK, ActorOK, Updates, Starting
    <3>2. Follows(a) \notin Starting \/ Follows(a) = "look"
      BY <2>11 DEF Follows, Starting
    <3> QED BY <2>1, <2>8, <3>1, <3>2, BeginsUndisturbed
  <2> QED BY <2>9, <2>10, <2>11
<1> QED BY <1>1, <1>2, <1>3, <1>4 DEF Write

LEMMA StopUndisturbed ==
  ASSUME BacklogInv, KickInv, StopDev \/ StopProd, seen' = "nothing" PROVE Undisturbed'
<1>1. Stop({Prod}) /\ UNCHANGED seen BY DEF StopDev, StopProd
<1>2. Undisturbed /\ todo[Prod] \notin Starting BY <1>1 DEF KickInv, ProdEnqueues, Starting
<1>3. /\ todo'[Prod] = "idle" /\ \A b \in Actor \ {Prod} : todo'[b] = todo[b] /\ call'[b] = call[b]
      /\ UNCHANGED <<file, kickoffs>> /\ Readings' = Readings
  BY <1>1 DEF Stop, Actor, external, Readings
<1>4. Bystanders(Prod) BY <1>3 DEF Bystanders
<1> QED BY <1>2, <1>3, <1>4, Leaves DEF Starting, Actor

LEMMA KickInitial == Init => KickInv
BY DEF Init, KickInv, ProdEnqueues, Undisturbed, OneStarts, Starts, Kicked, Starting, WithChat, Actor

LEMMA KickKept == BacklogInv /\ OrderInv /\ KickInv /\ [Next]_vars => KickInv'
<1> SUFFICES ASSUME BacklogInv, OrderInv, KickInv, [Next]_vars, seen' = "nothing" PROVE Undisturbed'
  BY ProdKeepsEnqueuing DEF KickInv
<1>1. ASSUME NEW h \in Handoff, Serve(h) \/ EnqueueAgain(h) PROVE Undisturbed'
  BY <1>1, ServeUndisturbed
<1>2. ASSUME NEW a \in Actor, Write(a) \/ TakeItem(a) \/ StartChat(a) PROVE Undisturbed'
  BY <1>2, WriteUndisturbed, TakeItemUndisturbed, StartChatUndisturbed
<1>3. CASE StopDev \/ StopProd BY <1>3, StopUndisturbed
<1>4. CASE UNCHANGED vars
  BY <1>4 DEF vars, disk, external, ghosts, KickInv, Undisturbed, OneStarts, Starts, Kicked, Readings, Here
<1> QED BY <1>1, <1>2, <1>3, <1>4 DEF Next, GoesOn, Rests

\* As long as no process stops between a kickoff and its record, two actors do not
\* start a stage at once and no operation overlaps another, a stage gets one kickoff,
\* and another only after an error that left the run of the first on no record.
THEOREM KickedOnce == Spec => []OneKickoff
<1>1. Spec => []KickInv BY KickInitial, KickKept, Invariance, InOrder, PTL DEF Spec
<1>2. KickInv => OneKickoff BY DEF KickInv, Undisturbed, Kicked, OneKickoff
<1> QED BY <1>1, <1>2, PTL
=============================================================================
