---------------------------- MODULE FeedbackQueue ----------------------------
(***************************************************************************)
(* The queue of developer feedback: items with a screenshot, and batches   *)
(* that were given to an agent, in one JSON file.                          *)
(* (backend/app/application/services/feedback_queue_service.py and the     *)
(* feedback routes of backend/app/api/routes.py)                           *)
(*                                                                         *)
(* Every operation loads the items or the batches, changes its copy, loads *)
(* the whole file again, puts its part in and replaces the file.  Nothing  *)
(* locks it; a request calls one operation after the other, each on a      *)
(* thread of the pool.                                                     *)
(***************************************************************************)
EXTENDS Naturals, SequencesExt

CONSTANTS
  Item, Batch,  \* ids that clients choose
  ItemsOf,      \* the items of a batch, in order
  Spoken,       \* the items that come with a recording to transcribe
  Request,      \* requests under way at a time
  MaxRequests   \* bound on all requests

ASSUME FeedbackAssumption ==
  /\ ItemsOf \in [Batch -> Seq(Item) \ {<<>>}]
  /\ Spoken \subseteq Item
  /\ MaxRequests \in Nat

VARIABLES
  file,         \* the JSON file: items and batches
  media,        \* the items whose screenshot is stored
  sent,         \* the items that an agent has been given
  job,          \* the first job of a batch
  follow,       \* batches whose agents go on after that job
  plan,         \* what each request has still to do
  step,         \* where it is in its next operation
  copy,         \* the copy it works on
  record,       \* the batch it answers about
  posted,       \* batches that have been posted
  asked,        \* number of requests so far
  crashed,      \* the backend has stopped once
  stale,        \* history: requests whose copy is older than the file
  overlapped,   \* history: an operation has undone another
  disturbed,    \* history: batches with an item that another request created or deleted
  stored,       \* history: which items the request of a batch has stored
  broken,       \* history: batches that an error of the disk, or after the job was started, has ended
  bared,        \* history: items whose deletion an error of the disk has ended
  acked         \* history: what has been acknowledged: items, batches, marks

world == <<media, sent, job, follow>>
requests == <<plan, step, copy, record, posted, asked, crashed>>
history == <<stale, overlapped, disturbed, stored, broken, bared, acked>>
vars == <<file, world, requests, history>>

Absent == [status |-> "none", target |-> FALSE]
NoBatch == [kept |-> FALSE, summary |-> FALSE, notified |-> FALSE, read |-> FALSE]

ItemRow == {Absent} \cup [status : {"pending", "submitted"}, target : BOOLEAN]
BatchRow == {NoBatch} \cup [kept : {TRUE}, summary : BOOLEAN, notified : BOOLEAN, read : BOOLEAN]
File == [items : [Item -> ItemRow], batches : [Batch -> BatchRow]]

-----------------------------------------------------------------------------
(* Operations on the file                                                   *)

Do(op, x) == [do |-> op, on |-> x]
All == "all"

OnItems == {"create", "mark", "transcribe", "delete", "clear"}
OnBatches == {"enter", "summary", "notify", "read", "unread"}
Part(o) == IF o.do \in OnItems THEN "items" ELSE "batches"

\* Faulty form: an operation on what is not there puts it in.
FindsAnything(f, o) == TRUE

\* The others raise KeyError for what is not there.
Finds(f, o) ==
  CASE o.do \in {"mark", "transcribe", "delete"} -> f.items[o.on] # Absent
    [] o.do \in OnBatches \ {"enter"} -> f.batches[o.on].kept
    [] OTHER -> TRUE

\* mark_submitted and set_audio_transcript build the item anew, without its target.
Changed(f, o) ==
  CASE o.do = "create" -> [f EXCEPT !.items[o.on] = [status |-> "pending", target |-> TRUE]]
    [] o.do = "mark" -> [f EXCEPT !.items[o.on] = [status |-> "submitted", target |-> FALSE]]
    [] o.do = "transcribe" -> [f EXCEPT !.items[o.on].target = FALSE]
    [] o.do = "delete" -> [f EXCEPT !.items[o.on] = Absent]
    [] o.do = "clear" -> [f EXCEPT !.items = [i \in Item |-> Absent]]
    [] o.do = "enter" -> [f EXCEPT !.batches[o.on] = [NoBatch EXCEPT !.kept = TRUE]]
    [] o.do = "summary" -> [f EXCEPT !.batches[o.on].summary = TRUE]
    [] o.do = "notify" -> [f EXCEPT !.batches[o.on].notified = TRUE]
    [] o.do = "read" -> [f EXCEPT !.batches[o.on].notified = TRUE, !.batches[o.on].read = TRUE]
    [] o.do = "unread" -> [f EXCEPT !.batches[o.on].notified = TRUE, !.batches[o.on].read = FALSE]

\* The items that an operation on f deletes, and those it puts in or takes out.
Deletes(f, o) ==
  CASE o.do = "delete" -> {o.on}
    [] o.do = "clear" -> {i \in Item : f.items[i] # Absent}
    [] OTHER -> {}
Touches(f, o) == IF o.do = "create" THEN {o.on} ELSE Deletes(f, o)

-----------------------------------------------------------------------------
(* Requests                                                                 *)

ForEach(b, op) == [k \in DOMAIN ItemsOf[b] |-> Do(op, ItemsOf[b][k])]

\* Faulty form: the items are marked before they are submitted.
StartBatchMarkingFirst(b) ==
  ForEach(b, "create") \o <<Do("check", b)>> \o ForEach(b, "mark") \o <<Do("submit", b), Do("enter", b)>>

\* POST /feedback-batches/start-session
StartBatch(b) ==
  ForEach(b, "create") \o <<Do("check", b)>> \o ForEach(b, "transcribe") \o <<Do("submit", b)>>
    \o ForEach(b, "mark") \o <<Do("enter", b)>>

Routes ==
  (UNION {{<<Do("create", i)>>, <<Do("delete", i)>>,
           <<Do("find", i), Do("send", i), Do("mark", i)>>} : i \in Item})
    \cup {<<Do("clear", All)>>}
    \cup {<<Do(op, b), Do("respond", b)>> : op \in {"look", "read", "unread"}, b \in posted}

\* Faulty form: a batch that cannot go on leaves its items.
UndoNothing(b, n) == <<>>

\* What deletes the first n items of b, until one is not there, and raises.
Undone(b, n) == SubSeq(ForEach(b, "delete"), 1, n) \o <<Do("raise", b)>>

\* The finally clause of a batch deletes its items, and its except clause those that it
\* has stored so far; other requests answer with an error at once.
Undo(p) == IF Last(p).do = "enter" THEN Undone(Last(p).on, Len(ItemsOf[Last(p).on])) ELSE <<>>
UndoStored(p) ==
  IF Last(p).do = "enter" THEN Undone(Last(p).on, Len(StartBatch(Last(p).on)) - Len(p)) ELSE <<>>

\* The batch that r starts, and whether the request that starts b is under way.
BatchOf(r) == {b \in Batch : plan[r] # <<>> /\ Last(plan[r]) \in {Do("enter", b), Do("raise", b)}}
Starting(b) == \E r \in Request : b \in BatchOf(r)

Turns(r, p) ==
  /\ plan' = [plan EXCEPT ![r] = p]
  /\ step' = [step EXCEPT ![r] = "start"]

At(r, ops) == plan[r] # <<>> /\ step[r] = "start" /\ Head(plan[r]).do \in ops

Ask(r) ==
  /\ plan[r] = <<>> /\ asked < MaxRequests
  /\ asked' = asked + 1
  /\ \/ \E p \in Routes : Turns(r, p) /\ UNCHANGED posted
     \/ \E b \in Batch \ posted : Turns(r, StartBatch(b)) /\ posted' = posted \cup {b}
  /\ UNCHANGED <<file, world, copy, record, crashed, history>>

-----------------------------------------------------------------------------
(* One operation of a request                                               *)

\* Whether r has begun to delete i, or to create it.
Deleting(r, i) == step[r] \in {"unlink", "reload", "replace"} /\ Head(plan[r]) \in {Do("delete", i), Do("clear", All)}
Creating(r, i) == step[r] \in {"load", "reload", "replace"} /\ Head(plan[r]) = Do("create", i)

\* create_item writes the screenshot first.
StoreMedia(r) ==
  /\ At(r, {"create"})
  /\ step' = [step EXCEPT ![r] = "load"]
  /\ media' = media \cup {Head(plan[r]).on}
  /\ overlapped' = (overlapped \/ \E q \in Request : Deleting(q, Head(plan[r]).on))
  /\ UNCHANGED <<file, sent, job, follow, plan, copy, record, posted, asked, crashed,
                 stale, disturbed, stored, broken, bared, acked>>

\* A ValueError there (an id that names no file) undoes a batch so far; an OSError
\* passes its except clause by and ends it.  A part may have been written.
StoreMediaFails(r) ==
  /\ At(r, {"create"})
  /\ media' \in {media, media \cup {Head(plan[r]).on}}
  /\ \/ Turns(r, UndoStored(plan[r])) /\ UNCHANGED broken
     \/ Turns(r, <<>>) /\ broken' = broken \cup BatchOf(r)
  /\ UNCHANGED <<file, sent, job, follow, copy, record, posted, asked, crashed,
                 stale, overlapped, disturbed, stored, bared, acked>>

CanLoad(r) ==
  \/ plan[r] # <<>> /\ step[r] = "load"
  \/ At(r, (OnItems \cup OnBatches) \ {"create", "transcribe", "notify"})
  \/ At(r, {"transcribe"}) /\ Head(plan[r]).on \in Spoken
  \/ At(r, {"notify"}) /\ ~record[r].notified

\* An entry that is there already needs no change.
Idle(f, o) == o.do = "notify" /\ f.batches[o.on].notified

Load(r) ==
  LET o == Head(plan[r]) IN
  /\ CanLoad(r) /\ Finds(file, o) /\ ~Idle(file, o)
  /\ IF o.do \in {"delete", "clear"}
     THEN copy' = [copy EXCEPT ![r] = file] /\ step' = [step EXCEPT ![r] = "unlink"]
     ELSE copy' = [copy EXCEPT ![r] = Changed(file, o)] /\ step' = [step EXCEPT ![r] = "reload"]
  /\ stale' = stale \ {r}
  /\ disturbed' = disturbed \cup {b \in posted \ BatchOf(r) : Touches(file, o) \cap ToSet(ItemsOf[b]) # {}}
  /\ acked' = acked \ ({Do("create", i) : i \in Deletes(file, o)} \cup
                       (IF o.do = "unread" THEN {Do("read", o.on)} ELSE {}))
  /\ UNCHANGED <<file, world, plan, record, posted, asked, crashed, overlapped, stored, broken, bared>>

LoadFails(r) ==
  /\ CanLoad(r) /\ ~Finds(file, Head(plan[r]))
  /\ Turns(r, Undo(plan[r]))
  /\ UNCHANGED <<file, world, copy, record, posted, asked, crashed, history>>

Skip(r) ==
  /\ \/ At(r, {"notify"}) /\ record[r].notified
     \/ CanLoad(r) /\ Idle(file, Head(plan[r]))
     \/ At(r, {"transcribe"})           \* no recording, or no transcript
     \/ At(r, {"raise"})
  /\ Turns(r, Tail(plan[r]))
  /\ UNCHANGED <<file, world, copy, record, posted, asked, crashed, history>>

\* Faulty form: the directory of the screenshots is emptied.
ClearedDirectory(r) == IF Head(plan[r]).do = "clear" THEN media ELSE {Head(plan[r]).on}

\* The screenshots that r deletes: those of the items that it has loaded.
Cleared(r) == Deletes(copy[r], Head(plan[r]))

Unlink(r) ==
  /\ step[r] = "unlink"
  /\ step' = [step EXCEPT ![r] = "reload"]
  /\ media' = media \ Cleared(r)
  /\ copy' = [copy EXCEPT ![r] = Changed(copy[r], Head(plan[r]))]
  /\ overlapped' = (overlapped \/ \E q \in Request, i \in Deletes(copy[r], Head(plan[r])) : Creating(q, i))
  /\ UNCHANGED <<file, sent, job, follow, plan, record, posted, asked, crashed,
                 stale, disturbed, stored, broken, bared, acked>>

\* Faulty form: the file is written as it was loaded first.
PageAsLoaded(r) == copy[r]

\* _save_items and _save_batches put their part into the file as it is now.
Page(r) == LET part == Part(Head(plan[r])) IN [file EXCEPT ![part] = copy[r][part]]

Reload(r) ==
  /\ step[r] = "reload"
  /\ step' = [step EXCEPT ![r] = "replace"]
  /\ copy' = [copy EXCEPT ![r] = Page(r)]
  /\ UNCHANGED <<file, world, plan, record, posted, asked, crashed, history>>

Replace(r) ==
  LET o == Head(plan[r])
      b == o.on
  IN
  /\ step[r] = "replace"
  /\ file' = copy[r]
  /\ Turns(r, Tail(plan[r]))
  /\ record' = IF o.do \in OnBatches THEN [record EXCEPT ![r] = copy[r].batches[b]] ELSE record
  /\ stale' = (stale \ {r}) \cup {q \in Request \ {r} :
                \/ step[q] = "replace"
                \/ step[q] \in {"unlink", "reload"} /\ Part(Head(plan[q])) = Part(o)}
  /\ overlapped' = (overlapped \/ r \in stale)
  /\ stored' = IF o.do = "create" THEN stored \cup (BatchOf(r) \X {o.on}) ELSE stored
  /\ acked' = IF o.do \in {"create", "enter", "read"} THEN acked \cup {o} ELSE acked
  /\ UNCHANGED <<world, copy, posted, asked, crashed, disturbed, broken, bared>>

\* _save_payload raises: the file stays, and whatever was done for the operation before.
SaveFails(r) ==
  /\ step[r] \in {"reload", "replace"}
  /\ Turns(r, IF Head(plan[r]).do = "create" THEN <<>> ELSE Undo(plan[r]))
  /\ broken' = broken \cup BatchOf(r)
  /\ bared' = bared \cup {i \in Item : Deleting(r, i)}
  /\ UNCHANGED <<file, world, copy, record, posted, asked, crashed, stale, overlapped, disturbed, stored, acked>>

-----------------------------------------------------------------------------
(* The other steps of a request                                             *)

\* get_item, and the screenshots that are attached.
Attach(r) ==
  LET o == Head(plan[r]) IN
  /\ At(r, {"find", "check"})
  /\ IF o.do = "find" THEN file.items[o.on] # Absent /\ o.on \in media ELSE ToSet(ItemsOf[o.on]) \subseteq media
  /\ Turns(r, Tail(plan[r]))
  /\ UNCHANGED <<file, world, copy, record, posted, asked, crashed, history>>

AttachFails(r) ==
  LET o == Head(plan[r]) IN
  /\ At(r, {"find", "check"})
  /\ IF o.do = "find" THEN file.items[o.on] = Absent \/ o.on \notin media ELSE ~(ToSet(ItemsOf[o.on]) \subseteq media)
  /\ Turns(r, Undo(plan[r]))
  /\ UNCHANGED <<file, world, copy, record, posted, asked, crashed, history>>

\* The job that o asks for is started.
Starts(o) ==
  IF o.do = "send" THEN sent' = sent \cup {o.on} /\ UNCHANGED job
  ELSE sent' = sent \cup ToSet(ItemsOf[o.on]) /\ job' = [job EXCEPT ![o.on] = "running"]

Submit(r) ==
  /\ At(r, {"send", "submit"})
  /\ Turns(r, Tail(plan[r]))
  /\ Starts(Head(plan[r]))
  /\ UNCHANGED <<file, media, follow, copy, record, posted, asked, crashed, history>>

\* submit_message raises after it has started the job.
SubmitRaises(r) ==
  /\ At(r, {"send", "submit"})
  /\ Turns(r, Undo(plan[r]))
  /\ Starts(Head(plan[r]))
  /\ broken' = broken \cup BatchOf(r)
  /\ UNCHANGED <<file, media, follow, copy, record, posted, asked, crashed,
                 stale, overlapped, disturbed, stored, bared, acked>>

SubmitFails(r) ==
  /\ At(r, {"send", "submit"})
  /\ Turns(r, Undo(plan[r]))
  /\ UNCHANGED <<file, world, copy, record, posted, asked, crashed, history>>

\* get_batch
Look(r) ==
  LET b == Head(plan[r]).on IN
  /\ At(r, {"look"})
  /\ Turns(r, IF file.batches[b].kept THEN Tail(plan[r]) ELSE <<>>)
  /\ record' = [record EXCEPT ![r] = file.batches[b]]
  /\ UNCHANGED <<file, world, copy, posted, asked, crashed, history>>

\* _feedback_batch_status_response: when the job is over, a summary and a
\* notification are made, unless the batch has them.
Respond(r) ==
  LET b == Head(plan[r]).on IN
  /\ At(r, {"respond"})
  /\ Turns(r, IF job[b] # "over" THEN <<>>
              ELSE IF record[r].summary THEN <<Do("notify", b)>> ELSE <<Do("summary", b), Do("notify", b)>>)
  /\ UNCHANGED <<file, world, copy, record, posted, asked, crashed, history>>

-----------------------------------------------------------------------------
(* Agents, crashes                                                          *)

JobEnds(b) ==
  /\ job[b] = "running"
  /\ job' = [job EXCEPT ![b] = "over"]
  /\ follow' \in {follow, follow \cup {b}}
  /\ UNCHANGED <<file, media, sent, requests, history>>

FollowEnds(b) ==
  /\ b \in follow
  /\ follow' = follow \ {b}
  /\ UNCHANGED <<file, media, sent, job, requests, history>>

Crash ==
  /\ ~crashed /\ \E r \in Request : plan[r] # <<>>
  /\ crashed' = TRUE
  /\ plan' = [r \in Request |-> <<>>]
  /\ step' = [r \in Request |-> "start"]
  /\ UNCHANGED <<file, world, copy, record, posted, asked, history>>

Init ==
  /\ file = [items |-> [i \in Item |-> Absent], batches |-> [b \in Batch |-> NoBatch]]
  /\ media = {} /\ sent = {} /\ job = [b \in Batch |-> "none"] /\ follow = {}
  /\ plan = [r \in Request |-> <<>>] /\ step = [r \in Request |-> "start"]
  /\ copy = [r \in Request |-> file] /\ record = [r \in Request |-> NoBatch]
  /\ posted = {} /\ asked = 0 /\ crashed = FALSE
  /\ stale = {} /\ overlapped = FALSE /\ disturbed = {} /\ stored = {} /\ broken = {} /\ bared = {} /\ acked = {}

Next ==
  \/ \E r \in Request :
       \/ Ask(r) \/ StoreMedia(r) \/ StoreMediaFails(r) \/ Load(r) \/ LoadFails(r) \/ Skip(r)
       \/ Unlink(r) \/ Reload(r) \/ Replace(r) \/ SaveFails(r) \/ Attach(r) \/ AttachFails(r)
       \/ Submit(r) \/ SubmitRaises(r) \/ SubmitFails(r) \/ Look(r) \/ Respond(r)
  \/ \E b \in Batch : JobEnds(b) \/ FollowEnds(b)
  \/ Crash

Spec == Init /\ [][Next]_vars

-----------------------------------------------------------------------------
(* Properties.                                                              *)

\* Every variable has its type; no operation leaves an entry of which only a part
\* was ever stored.
TypeOK ==
  /\ file \in File
  /\ media \subseteq Item /\ sent \subseteq Item
  /\ job \in [Batch -> {"none", "running", "over"}] /\ follow \subseteq Batch
  /\ step \in [Request -> {"start", "load", "unlink", "reload", "replace"}]
  /\ copy \in [Request -> File] /\ record \in [Request -> BatchRow]
  /\ posted \subseteq Batch /\ asked \in 0 .. MaxRequests
  /\ stale \subseteq Request /\ disturbed \subseteq Batch
  /\ stored \subseteq Batch \X Item /\ broken \subseteq Batch /\ bared \subseteq Item

\* However its versions mix, what the file says happened did happen: submitted
\* items and recorded batches were given to an agent, a summary was written when
\* the job was over, and what is marked as read had a notification.
FileTruthful ==
  /\ \A i \in Item : file.items[i].status = "submitted" => i \in sent
  /\ \A b \in Batch : LET row == file.batches[b] IN
       /\ row.kept => job[b] # "none"
       /\ row.summary => row.kept /\ job[b] = "over"
       /\ row.read => row.notified /\ row.kept

\* What has been acknowledged stays until somebody deletes it: items, batches and marks.
AcceptedStays == \A o \in acked :
  CASE o.do = "create" -> file.items[o.on] # Absent
    [] o.do = "enter" -> file.batches[o.on].kept
    [] o.do = "read" -> file.batches[o.on].read

\* It does so unless an operation replaced what another had written since it was loaded.
Kept == overlapped \/ AcceptedStays

\* Under the same condition, and unless the backend stops in between, an item of the
\* file has its screenshot until somebody deletes it, or an error ends its deletion.
Illustrated ==
  ~overlapped /\ ~crashed => \A i \in Item \ bared :
    file.items[i] # Absent => i \in media \/ \E r \in Request : step[r] # "unlink" /\ Deleting(r, i)

\* Whether b names no item twice.
Distinct(b) == \A j, k \in DOMAIN ItemsOf[b] : ItemsOf[b][j] = ItemsOf[b][k] => j = k

\* Under the same conditions, if the batch names no item twice, and if nobody else
\* creates or deletes its items, a batch on record was started with all its items, and
\* another has left none that it stored, unless an error of the disk, or after the job was started,
\* has ended it.
BatchWhole ==
  \A b \in posted \ disturbed :
    Distinct(b) /\ ~overlapped /\ ~crashed /\ ~Starting(b) =>
      IF file.batches[b].kept
      THEN job[b] # "none" /\ \A i \in ToSet(ItemsOf[b]) : file.items[i].status = "submitted"
      ELSE \/ b \in broken
           \/ job[b] = "none" /\ \A i \in ToSet(ItemsOf[b]) : <<b, i>> \in stored => file.items[i] = Absent

(* What texts and tests say besides.                                        *)

\* A batch that an agent works on is recorded.
JobsRecorded == \A b \in posted : job[b] # "none" /\ ~crashed /\ ~Starting(b) => file.batches[b].kept

\* A batch is started as a whole or not at all.
AllOrNothing ==
  \A b \in posted \ disturbed : ~overlapped /\ ~crashed /\ ~Starting(b) =>
    \A i \in ToSet(ItemsOf[b]) :
      IF job[b] = "none" THEN <<b, i>> \in stored => file.items[i] = Absent ELSE file.items[i].status = "submitted"

\* A batch is reported as completed when the whole workflow is done.
CompleteIsDone == \A b \in Batch : file.batches[b].summary => b \notin follow

\* An item keeps the target that it was stored with.
TargetStays == \A i \in Item : file.items[i] # Absent => file.items[i].target
=============================================================================
