------------------------ MODULE FeedbackQueueProofs ------------------------
(***************************************************************************)
(* Proofs about the queue of feedback, for every number of items, batches  *)
(* and requests: what the file says is true; what was acknowledged stays,  *)
(* items have their screenshots and batches are started as a whole, unless *)
(* an operation undid another.                                             *)
(***************************************************************************)
EXTENDS FeedbackQueue, SequenceTheorems, TLAPS

-----------------------------------------------------------------------------
(* What is left of a request.                                               *)

Op ==
  [do : {"create", "mark", "transcribe", "delete", "find", "send"}, on : Item]
    \cup [do : OnBatches \cup {"check", "submit", "raise", "look", "respond"}, on : Batch]
    \cup {Do("clear", All)}

Size(b) == Len(ItemsOf[b])
Final(b) == 3 * Size(b) + 3

\* Positions <<j, n>> at the j-th operation of what deletes the first n items of b.
Ends(b) == {e \in (1 .. Size(b) + 1) \X (0 .. Size(b)) : e[1] <= e[2] + 1}
Over(e) == e[1] = e[2] + 1
After(e) == <<e[1] + 1, e[2]>>
Rest(b, e) == SubSeq(Undone(b, e[2]), e[1], e[2] + 1)

\* r is at position k of what starts b, or of what deletes items of it.
StartsAt(r, b, k) == k \in 1 .. Final(b) /\ plan[r] = SubSeq(StartBatch(b), k, Final(b))
UndoesAt(r, b, k) == k \in Ends(b) /\ plan[r] = Rest(b, k)
Underway(r, b) == \E k \in 1 .. Final(b) : StartsAt(r, b, k)
Carries(r, b) == (\E k \in 1 .. Final(b) : StartsAt(r, b, k)) \/ (\E k \in Ends(b) : UndoesAt(r, b, k))

\* What other requests have still to do, when the items S were given to an agent, the
\* batches P were posted and the jobs of D are over.
ShortOf(p, S, P, D) ==
  \/ p = <<>>
  \/ \E i \in Item : p \in {<<Do("create", i)>>, <<Do("delete", i)>>, <<Do("send", i), Do("mark", i)>>,
                            <<Do("find", i), Do("send", i), Do("mark", i)>>}
  \/ \E i \in S : p = <<Do("mark", i)>>
  \/ p = <<Do("clear", All)>>
  \/ \E b \in P : p \in {<<Do("look", b), Do("respond", b)>>, <<Do("read", b), Do("respond", b)>>,
                         <<Do("unread", b), Do("respond", b)>>, <<Do("respond", b)>>, <<Do("notify", b)>>}
  \/ \E b \in D : p = <<Do("summary", b), Do("notify", b)>>

Short(p) == ShortOf(p, sent, posted, {b \in posted : job[b] = "over"})

PlanInv ==
  /\ plan \in [Request -> Seq(Op)]
  /\ \A r \in Request : Short(plan[r]) \/ \E b \in posted : Carries(r, b)
  /\ \A b \in Batch : \A r, q \in Request : Carries(r, b) /\ Carries(q, b) => r = q
  /\ \A b \in Batch : \A r \in Request : \A k \in 1 .. Final(b) : StartsAt(r, b, k) =>
       IF k <= 2 * Size(b) + 2 THEN job[b] = "none" ELSE job[b] # "none" /\ ToSet(ItemsOf[b]) \subseteq sent
  /\ \A b \in Batch \ posted : job[b] = "none"

\* At which steps of an operation a request may be.
StepInv == \A r \in Request :
  /\ step[r] # "start" => plan[r] # <<>>
  /\ step[r] = "load" => Head(plan[r]).do = "create"
  /\ step[r] = "unlink" => Head(plan[r]).do \in {"delete", "clear"}
  /\ step[r] \in {"reload", "replace"} => Head(plan[r]).do \in OnItems \cup OnBatches

-----------------------------------------------------------------------------
(* What the file and the copies of it say.                                  *)

\* The file is true, when the items S were given to an agent and the jobs are J.
TrueOf(f, S, J) ==
  /\ \A i \in Item : f.items[i].status = "submitted" => i \in S
  /\ \A b \in Batch :
       /\ f.batches[b].kept => J[b] # "none"
       /\ f.batches[b].summary => f.batches[b].kept /\ J[b] = "over"
       /\ f.batches[b].read => f.batches[b].notified /\ f.batches[b].kept

Truthful(f) == TrueOf(f, sent, job)

TruthInv == Truthful(file) /\ \A r \in Request : Truthful(copy[r])

\* Batches that store items, or that an error has ended, were posted; these are not entered.
BrokenInv ==
  /\ broken \subseteq posted /\ stored \subseteq posted \X Item
  /\ \A b \in broken, r \in Request : plan[r] # <<>> => Last(plan[r]) # Do("enter", b)

\* A batch is entered once, and nobody reads it before.
OnceInv ==
  /\ \A r \in Request : step[r] \in {"reload", "replace"} /\ Head(plan[r]).do \in OnBatches =>
       copy[r].batches[Head(plan[r]).on].kept
  /\ \A b \in Batch : b \notin posted \/ b \in broken \/ (\E r \in Request : Carries(r, b)) =>
       /\ ~file.batches[b].kept /\ Do("read", b) \notin acked /\ Do("enter", b) \notin acked
       /\ \A q \in Request : copy[q].batches[b].kept =>
            \/ step[q] \in {"start", "load"}
            \/ step[q] \in {"reload", "replace"} /\ Head(plan[q]) = Do("enter", b)

\* A copy that is not stale is the file with one operation.
Fresh(r) ==
  LET o == Head(plan[r]) IN
  /\ step[r] \in {"unlink", "reload", "replace"} => Finds(file, o)
  /\ step[r] = "unlink" => copy[r].items = file.items
  /\ step[r] = "reload" => IF o.do \in OnItems THEN copy[r].items = Changed(file, o).items
                           ELSE copy[r].batches = Changed(file, o).batches
  /\ step[r] = "replace" => copy[r] = Changed(file, o)

\* Nobody was told that what it takes away is there.
Forgotten(r) ==
  LET o == Head(plan[r]) IN
  step[r] \in {"unlink", "reload", "replace"} =>
    /\ \A i \in Item : o \in {Do("delete", i), Do("clear", All)} => Do("create", i) \notin acked
    /\ \A b \in Batch : o = Do("unread", b) => Do("read", b) \notin acked

FreshInv == overlapped \/ \A r \in Request \ stale : Fresh(r)

KeptInv ==
  /\ acked \subseteq [do : {"create"}, on : Item] \cup [do : {"enter", "read"}, on : Batch]
  /\ overlapped \/ (AcceptedStays /\ \A r \in Request \ stale : Forgotten(r))

\* The screenshot of an item that is created is there.
MediaInv == overlapped \/ \A r \in Request, i \in Item : Creating(r, i) => i \in media

-----------------------------------------------------------------------------
(* Batches.                                                                 *)

First(b) == \A i \in Item : <<b, i>> \notin stored

\* Who creates or deletes items of b unseen by it began before b has stored one.
Stranger(q, b) ==
  step[q] \in {"unlink", "reload", "replace"} /\ ~Carries(q, b) =>
    /\ \A i \in ToSet(ItemsOf[b]) : Head(plan[q]) \in {Do("create", i), Do("delete", i)} => First(b)
    /\ Head(plan[q]) = Do("clear", All) => First(b) \/ (\A i \in ToSet(ItemsOf[b]) : file.items[i] = Absent)

\* Who starts b has stored the items before its position, and marked those that it has
\* come to; who deletes them has deleted those before its position, and of those that it
\* stored, no other is gone.
Made(b) == \A r \in Request, k \in 1 .. Final(b) : StartsAt(r, b, k) => \A j \in 1 .. Size(b) :
  /\ <<b, ItemsOf[b][j]>> \in stored <=> j < k
  /\ j < k => file.items[ItemsOf[b][j]] # Absent
  /\ j + 2 * Size(b) + 2 < k => file.items[ItemsOf[b][j]].status = "submitted"
Left(b, k) ==
  /\ job[b] = "none"
  /\ \A j \in 1 .. Size(b) : IF j \in k[1] .. k[2]
       THEN file.items[ItemsOf[b][j]] # Absent /\ <<b, ItemsOf[b][j]>> \in stored
       ELSE <<b, ItemsOf[b][j]>> \in stored => file.items[ItemsOf[b][j]] = Absent

Unmade(b) == \A r \in Request : (\E k \in Ends(b) : UndoesAt(r, b, k)) => \E k \in Ends(b) : UndoesAt(r, b, k) /\ Left(b, k)

\* Once nobody does either, all is there or nothing that was stored.
Settled(b) == (\A r \in Request : ~Carries(r, b)) =>
  \/ /\ job[b] = "none" /\ ~file.batches[b].kept
     /\ \A i \in ToSet(ItemsOf[b]) : <<b, i>> \in stored => file.items[i] = Absent
  \/ /\ job[b] # "none" /\ file.batches[b].kept
     /\ \A i \in ToSet(ItemsOf[b]) : <<b, i>> \in stored /\ file.items[i].status = "submitted"

Whole(b) == Made(b) /\ Unmade(b) /\ Settled(b) /\ \A q \in Request \ stale : Stranger(q, b)

WholeInv == overlapped \/ crashed \/ \A b \in posted \ (disturbed \cup broken) : Distinct(b) => Whole(b)

FeedbackInv ==
  /\ TypeOK /\ PlanInv /\ StepInv /\ TruthInv /\ BrokenInv /\ OnceInv
  /\ FreshInv /\ KeptInv /\ MediaInv /\ Illustrated /\ WholeInv

-----------------------------------------------------------------------------
(* What is left of a request: sequences.                                    *)

\* A batch has items.
LEMMA Sizes ==
  ASSUME NEW b \in Batch
  PROVE  /\ Size(b) \in Nat \ {0} /\ Final(b) \in Nat
         /\ ItemsOf[b] \in Seq(Item) /\ DOMAIN ItemsOf[b] = 1 .. Size(b)
         /\ \A j \in 1 .. Size(b) : ItemsOf[b][j] \in Item
         /\ \A i : i \in ToSet(ItemsOf[b]) <=> \E j \in 1 .. Size(b) : i = ItemsOf[b][j]
<1>1. ItemsOf[b] \in Seq(Item) /\ ItemsOf[b] # <<>>
  BY FeedbackAssumption
<1>2. Size(b) \in Nat \ {0} /\ DOMAIN ItemsOf[b] = 1 .. Size(b)
  BY <1>1, EmptySeq DEF Size
<1> QED BY <1>1, <1>2 DEF Final, ToSet, Size

\* They are items, each at some position.
LEMMA Members ==
  ASSUME NEW b \in Batch, NEW i \in ToSet(ItemsOf[b])
  PROVE  i \in Item /\ \E j \in 1 .. Size(b) : i = ItemsOf[b][j]
<1>1. PICK j \in 1 .. Size(b) : i = ItemsOf[b][j]
  BY Sizes
<1>2. ItemsOf[b][j] \in Item
  BY Sizes
<1> QED BY <1>1, <1>2

\* The elements of a concatenation.
LEMMA Joined ==
  ASSUME NEW S, NEW s \in Seq(S), NEW t \in Seq(S)
  PROVE  /\ s \o t \in Seq(S) /\ Len(s \o t) = Len(s) + Len(t)
         /\ \A j \in 1 .. Len(s) : (s \o t)[j] = s[j]
         /\ \A j \in 1 .. Len(t) : (s \o t)[Len(s) + j] = t[j]
  BY ConcatProperties

\* One more operation after the others.
LEMMA OneMore ==
  ASSUME NEW s \in Seq(Op), NEW e \in Op, NEW m \in Nat, Len(s) = m
  PROVE  /\ s \o <<e>> \in Seq(Op) /\ Len(s \o <<e>>) = m + 1
         /\ (s \o <<e>>)[m + 1] = e
         /\ \A j \in 1 .. m : (s \o <<e>>)[j] = s[j]
<1>1. <<e>> \in Seq(Op) /\ Len(<<e>>) = 1 /\ <<e>>[1] = e /\ 1 \in 1 .. 1
  OBVIOUS
<1> DEFINE x == <<e>>
<1>2. x \in Seq(Op) /\ Len(x) = 1 /\ x[1] = e /\ 1 \in 1 .. Len(x)
  BY <1>1
<1> HIDE DEF x
<1>3. /\ s \o x \in Seq(Op) /\ Len(s \o x) = Len(s) + Len(x)
      /\ \A j \in 1 .. Len(s) : (s \o x)[j] = s[j]
      /\ \A j \in 1 .. Len(x) : (s \o x)[Len(s) + j] = x[j]
  BY <1>2, Joined
<1>4. /\ s \o x \in Seq(Op) /\ Len(s \o x) = m + 1 /\ (s \o x)[m + 1] = e
      /\ \A j \in 1 .. m : (s \o x)[j] = s[j]
  BY <1>2, <1>3
<1> QED BY <1>4 DEF x

\* The operations that are done for each item.
LEMMA EachItem ==
  ASSUME NEW b \in Batch, NEW op \in {"create", "mark", "transcribe", "delete"}
  PROVE  /\ ForEach(b, op) \in Seq(Op) /\ Len(ForEach(b, op)) = Size(b)
         /\ \A j \in 1 .. Size(b) : ForEach(b, op)[j] = Do(op, ItemsOf[b][j])
<1>1. /\ Size(b) \in Nat /\ DOMAIN ItemsOf[b] = 1 .. Size(b)
      /\ \A j \in 1 .. Size(b) : ItemsOf[b][j] \in Item
  BY Sizes
<1>2. \A j \in 1 .. Size(b) : Do(op, ItemsOf[b][j]) \in Op
  BY <1>1 DEF Do, Op
<1>3. ForEach(b, op) = [j \in 1 .. Size(b) |-> Do(op, ItemsOf[b][j])]
  BY <1>1 DEF ForEach
<1> QED BY <1>1, <1>2, <1>3

\* What is done at each position to start a batch.
LEMMA StartOps ==
  ASSUME NEW b \in Batch
  PROVE  /\ StartBatch(b) \in Seq(Op) /\ Len(StartBatch(b)) = Final(b)
         /\ \A j \in 1 .. Size(b) :
              /\ StartBatch(b)[j] = Do("create", ItemsOf[b][j])
              /\ StartBatch(b)[Size(b) + 1 + j] = Do("transcribe", ItemsOf[b][j])
              /\ StartBatch(b)[2 * Size(b) + 2 + j] = Do("mark", ItemsOf[b][j])
         /\ StartBatch(b)[Size(b) + 1] = Do("check", b)
         /\ StartBatch(b)[2 * Size(b) + 2] = Do("submit", b)
         /\ StartBatch(b)[Final(b)] = Do("enter", b)
<1> DEFINE n == Size(b)
           A == ForEach(b, "create")
           B == ForEach(b, "transcribe")
           C == ForEach(b, "mark")
           P == A \o <<Do("check", b)>>
           Q == P \o B
           R == Q \o <<Do("submit", b)>>
           S == R \o C
<1>1. n \in Nat /\ Final(b) = 3 * n + 3
  BY Sizes DEF Final
<1>2. /\ A \in Seq(Op) /\ Len(A) = n /\ \A j \in 1 .. n : A[j] = Do("create", ItemsOf[b][j])
      /\ B \in Seq(Op) /\ Len(B) = n /\ \A j \in 1 .. n : B[j] = Do("transcribe", ItemsOf[b][j])
      /\ C \in Seq(Op) /\ Len(C) = n /\ \A j \in 1 .. n : C[j] = Do("mark", ItemsOf[b][j])
  BY EachItem
<1>3. Do("check", b) \in Op /\ Do("submit", b) \in Op /\ Do("enter", b) \in Op
  BY DEF Op, Do, OnBatches
<1>4. StartBatch(b) = S \o <<Do("enter", b)>>
  BY DEF StartBatch
<1> HIDE DEF A, B, C, n
<1>5. /\ P \in Seq(Op) /\ Len(P) = n + 1 /\ P[n + 1] = Do("check", b)
      /\ \A j \in 1 .. n : P[j] = A[j]
  BY OneMore, <1>1, <1>2, <1>3
<1> HIDE DEF P
<1>6. /\ Q \in Seq(Op) /\ Len(Q) = 2 * n + 1
      /\ \A j \in 1 .. n + 1 : Q[j] = P[j]
      /\ \A j \in 1 .. n : Q[n + 1 + j] = B[j]
  <2>1. /\ Q \in Seq(Op) /\ Len(Q) = Len(P) + Len(B)
        /\ \A j \in 1 .. Len(P) : Q[j] = P[j]
        /\ \A j \in 1 .. Len(B) : Q[Len(P) + j] = B[j]
    <3>1. P \in Seq(Op) /\ B \in Seq(Op)
      BY <1>2, <1>5
    <3> QED BY <3>1, Joined
  <2> HIDE DEF Q
  <2> QED BY <2>1, <1>1, <1>2, <1>5
<1> HIDE DEF Q
<1>7. /\ R \in Seq(Op) /\ Len(R) = 2 * n + 2 /\ R[2 * n + 2] = Do("submit", b)
      /\ \A j \in 1 .. 2 * n + 1 : R[j] = Q[j]
  <2>1. 2 * n + 1 \in Nat /\ (2 * n + 1) + 1 = 2 * n + 2
    BY <1>1
  <2>2. /\ R \in Seq(Op) /\ Len(R) = (2 * n + 1) + 1 /\ R[(2 * n + 1) + 1] = Do("submit", b)
        /\ \A j \in 1 .. 2 * n + 1 : R[j] = Q[j]
    BY <2>1, <1>3, <1>6, OneMore
  <2> QED BY <2>1, <2>2
<1> HIDE DEF R
<1>8. /\ S \in Seq(Op) /\ Len(S) = 3 * n + 2
      /\ \A j \in 1 .. 2 * n + 2 : S[j] = R[j]
      /\ \A j \in 1 .. n : S[2 * n + 2 + j] = C[j]
  <2>1. /\ S \in Seq(Op) /\ Len(S) = Len(R) + Len(C)
        /\ \A j \in 1 .. Len(R) : S[j] = R[j]
        /\ \A j \in 1 .. Len(C) : S[Len(R) + j] = C[j]
    <3>1. R \in Seq(Op) /\ C \in Seq(Op)
      BY <1>2, <1>7
    <3> QED BY <3>1, Joined
  <2> HIDE DEF S
  <2> QED BY <2>1, <1>1, <1>2, <1>7
<1> HIDE DEF S
<1>9. /\ StartBatch(b) \in Seq(Op) /\ Len(StartBatch(b)) = 3 * n + 3
      /\ StartBatch(b)[3 * n + 3] = Do("enter", b)
      /\ \A j \in 1 .. 3 * n + 2 : StartBatch(b)[j] = S[j]
  <2>1. 3 * n + 2 \in Nat /\ (3 * n + 2) + 1 = 3 * n + 3
    BY <1>1
  <2>2. /\ StartBatch(b) \in Seq(Op) /\ Len(StartBatch(b)) = (3 * n + 2) + 1
        /\ StartBatch(b)[(3 * n + 2) + 1] = Do("enter", b)
        /\ \A j \in 1 .. 3 * n + 2 : StartBatch(b)[j] = S[j]
    BY <2>1, <1>3, <1>4, <1>8, OneMore
  <2> QED BY <2>1, <2>2
<1>10. \A j \in 1 .. n : /\ StartBatch(b)[j] = A[j] /\ StartBatch(b)[n + 1 + j] = B[j]
                         /\ StartBatch(b)[2 * n + 2 + j] = C[j]
  <2> TAKE j \in 1 .. n
  <2>1. StartBatch(b)[j] = A[j]
    BY <1>1, <1>5, <1>6, <1>7, <1>8, <1>9
  <2>2. StartBatch(b)[n + 1 + j] = B[j]
    BY <1>1, <1>6, <1>7, <1>8, <1>9
  <2>3. StartBatch(b)[2 * n + 2 + j] = C[j]
    BY <1>1, <1>8, <1>9
  <2> QED BY <2>1, <2>2, <2>3
<1>11. StartBatch(b)[n + 1] = Do("check", b) /\ StartBatch(b)[2 * n + 2] = Do("submit", b)
  BY <1>1, <1>5, <1>6, <1>7, <1>8, <1>9
<1>12. n = Size(b)
  BY DEF n
<1> QED BY <1>1, <1>2, <1>9, <1>10, <1>11, <1>12

\* What is done at each position to delete the first items of a batch.
LEMMA UndoOps ==
  ASSUME NEW b \in Batch, NEW n \in 0 .. Size(b)
  PROVE  /\ Undone(b, n) \in Seq(Op) /\ Len(Undone(b, n)) = n + 1
         /\ \A j \in 1 .. n : Undone(b, n)[j] = Do("delete", ItemsOf[b][j])
         /\ Undone(b, n)[n + 1] = Do("raise", b)
<1> DEFINE A == SubSeq(ForEach(b, "delete"), 1, n)
<1>1. Size(b) \in Nat /\ n \in Nat
  BY Sizes
<1>2. /\ ForEach(b, "delete") \in Seq(Op) /\ Len(ForEach(b, "delete")) = Size(b)
      /\ \A j \in 1 .. Size(b) : ForEach(b, "delete")[j] = Do("delete", ItemsOf[b][j])
  BY EachItem
<1>3. A \in Seq(Op) /\ Len(A) = n /\ \A j \in 1 .. n : A[j] = Do("delete", ItemsOf[b][j])
  <2> DEFINE d == ForEach(b, "delete")
  <2>1. d \in Seq(Op) /\ Len(d) = Size(b) /\ \A j \in 1 .. Size(b) : d[j] = Do("delete", ItemsOf[b][j])
    BY <1>2
  <2> HIDE DEF d
  <2>2. SubSeq(d, 1, n) \in Seq(Op) /\ Len(SubSeq(d, 1, n)) = n /\ \A j \in 1 .. n : SubSeq(d, 1, n)[j] = d[j]
    BY <1>1, <2>1
  <2>3. \A j \in 1 .. n : j \in 1 .. Size(b)
    BY <1>1
  <2>4. /\ SubSeq(d, 1, n) \in Seq(Op) /\ Len(SubSeq(d, 1, n)) = n
        /\ \A j \in 1 .. n : SubSeq(d, 1, n)[j] = Do("delete", ItemsOf[b][j])
    BY <2>1, <2>2, <2>3
  <2> QED BY <2>4 DEF d
<1>4. Do("raise", b) \in Op
  BY DEF Op, Do
<1>5. Undone(b, n) = A \o <<Do("raise", b)>>
  BY DEF Undone
<1> HIDE DEF A
<1> QED BY <1>1, <1>3, <1>4, <1>5, OneMore

\* Positions in it.
LEMMA EndsAre ==
  ASSUME NEW b \in Batch, NEW e \in Ends(b)
  PROVE  /\ e[1] \in Nat \ {0} /\ e[2] \in 0 .. Size(b) /\ e[1] \in 1 .. e[2] + 1 /\ e = <<e[1], e[2]>>
         /\ ~Over(e) => e[1] \in 1 .. e[2] /\ e[1] \in 1 .. Size(b) /\ After(e) \in Ends(b)
         /\ After(e)[1] = e[1] + 1 /\ After(e)[2] = e[2]
<1>1. Size(b) \in Nat \ {0}
  BY Sizes
<1>2. e[1] \in 1 .. Size(b) + 1 /\ e[2] \in 0 .. Size(b) /\ e[1] <= e[2] + 1 /\ e = <<e[1], e[2]>>
  BY DEF Ends
<1>3. After(e)[1] = e[1] + 1 /\ After(e)[2] = e[2]
  BY DEF After
<1>4. ~Over(e) => e[1] \in 1 .. e[2] /\ e[1] \in 1 .. Size(b)
  BY <1>1, <1>2 DEF Over
<1>5. ~Over(e) => After(e) \in Ends(b)
  BY <1>1, <1>2, <1>4 DEF After, Ends
<1> QED BY <1>1, <1>2, <1>3, <1>4, <1>5

\* What is left of a sequence from position k on.
LEMMA Suffix ==
  ASSUME NEW S, NEW s \in Seq(S), NEW k \in 1 .. Len(s), NEW p, p = SubSeq(s, k, Len(s))
  PROVE  /\ p \in Seq(S) /\ p # <<>> /\ Len(p) = Len(s) - k + 1
         /\ Head(p) = s[k] /\ Last(p) = s[Len(s)]
         /\ Tail(p) = IF k = Len(s) THEN <<>> ELSE SubSeq(s, k + 1, Len(s))
<1>1. /\ p \in Seq(S) /\ Len(p) = Len(s) - k + 1 /\ \A i \in 1 .. Len(s) - k + 1 : p[i] = s[k + i - 1]
  BY SubSeqProperties
<1>2. Head(p) = s[k] /\ Tail(p) = SubSeq(s, k + 1, Len(s))
  BY HeadTailOfSubSeq
<1>3. k = Len(s) => SubSeq(s, k + 1, Len(s)) = <<>>
  BY SubSeqEmpty
<1>4. Last(p) = s[Len(s)]
  BY <1>1 DEF Last
<1>5. p # <<>>
  <2>1. Len(p) \in Nat \ {0}
    BY <1>1
  <2> QED BY <2>1, EmptySeq
<1> QED BY <1>1, <1>2, <1>3, <1>4, <1>5

\* What is left of what starts a batch.
LEMMA InStart ==
  ASSUME NEW b \in Batch, NEW k \in 1 .. Final(b), NEW p, p = SubSeq(StartBatch(b), k, Final(b))
  PROVE  /\ p \in Seq(Op) /\ p # <<>> /\ Len(p) = Final(b) - k + 1
         /\ Head(p) = StartBatch(b)[k] /\ Last(p) = Do("enter", b)
         /\ Tail(p) = IF k = Final(b) THEN <<>> ELSE SubSeq(StartBatch(b), k + 1, Final(b))
         /\ Undo(p) = Undone(b, Size(b)) /\ UndoStored(p) = Undone(b, k - 1)
<1>1. StartBatch(b) \in Seq(Op) /\ Len(StartBatch(b)) = Final(b) /\ StartBatch(b)[Final(b)] = Do("enter", b)
  BY StartOps
<1>2. /\ p \in Seq(Op) /\ p # <<>> /\ Len(p) = Final(b) - k + 1
      /\ Head(p) = StartBatch(b)[k] /\ Last(p) = Do("enter", b)
      /\ Tail(p) = IF k = Final(b) THEN <<>> ELSE SubSeq(StartBatch(b), k + 1, Final(b))
  <2>1. k \in 1 .. Len(StartBatch(b)) /\ p = SubSeq(StartBatch(b), k, Len(StartBatch(b)))
    BY <1>1
  <2>2. /\ p \in Seq(Op) /\ p # <<>> /\ Len(p) = Len(StartBatch(b)) - k + 1
        /\ Head(p) = StartBatch(b)[k] /\ Last(p) = StartBatch(b)[Len(StartBatch(b))]
        /\ Tail(p) = IF k = Len(StartBatch(b)) THEN <<>> ELSE SubSeq(StartBatch(b), k + 1, Len(StartBatch(b)))
    BY <1>1, <2>1, Suffix
  <2> QED BY <1>1, <2>2
<1>3. Undo(p) = Undone(b, Size(b))
  <2>1. Last(p).do = "enter" /\ Last(p).on = b
    BY <1>2 DEF Do
  <2> QED BY <2>1 DEF Undo, Size
<1>4. UndoStored(p) = Undone(b, k - 1)
  <2>1. Last(p).do = "enter" /\ Last(p).on = b
    BY <1>2 DEF Do
  <2>2. Final(b) - (Final(b) - k + 1) = k - 1
    BY Sizes
  <2>3. UndoStored(p) = Undone(b, Final(b) - (Final(b) - k + 1))
    BY <1>1, <1>2, <2>1 DEF UndoStored
  <2> QED BY <2>2, <2>3
<1> QED BY <1>2, <1>3, <1>4

\* What is left of what deletes items of it.
LEMMA InUndo ==
  ASSUME NEW b \in Batch, NEW k \in Ends(b), NEW p, p = Rest(b, k)
  PROVE  /\ p \in Seq(Op) /\ p # <<>> /\ Len(p) = k[2] - k[1] + 2
         /\ Head(p) = IF Over(k) THEN Do("raise", b) ELSE Do("delete", ItemsOf[b][k[1]])
         /\ Last(p) = Do("raise", b)
         /\ Tail(p) = IF Over(k) THEN <<>> ELSE Rest(b, After(k))
         /\ Undo(p) = <<>>
<1> DEFINE n == k[2]
           u == Undone(b, n)
<1>0. n \in 0 .. Size(b) /\ k[1] \in 1 .. n + 1 /\ n \in Nat /\ Size(b) \in Nat
  BY EndsAre, Sizes
<1>1. /\ u \in Seq(Op) /\ Len(u) = n + 1 /\ u[n + 1] = Do("raise", b)
      /\ \A j \in 1 .. n : u[j] = Do("delete", ItemsOf[b][j])
  <2> HIDE DEF n
  <2> QED BY <1>0, UndoOps
<1>2. p = SubSeq(u, k[1], Len(u))
  BY <1>1 DEF Rest
<1>3. Rest(b, After(k)) = SubSeq(u, k[1] + 1, Len(u))
  <2>1. Rest(b, After(k)) = SubSeq(u, k[1] + 1, n + 1)
    BY EndsAre DEF Rest
  <2> QED BY <1>1, <2>1
<1>4. Over(k) <=> k[1] = n + 1
  BY DEF Over
<1> HIDE DEF u, n
<1>5. /\ p \in Seq(Op) /\ p # <<>> /\ Len(p) = Len(u) - k[1] + 1
      /\ Head(p) = u[k[1]] /\ Last(p) = u[Len(u)]
      /\ Tail(p) = IF k[1] = Len(u) THEN <<>> ELSE SubSeq(u, k[1] + 1, Len(u))
  <2> DEFINE j == k[1]
  <2>1. j \in 1 .. Len(u) /\ u \in Seq(Op) /\ p = SubSeq(u, j, Len(u))
    BY <1>0, <1>1, <1>2
  <2> HIDE DEF j
  <2>2. /\ p \in Seq(Op) /\ p # <<>> /\ Len(p) = Len(u) - j + 1
        /\ Head(p) = u[j] /\ Last(p) = u[Len(u)]
        /\ Tail(p) = IF j = Len(u) THEN <<>> ELSE SubSeq(u, j + 1, Len(u))
    BY <2>1, Suffix
  <2> QED BY <2>2 DEF j
<1>6. Head(p) = IF Over(k) THEN Do("raise", b) ELSE Do("delete", ItemsOf[b][k[1]])
  BY <1>0, <1>1, <1>4, <1>5
<1>7. Len(p) = n - k[1] + 2 /\ Last(p) = Do("raise", b) /\ Tail(p) = IF Over(k) THEN <<>> ELSE Rest(b, After(k))
  <2>1. Len(p) = n - k[1] + 2
    BY <1>0, <1>1, <1>5
  <2>2. Last(p) = Do("raise", b)
    BY <1>1, <1>5
  <2>3. Tail(p) = IF Over(k) THEN <<>> ELSE Rest(b, After(k))
    BY <1>1, <1>3, <1>4, <1>5
  <2> QED BY <2>1, <2>2, <2>3
<1>8. Undo(p) = <<>>
  <2>1. Last(p).do # "enter"
    BY <1>7 DEF Do
  <2> QED BY <2>1 DEF Undo
<1> QED BY <1>5, <1>6, <1>7, <1>8 DEF n

\* All of it.
LEMMA WholeUndo ==
  ASSUME NEW b \in Batch, NEW n \in 0 .. Size(b)
  PROVE  Undone(b, n) \in Seq(Op) /\ Undone(b, n) = Rest(b, <<1, n>>) /\ <<1, n>> \in Ends(b)
<1>1. Size(b) \in Nat \ {0} /\ n \in Nat
  BY Sizes
<1>2. Undone(b, n) \in Seq(Op) /\ Len(Undone(b, n)) = n + 1
  BY UndoOps
<1>3. <<1, n>> \in Ends(b)
  BY <1>1 DEF Ends
<1>4. Undone(b, n) = SubSeq(Undone(b, n), 1, n + 1)
  BY <1>2, SubSeqFull
<1> QED BY <1>2, <1>3, <1>4 DEF Rest

\* The kinds of operations.
LEMMA Kinds ==
  /\ \A i \in Item : \A d \in {"create", "mark", "transcribe", "delete", "find", "send"} : Do(d, i) \in Op
  /\ \A b \in Batch : \A d \in OnBatches \cup {"check", "submit", "raise", "look", "respond"} : Do(d, b) \in Op
  /\ Do("clear", All) \in Op
  /\ \A d, x : Do(d, x).do = d /\ Do(d, x).on = x
  /\ \A o \in Op : /\ o = Do(o.do, o.on)
                   /\ o.do \in {"create", "mark", "transcribe", "delete", "find", "send"} => o.on \in Item
                   /\ o.do \in OnBatches \cup {"check", "submit", "raise", "look", "respond"} => o.on \in Batch
                   /\ o.do = "clear" => o.on = All
                   /\ o.do \in {"create", "mark", "transcribe", "delete", "find", "send", "clear", "check", "submit",
                                "raise", "look", "respond"} \cup OnBatches
<1>1. \A i \in Item : \A d \in {"create", "mark", "transcribe", "delete", "find", "send"} : Do(d, i) \in Op
  BY DEF Op, Do
<1>2. \A b \in Batch : \A d \in OnBatches \cup {"check", "submit", "raise", "look", "respond"} : Do(d, b) \in Op
  BY DEF Op, Do
<1>3. Do("clear", All) \in Op /\ \A d, x : Do(d, x).do = d /\ Do(d, x).on = x
  BY DEF Op, Do
<1>4. ASSUME NEW o \in Op
      PROVE  /\ o = Do(o.do, o.on)
             /\ o.do \in {"create", "mark", "transcribe", "delete", "find", "send"} => o.on \in Item
             /\ o.do \in OnBatches \cup {"check", "submit", "raise", "look", "respond"} => o.on \in Batch
             /\ o.do = "clear" => o.on = All
             /\ o.do \in {"create", "mark", "transcribe", "delete", "find", "send", "clear", "check", "submit",
                          "raise", "look", "respond"} \cup OnBatches
  <2>1. CASE o \in [do : {"create", "mark", "transcribe", "delete", "find", "send"}, on : Item]
    BY <2>1 DEF Do, OnBatches
  <2>2. CASE o \in [do : OnBatches \cup {"check", "submit", "raise", "look", "respond"}, on : Batch]
    BY <2>2 DEF Do, OnBatches
  <2>3. CASE o = Do("clear", All)
    BY <2>3 DEF Do, OnBatches
  <2> QED BY <2>1, <2>2, <2>3 DEF Op
<1> QED BY <1>1, <1>2, <1>3, <1>4

\* Other requests: one, two or three operations.
LEMMA Tuples ==
  /\ \A x \in Op : <<x>> \in Seq(Op) /\ Head(<<x>>) = x /\ Tail(<<x>>) = <<>> /\ Last(<<x>>) = x
  /\ \A x, y \in Op : /\ <<x, y>> \in Seq(Op) /\ Head(<<x, y>>) = x /\ Tail(<<x, y>>) = <<y>>
                      /\ Last(<<x, y>>) = y
  /\ \A x, y, z \in Op : /\ <<x, y, z>> \in Seq(Op) /\ Head(<<x, y, z>>) = x /\ Tail(<<x, y, z>>) = <<y, z>>
                         /\ Last(<<x, y, z>>) = z
  BY DEF Last

\* How a request goes on that starts no batch.
LEMMA ShortSteps ==
  ASSUME NEW P, P \subseteq Batch, NEW S, S \subseteq Item, NEW D, D \subseteq P, NEW p, ShortOf(p, S, P, D), p # <<>>
  PROVE  /\ p \in Seq(Op) /\ Last(p).do \notin {"enter", "raise"} /\ Undo(p) = <<>>
         /\ Head(p).do \in {"create", "delete", "find", "send", "mark", "clear", "look", "respond", "summary",
                            "notify", "read", "unread"}
         /\ IF Head(p).do = "send" THEN Tail(p) = <<Do("mark", Head(p).on)>> ELSE ShortOf(Tail(p), S, P, D)
         /\ Head(p).do = "mark" => Head(p).on \in S
         /\ Head(p).do = "summary" => Head(p).on \in D
         /\ Head(p).do \in OnBatches \cup {"look", "respond"} => Head(p).on \in P
<1> DEFINE Goal ==
      /\ p \in Seq(Op) /\ Last(p).do \notin {"enter", "raise"}
      /\ Head(p).do \in {"create", "delete", "find", "send", "mark", "clear", "look", "respond", "summary",
                            "notify", "read", "unread"}
      /\ IF Head(p).do = "send" THEN Tail(p) = <<Do("mark", Head(p).on)>> ELSE ShortOf(Tail(p), S, P, D)
      /\ Head(p).do = "mark" => Head(p).on \in S
      /\ Head(p).do = "summary" => Head(p).on \in D
      /\ Head(p).do \in OnBatches \cup {"look", "respond"} => Head(p).on \in P
<1>1. ShortOf(<<>>, S, P, D)
  BY DEF ShortOf
<1>2. ASSUME NEW i \in Item, NEW d \in {"create", "delete"}, p = <<Do(d, i)>>
      PROVE  Goal
  <2>1. Do(d, i) \in Op
    BY Kinds DEF OnBatches
  <2>2. p \in Seq(Op) /\ Head(p) = Do(d, i) /\ Tail(p) = <<>> /\ Last(p) = Do(d, i)
    BY <1>2, <2>1, Tuples
  <2>3. Head(p).do = d /\ Head(p).on = i /\ Last(p).do = d
    BY <2>2 DEF Do
  <2> QED BY <1>1, <1>2, <2>2, <2>3 DEF OnBatches
<1>3. ASSUME NEW i \in Item, p = <<Do("send", i), Do("mark", i)>>
      PROVE  Goal
  <2>1. Do("send", i) \in Op /\ Do("mark", i) \in Op
    BY Kinds DEF OnBatches
  <2>2. p \in Seq(Op) /\ Head(p) = Do("send", i) /\ Tail(p) = <<Do("mark", i)>> /\ Last(p) = Do("mark", i)
    BY <1>3, <2>1, Tuples
  <2>3. Head(p).do = "send" /\ Head(p).on = i /\ Last(p).do = "mark"
    BY <2>2 DEF Do
  <2> QED BY <1>1, <1>3, <2>2, <2>3 DEF OnBatches
<1>4. ASSUME NEW i \in Item, p = <<Do("find", i), Do("send", i), Do("mark", i)>>
      PROVE  Goal
  <2>1. Do("find", i) \in Op /\ Do("send", i) \in Op /\ Do("mark", i) \in Op
    BY Kinds DEF OnBatches
  <2>2. p \in Seq(Op) /\ Head(p) = Do("find", i) /\ Tail(p) = <<Do("send", i), Do("mark", i)>> /\ Last(p) = Do("mark", i)
    BY <1>4, <2>1, Tuples
  <2>3. Head(p).do = "find" /\ Head(p).on = i /\ Last(p).do = "mark"
    BY <2>2 DEF Do
  <2>4. ShortOf(<<Do("send", i), Do("mark", i)>>, S, P, D)
    BY DEF ShortOf
  <2> QED BY <1>1, <1>4, <2>2, <2>3, <2>4 DEF OnBatches
<1>5. ASSUME NEW i \in S, p = <<Do("mark", i)>>
      PROVE  Goal
  <2>1. Do("mark", i) \in Op
    BY Kinds DEF OnBatches
  <2>2. p \in Seq(Op) /\ Head(p) = Do("mark", i) /\ Tail(p) = <<>> /\ Last(p) = Do("mark", i)
    BY <1>5, <2>1, Tuples
  <2>3. Head(p).do = "mark" /\ Head(p).on = i /\ Last(p).do = "mark"
    BY <2>2 DEF Do
  <2> QED BY <1>1, <1>5, <2>2, <2>3 DEF OnBatches
<1>6. ASSUME p = <<Do("clear", All)>>
      PROVE  Goal
  <2>1. Do("clear", All) \in Op
    BY Kinds DEF OnBatches
  <2>2. p \in Seq(Op) /\ Head(p) = Do("clear", All) /\ Tail(p) = <<>> /\ Last(p) = Do("clear", All)
    BY <1>6, <2>1, Tuples
  <2>3. Head(p).do = "clear" /\ Head(p).on = All /\ Last(p).do = "clear"
    BY <2>2 DEF Do
  <2> QED BY <1>1, <1>6, <2>2, <2>3 DEF OnBatches
<1>7. ASSUME NEW b \in P, NEW d \in {"look", "read", "unread"}, p = <<Do(d, b), Do("respond", b)>>
      PROVE  Goal
  <2>1. ShortOf(<<Do("respond", b)>>, S, P, D)
    BY DEF ShortOf
  <2>2. Do(d, b) \in Op /\ Do("respond", b) \in Op /\ b \in Batch
    BY Kinds DEF OnBatches
  <2>3. /\ p \in Seq(Op) /\ Head(p) = Do(d, b) /\ Tail(p) = <<Do("respond", b)>> /\ Last(p) = Do("respond", b)
    BY <1>7, <2>2, Tuples
  <2>4. Head(p).do = d /\ Head(p).on = b /\ Last(p).do = "respond"
    BY <2>3 DEF Do
  <2> QED BY <2>1, <2>3, <2>4 DEF OnBatches
<1>8. ASSUME NEW b \in P, NEW d \in {"respond", "notify"}, p = <<Do(d, b)>>
      PROVE  Goal
  <2>1. Do(d, b) \in Op /\ b \in Batch
    BY Kinds DEF OnBatches
  <2>2. /\ p \in Seq(Op) /\ Head(p) = Do(d, b) /\ Tail(p) = <<>> /\ Last(p) = Do(d, b)
    BY <1>8, <2>1, Tuples
  <2>3. Head(p).do = d /\ Head(p).on = b /\ Last(p).do = d
    BY <2>2 DEF Do
  <2> QED BY <1>1, <2>2, <2>3 DEF OnBatches
<1>9. ASSUME NEW b \in D, p = <<Do("summary", b), Do("notify", b)>>
      PROVE  Goal
  <2>1. ShortOf(<<Do("notify", b)>>, S, P, D)
    BY DEF ShortOf
  <2>2. Do("summary", b) \in Op /\ Do("notify", b) \in Op /\ b \in Batch
    BY Kinds DEF OnBatches
  <2>3. /\ p \in Seq(Op) /\ Head(p) = Do("summary", b) /\ Tail(p) = <<Do("notify", b)>> /\ Last(p) = Do("notify", b)
    BY <1>9, <2>2, Tuples
  <2>4. Head(p).do = "summary" /\ Head(p).on = b /\ Last(p).do = "notify"
    BY <2>3 DEF Do
  <2> QED BY <1>9, <2>1, <2>3, <2>4 DEF OnBatches
<1> HIDE DEF Goal
<1>10. Goal
  BY <1>2, <1>3, <1>4, <1>5, <1>6, <1>7, <1>8, <1>9 DEF ShortOf
<1>11. Undo(p) = <<>>
  BY <1>10 DEF Undo, Goal
<1> QED BY <1>10, <1>11 DEF Goal

\* The same without what comes next.
LEMMA ShortForms ==
  ASSUME NEW P, P \subseteq Batch, NEW S, S \subseteq Item, NEW D, D \subseteq P, NEW p, ShortOf(p, S, P, D), p # <<>>
  PROVE  /\ p \in Seq(Op) /\ Last(p).do \notin {"enter", "raise"} /\ Undo(p) = <<>>
         /\ Head(p).do \in {"create", "delete", "find", "send", "mark", "clear", "look", "respond", "summary",
                            "notify", "read", "unread"}
         /\ Head(p).do = "mark" => Head(p).on \in S
         /\ Head(p).do = "summary" => Head(p).on \in D
         /\ Head(p).do \in OnBatches \cup {"look", "respond"} => Head(p).on \in P
  BY ShortSteps

-----------------------------------------------------------------------------
(* Who starts a batch, PlanInv.                                             *)

\* A request that starts a batch, or deletes its items, can be told by its last operation.
LEMMA LastTells ==
  ASSUME NEW b \in Batch, NEW r \in Request
  PROVE  /\ \A k \in 1 .. Final(b) : StartsAt(r, b, k) =>
              plan[r] # <<>> /\ Last(plan[r]) = Do("enter", b) /\ Len(plan[r]) = Final(b) - k + 1
         /\ \A k \in Ends(b) : UndoesAt(r, b, k) =>
              plan[r] # <<>> /\ Last(plan[r]) = Do("raise", b)
         /\ Carries(r, b) => plan[r] # <<>> /\ Last(plan[r]) \in {Do("enter", b), Do("raise", b)}
<1>1. \A k \in 1 .. Final(b) : StartsAt(r, b, k) =>
        plan[r] # <<>> /\ Last(plan[r]) = Do("enter", b) /\ Len(plan[r]) = Final(b) - k + 1
  BY InStart DEF StartsAt
<1>2. \A k \in Ends(b) : UndoesAt(r, b, k) =>
        plan[r] # <<>> /\ Last(plan[r]) = Do("raise", b)
  BY InUndo DEF UndoesAt
<1> QED BY <1>1, <1>2 DEF Carries

\* It is at one position, and of one batch, which has been posted.
LEMMA Carrier ==
  ASSUME posted \subseteq Batch, sent \subseteq Item, PlanInv, NEW b \in Batch, NEW r \in Request
  PROVE  /\ Carries(r, b) => b \in posted /\ ~Short(plan[r])
         /\ \A c \in Batch : Carries(r, b) /\ Carries(r, c) => b = c
         /\ plan[r] # <<>> /\ Last(plan[r]) \in {Do("enter", b), Do("raise", b)} => Carries(r, b)
         /\ \A k, l \in 1 .. Final(b) : StartsAt(r, b, k) /\ StartsAt(r, b, l) => k = l
         /\ \A k \in 1 .. Final(b), l \in Ends(b) : ~(StartsAt(r, b, k) /\ UndoesAt(r, b, l))
<1>0. \A x, y : \A d, e \in {"enter", "raise"} : Do(d, x) = Do(e, y) => x = y /\ d = e
  BY DEF Do
<1>1. \A c \in Batch : Carries(r, b) /\ Carries(r, c) => b = c
  <2>1. \A c \in Batch : Carries(r, c) => Last(plan[r]) = Do("enter", c) \/ Last(plan[r]) = Do("raise", c)
    BY LastTells
  <2> QED BY <1>0, <2>1
<1>2. Short(plan[r]) /\ plan[r] # <<>> => Last(plan[r]).do \notin {"enter", "raise"}
  BY ShortForms DEF Short
<1>3. Carries(r, b) => ~Short(plan[r])
  <2>1. Do("enter", b).do = "enter" /\ Do("raise", b).do = "raise"
    BY DEF Do
  <2> QED BY <1>2, <2>1, LastTells
<1>4. Carries(r, b) => b \in posted
  <2>1. \/ Short(plan[r])
        \/ \E c \in posted : Carries(r, c)
    BY DEF PlanInv
  <2> QED BY <1>1, <1>3, <2>1
<1>5. plan[r] # <<>> /\ Last(plan[r]) \in {Do("enter", b), Do("raise", b)} => Carries(r, b)
  <2> SUFFICES ASSUME plan[r] # <<>>, Last(plan[r]) \in {Do("enter", b), Do("raise", b)}
               PROVE  Carries(r, b)
    OBVIOUS
  <2>1. Last(plan[r]).do \in {"enter", "raise"}
    BY DEF Do
  <2>2. PICK c \in posted : Carries(r, c)
    BY <1>2, <2>1 DEF PlanInv
  <2>3. Last(plan[r]) \in {Do("enter", c), Do("raise", c)}
    BY <2>2, LastTells
  <2> QED BY <1>0, <2>2, <2>3
<1>6. \A k, l \in 1 .. Final(b) : StartsAt(r, b, k) /\ StartsAt(r, b, l) => k = l
  <2>1. Final(b) \in Nat
    BY Sizes
  <2> QED BY <2>1, LastTells
<1>7. \A k \in 1 .. Final(b), l \in Ends(b) : ~(StartsAt(r, b, k) /\ UndoesAt(r, b, l))
  BY <1>0, LastTells
<1> QED BY <1>1, <1>3, <1>4, <1>5, <1>6, <1>7

\* What is next at each position.
LEMMA StartHeads ==
  ASSUME NEW b \in Batch, NEW r \in Request, NEW k \in 1 .. Final(b), StartsAt(r, b, k)
  PROVE  \/ k \in 1 .. Size(b) /\ Head(plan[r]) = Do("create", ItemsOf[b][k])
         \/ k = Size(b) + 1 /\ Head(plan[r]) = Do("check", b)
         \/ k \in Size(b) + 2 .. 2 * Size(b) + 1 /\ Head(plan[r]) = Do("transcribe", ItemsOf[b][k - Size(b) - 1])
         \/ k = 2 * Size(b) + 2 /\ Head(plan[r]) = Do("submit", b)
         \/ k \in 2 * Size(b) + 3 .. 3 * Size(b) + 2 /\ Head(plan[r]) = Do("mark", ItemsOf[b][k - 2 * Size(b) - 2])
         \/ k = Final(b) /\ Head(plan[r]) = Do("enter", b)
<1>1. Head(plan[r]) = StartBatch(b)[k]
  BY InStart DEF StartsAt
<1>2. Size(b) \in Nat \ {0} /\ Final(b) = 3 * Size(b) + 3
  BY Sizes DEF Final
<1>3. CASE k \in 1 .. Size(b)
  BY <1>1, <1>3, StartOps
<1>4. CASE k = Size(b) + 1
  BY <1>1, <1>4, StartOps
<1>5. CASE k \in Size(b) + 2 .. 2 * Size(b) + 1
  <2>1. k - Size(b) - 1 \in 1 .. Size(b) /\ k = Size(b) + 1 + (k - Size(b) - 1)
    BY <1>2, <1>5
  <2> QED BY <1>1, <1>5, <2>1, StartOps
<1>6. CASE k = 2 * Size(b) + 2
  BY <1>1, <1>6, StartOps
<1>7. CASE k \in 2 * Size(b) + 3 .. 3 * Size(b) + 2
  <2>1. k - 2 * Size(b) - 2 \in 1 .. Size(b) /\ k = 2 * Size(b) + 2 + (k - 2 * Size(b) - 2)
    BY <1>2, <1>7
  <2> QED BY <1>1, <1>7, <2>1, StartOps
<1>8. CASE k = 3 * Size(b) + 3
  BY <1>1, <1>2, <1>8, StartOps
<1> QED BY <1>2, <1>3, <1>4, <1>5, <1>6, <1>7, <1>8

\* What is next in deleting the items.
LEMMA UndoHeads ==
  ASSUME NEW b \in Batch, NEW r \in Request, NEW k \in Ends(b), UndoesAt(r, b, k)
  PROVE  \/ ~Over(k) /\ k[1] \in 1 .. Size(b) /\ Head(plan[r]) = Do("delete", ItemsOf[b][k[1]])
         \/ Over(k) /\ Head(plan[r]) = Do("raise", b)
  BY InUndo, EndsAre DEF UndoesAt

\* The kind of the next operation tells the position.
LEMMA StartKinds ==
  ASSUME NEW b \in Batch, NEW r \in Request, NEW k \in 1 .. Final(b), StartsAt(r, b, k)
  PROVE  LET o == Head(plan[r]) IN
         /\ o.do \in {"create", "check", "transcribe", "submit", "mark", "enter"}
         /\ o.do = "create" <=> k <= Size(b)
         /\ o.do = "check" <=> k = Size(b) + 1
         /\ o.do = "transcribe" <=> k \in Size(b) + 2 .. 2 * Size(b) + 1
         /\ o.do = "submit" <=> k = 2 * Size(b) + 2
         /\ o.do = "mark" <=> k \in 2 * Size(b) + 3 .. 3 * Size(b) + 2
         /\ o.do = "enter" <=> k = Final(b)
         /\ o.do \in {"check", "submit", "enter"} => o.on = b
         /\ o.do = "create" => o.on = ItemsOf[b][k]
         /\ o.do = "transcribe" => o.on = ItemsOf[b][k - Size(b) - 1]
         /\ o.do = "mark" => o.on = ItemsOf[b][k - 2 * Size(b) - 2]
         /\ o.do \in {"create", "transcribe", "mark"} => o.on \in ToSet(ItemsOf[b])
<1> DEFINE o == Head(plan[r])
<1>1. Size(b) \in Nat \ {0} /\ Final(b) = 3 * Size(b) + 3
  BY Sizes DEF Final
<1>2. \A j \in 1 .. Size(b) : ItemsOf[b][j] \in ToSet(ItemsOf[b])
  BY Sizes
<1>3. \A d, x : Do(d, x).do = d /\ Do(d, x).on = x
  BY DEF Do
<1>4. \/ k \in 1 .. Size(b) /\ o.do = "create" /\ o.on = ItemsOf[b][k]
      \/ k = Size(b) + 1 /\ o.do = "check" /\ o.on = b
      \/ k \in Size(b) + 2 .. 2 * Size(b) + 1 /\ o.do = "transcribe" /\ o.on = ItemsOf[b][k - Size(b) - 1]
      \/ k = 2 * Size(b) + 2 /\ o.do = "submit" /\ o.on = b
      \/ k \in 2 * Size(b) + 3 .. 3 * Size(b) + 2 /\ o.do = "mark" /\ o.on = ItemsOf[b][k - 2 * Size(b) - 2]
      \/ k = Final(b) /\ o.do = "enter" /\ o.on = b
  BY <1>3, StartHeads
<1>5. /\ k \in Size(b) + 2 .. 2 * Size(b) + 1 => k - Size(b) - 1 \in 1 .. Size(b)
      /\ k \in 2 * Size(b) + 3 .. 3 * Size(b) + 2 => k - 2 * Size(b) - 2 \in 1 .. Size(b)
  BY <1>1
<1> HIDE DEF o
<1>6. /\ o.do \in {"create", "check", "transcribe", "submit", "mark", "enter"}
      /\ o.do = "create" <=> k <= Size(b)
      /\ o.do = "check" <=> k = Size(b) + 1
      /\ o.do = "transcribe" <=> k \in Size(b) + 2 .. 2 * Size(b) + 1
      /\ o.do = "submit" <=> k = 2 * Size(b) + 2
      /\ o.do = "mark" <=> k \in 2 * Size(b) + 3 .. 3 * Size(b) + 2
      /\ o.do = "enter" <=> k = Final(b)
  BY <1>1, <1>4
<1>7. /\ o.do \in {"check", "submit", "enter"} => o.on = b
      /\ o.do = "create" => o.on = ItemsOf[b][k]
      /\ o.do = "transcribe" => o.on = ItemsOf[b][k - Size(b) - 1]
      /\ o.do = "mark" => o.on = ItemsOf[b][k - 2 * Size(b) - 2]
      /\ o.do \in {"create", "transcribe", "mark"} => o.on \in ToSet(ItemsOf[b])
  BY <1>2, <1>4, <1>5
<1> QED BY <1>6, <1>7 DEF o

\* The same for what deletes the items.
LEMMA UndoKinds ==
  ASSUME NEW b \in Batch, NEW r \in Request, NEW k \in Ends(b), UndoesAt(r, b, k)
  PROVE  LET o == Head(plan[r]) IN
         /\ o.do \in {"delete", "raise"}
         /\ o.do = "delete" <=> ~Over(k)
         /\ o.do = "raise" <=> Over(k)
         /\ o.do = "delete" => o.on = ItemsOf[b][k[1]] /\ o.on \in ToSet(ItemsOf[b])
         /\ o.do = "raise" => o.on = b
<1>1. \A j \in 1 .. Size(b) : ItemsOf[b][j] \in ToSet(ItemsOf[b])
  BY Sizes
<1>2. \A d, x : Do(d, x).do = d /\ Do(d, x).on = x
  BY DEF Do
<1>3. \/ /\ ~Over(k) /\ Head(plan[r]).do = "delete" /\ Head(plan[r]).on = ItemsOf[b][k[1]]
         /\ ItemsOf[b][k[1]] \in ToSet(ItemsOf[b])
      \/ Over(k) /\ Head(plan[r]).do = "raise" /\ Head(plan[r]).on = b
  BY <1>1, <1>2, UndoHeads
<1> QED BY <1>3

\* What a request has still to do.
LEMMA Ahead ==
  ASSUME posted \subseteq Batch, sent \subseteq Item, PlanInv, NEW r \in Request, plan[r] # <<>>
  PROVE  /\ plan[r] \in Seq(Op) /\ Head(plan[r]) \in Op
         /\ Head(plan[r]).do = "mark" => Head(plan[r]).on \in sent
         /\ Head(plan[r]).do = "summary" => job[Head(plan[r]).on] = "over"
         /\ Head(plan[r]).do = "enter" => job[Head(plan[r]).on] # "none"
         /\ Head(plan[r]).do \in OnBatches \cup {"look", "respond"} => Head(plan[r]).on \in posted
<1>1. CASE Short(plan[r])
  <2> DEFINE D == {b \in posted : job[b] = "over"}
  <2>0. D \subseteq posted /\ ShortOf(plan[r], sent, posted, D) /\ \A x \in D : job[x] = "over"
    BY <1>1 DEF Short
  <2> HIDE DEF D
  <2>1. /\ plan[r] \in Seq(Op)
        /\ Head(plan[r]).do \in {"create", "delete", "find", "send", "mark", "clear", "look", "respond", "summary",
                                 "notify", "read", "unread"}
        /\ Head(plan[r]).do = "mark" => Head(plan[r]).on \in sent
        /\ Head(plan[r]).do = "summary" => Head(plan[r]).on \in D
    BY <2>0, ShortForms
  <2>2. Head(plan[r]).do \in OnBatches \cup {"look", "respond"} => Head(plan[r]).on \in posted
    BY <2>0, ShortForms
  <2>3. Head(plan[r]) \in Op
    BY <2>1
  <2> QED BY <2>0, <2>1, <2>2, <2>3
<1>2. ASSUME NEW b \in posted, NEW k \in 1 .. Final(b), StartsAt(r, b, k)
      PROVE  /\ plan[r] \in Seq(Op) /\ Head(plan[r]) \in Op
             /\ Head(plan[r]).do = "mark" => Head(plan[r]).on \in sent
             /\ Head(plan[r]).do \in OnBatches \cup {"look", "respond"} =>
                  Head(plan[r]) = Do("enter", b) /\ job[b] # "none"
  <2>1. plan[r] \in Seq(Op) /\ plan[r] # <<>>
    BY <1>2, InStart DEF StartsAt
  <2>2. Size(b) \in Nat \ {0} /\ Final(b) = 3 * Size(b) + 3 /\ ToSet(ItemsOf[b]) = {ItemsOf[b][j] : j \in 1 .. Size(b)}
    BY Sizes DEF Final
  <2>3. IF k <= 2 * Size(b) + 2 THEN job[b] = "none" ELSE job[b] # "none" /\ ToSet(ItemsOf[b]) \subseteq sent
    BY <1>2 DEF PlanInv
  <2>4. k \in 2 * Size(b) + 3 .. 3 * Size(b) + 2 => ItemsOf[b][k - 2 * Size(b) - 2] \in sent
    BY <2>2, <2>3
  <2>5. k = Final(b) => job[b] # "none"
    BY <2>2, <2>3
  <2>6. Head(plan[r]) \in Op
    BY <2>1
  <2>7. \/ \E i \in Item : Head(plan[r]) = Do("create", i) \/ Head(plan[r]) = Do("transcribe", i)
        \/ Head(plan[r]) = Do("check", b) \/ Head(plan[r]) = Do("submit", b)
        \/ \E i \in sent : Head(plan[r]) = Do("mark", i)
        \/ Head(plan[r]) = Do("enter", b) /\ job[b] # "none"
    <3>1. k \in Size(b) + 2 .. 2 * Size(b) + 1 => k - Size(b) - 1 \in 1 .. Size(b)
      BY <2>2
    <3>2. \A j \in 1 .. Size(b) : ItemsOf[b][j] \in Item
      BY Sizes
    <3> QED BY <1>2, <2>4, <2>5, <3>1, <3>2, StartHeads
  <2>8. \A d, x : Do(d, x).do = d
    BY DEF Do
  <2>9. \/ Head(plan[r]).do \in {"create", "transcribe", "check", "submit"}
        \/ Head(plan[r]).do = "mark" /\ Head(plan[r]).on \in sent
        \/ Head(plan[r]).do = "enter" /\ Head(plan[r]) = Do("enter", b) /\ job[b] # "none"
    <3>1. CASE \E i \in sent : Head(plan[r]) = Do("mark", i)
      BY <3>1 DEF Do
    <3> QED BY <2>7, <2>8, <3>1
  <2> QED BY <2>1, <2>6, <2>9 DEF OnBatches
<1>3. ASSUME NEW b \in posted, NEW k \in Ends(b), UndoesAt(r, b, k)
      PROVE  /\ plan[r] \in Seq(Op) /\ Head(plan[r]) \in Op
             /\ Head(plan[r]).do \in {"delete", "raise"}
  <2>1. plan[r] \in Seq(Op) /\ plan[r] # <<>>
    BY <1>3, InUndo DEF UndoesAt
  <2>2. Head(plan[r]) \in Op
    BY <2>1
  <2>3. Head(plan[r]) = Do("raise", b) \/ \E i : Head(plan[r]) = Do("delete", i)
    BY <1>3, UndoHeads
  <2>4. Head(plan[r]).do \in {"delete", "raise"}
    <3>1. \A d, x : Do(d, x).do = d
      BY DEF Do
    <3> QED BY <2>3, <3>1
  <2> QED BY <2>1, <2>2, <2>4
<1>4. CASE \E b \in posted : Carries(r, b)
  <2>1. PICK b \in posted : Carries(r, b)
    BY <1>4
  <2>2. CASE \E k \in 1 .. Final(b) : StartsAt(r, b, k)
    <3>1. /\ plan[r] \in Seq(Op) /\ Head(plan[r]) \in Op
          /\ Head(plan[r]).do = "mark" => Head(plan[r]).on \in sent
          /\ Head(plan[r]).do \in OnBatches \cup {"look", "respond"} =>
                  Head(plan[r]) = Do("enter", b) /\ job[b] # "none"
      BY <1>2, <2>1, <2>2
    <3> QED BY <3>1 DEF Do, OnBatches
  <2>3. CASE \E k \in Ends(b) : UndoesAt(r, b, k)
    BY <1>3, <2>1, <2>3 DEF OnBatches
  <2> QED BY <2>1, <2>2, <2>3 DEF Carries
<1> QED BY <1>1, <1>4 DEF PlanInv


\* What requests have still to do after a step, and what r may have to do next.
ShortNext(p) == ShortOf(p, sent', posted', {b \in posted' : job'[b] = "over"})
Proceeds(r, p) ==
  \/ ShortNext(p)
  \/ \E b \in posted' : /\ b \in posted => Underway(r, b)
                        /\ \E k \in 1 .. Final(b) :
                             /\ p = SubSeq(StartBatch(b), k, Final(b))
                             /\ IF k <= 2 * Size(b) + 2 THEN job'[b] = "none"
                                ELSE job'[b] # "none" /\ ToSet(ItemsOf[b]) \subseteq sent'
  \/ \E b \in posted : Carries(r, b) /\ \E k \in Ends(b) : p = Rest(b, k)

\* Batches and items are only added, and a job is started by who carries the batch.
Grows(r) ==
  /\ sent \subseteq sent' /\ posted \subseteq posted'
  /\ \A b \in Batch : /\ job[b] # "none" => job'[b] # "none"
                      /\ job[b] = "over" => job'[b] = "over"
                      /\ job[b] = "none" /\ job'[b] # "none" => Carries(r, b)

\* What the others have to do stays what it was.
LEMMA ShortStays ==
  ASSUME NEW r, NEW p, Short(p), Grows(r), posted \subseteq Batch
  PROVE  ShortNext(p)
  BY DEF Short, ShortNext, ShortOf, Grows

\* A request goes on.
LEMMA PlanStep ==
  ASSUME posted \subseteq Batch, sent \subseteq Item, posted' \subseteq Batch, sent' \subseteq Item,
         PlanInv, NEW r \in Request, NEW p, Grows(r), Proceeds(r, p),
         p \in Seq(Op), plan' = [plan EXCEPT ![r] = p]
  PROVE  /\ PlanInv'
         /\ \A q \in Request, b \in Batch : /\ q # r => (Carries(q, b)' <=> Carries(q, b))
                                            /\ Carries(q, b)' /\ b \in posted => Carries(q, b)
<1>0. plan \in [Request -> Seq(Op)] /\ plan' \in [Request -> Seq(Op)]
  BY DEF PlanInv
<1>1. \A q \in Request : q # r => plan'[q] = plan[q]
  BY <1>0
<1>2. plan'[r] = p
  BY <1>0
<1>3. ASSUME NEW q \in Request, q # r, NEW b \in Batch
      PROVE  /\ \A k \in 1 .. Final(b) : StartsAt(q, b, k)' <=> StartsAt(q, b, k)
             /\ \A k \in Ends(b) : UndoesAt(q, b, k)' <=> UndoesAt(q, b, k)
             /\ Carries(q, b)' <=> Carries(q, b)
  BY <1>1, <1>3 DEF StartsAt, UndoesAt, Carries
<1>4. ASSUME NEW b \in Batch, NEW k \in 1 .. Final(b), p = SubSeq(StartBatch(b), k, Final(b))
      PROVE  /\ b \in posted' /\ (b \in posted => Carries(r, b))
             /\ IF k <= 2 * Size(b) + 2 THEN job'[b] = "none"
                ELSE job'[b] # "none" /\ ToSet(ItemsOf[b]) \subseteq sent'
  <2>1. p # <<>> /\ Last(p) = Do("enter", b) /\ Len(p) = Final(b) - k + 1
    BY <1>4, InStart
  <2>2. ~ShortNext(p)
    <3>1. Last(p).do \in {"enter", "raise"}
      BY <2>1 DEF Do
    <3>2. ~ShortOf(p, sent', posted', {c \in posted' : job'[c] = "over"})
      BY <2>1, <3>1, ShortForms
    <3> QED BY <3>2 DEF ShortNext
  <2>3. \A c \in Batch : \A l \in Ends(c) : p # Rest(c, l)
    <3>1. ASSUME NEW c \in Batch, NEW l \in Ends(c), p = Rest(c, l)
          PROVE  Last(p) = Do("raise", c)
      BY <3>1, InUndo
    <3>2. \A c \in Batch : Do("raise", c) # Do("enter", b)
      BY DEF Do
    <3> QED BY <2>1, <3>1, <3>2
  <2>4. PICK c \in posted' : /\ c \in posted => Underway(r, c)
                             /\ \E l \in 1 .. Final(c) :
                                  /\ p = SubSeq(StartBatch(c), l, Final(c))
                                  /\ IF l <= 2 * Size(c) + 2 THEN job'[c] = "none"
                                     ELSE job'[c] # "none" /\ ToSet(ItemsOf[c]) \subseteq sent'
    BY <2>2, <2>3 DEF Proceeds
  <2>5. PICK l \in 1 .. Final(c) : /\ p = SubSeq(StartBatch(c), l, Final(c))
                                   /\ IF l <= 2 * Size(c) + 2 THEN job'[c] = "none"
                                      ELSE job'[c] # "none" /\ ToSet(ItemsOf[c]) \subseteq sent'
    BY <2>4
  <2>6. Last(p) = Do("enter", c) /\ Len(p) = Final(c) - l + 1
    BY <2>5, InStart
  <2>7. b = c /\ k = l
    <3>1. b = c
      BY <2>1, <2>6 DEF Do
    <3>2. Final(b) \in Nat
      BY Sizes
    <3> QED BY <2>1, <2>6, <3>1, <3>2
  <2> QED BY <2>4, <2>5, <2>7 DEF Underway, Carries
<1>5. ASSUME NEW b \in Batch, NEW k \in Ends(b), p = Rest(b, k)
      PROVE  b \in posted /\ Carries(r, b)
  <2>1. p # <<>> /\ Last(p) = Do("raise", b)
    BY <1>5, InUndo
  <2>2. ~ShortNext(p)
    <3>1. Last(p).do \in {"enter", "raise"}
      BY <2>1 DEF Do
    <3>2. ~ShortOf(p, sent', posted', {c \in posted' : job'[c] = "over"})
      BY <2>1, <3>1, ShortForms
    <3> QED BY <3>2 DEF ShortNext
  <2>3. \A c \in Batch : \A l \in 1 .. Final(c) : p # SubSeq(StartBatch(c), l, Final(c))
    BY <2>1, InStart DEF Do
  <2>4. PICK c \in posted : Carries(r, c) /\ \E l \in Ends(c) : p = Rest(c, l)
    BY <2>2, <2>3 DEF Proceeds
  <2>5. Last(p) = Do("raise", c)
    BY <2>4, InUndo
  <2> QED BY <2>1, <2>4, <2>5 DEF Do
<1>6. ASSUME NEW b \in Batch, Carries(r, b)'
      PROVE  b \in posted' /\ (b \in posted => Carries(r, b))
  <2>1. CASE \E k \in 1 .. Final(b) : p = SubSeq(StartBatch(b), k, Final(b))
    BY <1>4, <2>1
  <2>2. CASE \E k \in Ends(b) : p = Rest(b, k)
    BY <1>5, <2>2 DEF Grows
  <2> QED BY <1>2, <1>6, <2>1, <2>2 DEF Carries, StartsAt, UndoesAt
<1>7. \A q \in Request : Short(plan[q])' \/ \E b \in posted' : Carries(q, b)'
  <2>1. ASSUME NEW q \in Request, q # r
        PROVE  Short(plan[q])' \/ \E b \in posted' : Carries(q, b)'
    <3>1. CASE Short(plan[q])
      <4>1. plan'[q] = plan[q]
        BY <1>1, <2>1
      <4>2. ShortNext(plan[q])
        BY <3>1, ShortStays
      <4> QED BY <4>1, <4>2 DEF Short, ShortNext
    <3>2. CASE \E b \in posted : Carries(q, b)
      BY <1>3, <2>1, <3>2 DEF Grows
    <3> QED BY <3>1, <3>2 DEF PlanInv
  <2>2. Short(plan[r])' \/ \E b \in posted' : Carries(r, b)'
    <3>1. CASE ShortNext(p)
      BY <1>2, <3>1 DEF Short, ShortNext
    <3>2. ASSUME NEW b \in posted', NEW k \in 1 .. Final(b), p = SubSeq(StartBatch(b), k, Final(b))
          PROVE  Carries(r, b)'
      BY <1>2, <3>2 DEF Carries, StartsAt
    <3>3. ASSUME NEW b \in posted, NEW k \in Ends(b), p = Rest(b, k)
          PROVE  Carries(r, b)'
      BY <1>2, <3>3 DEF Carries, UndoesAt
    <3> QED BY <3>1, <3>2, <3>3 DEF Proceeds, Grows
  <2> QED BY <2>1, <2>2
<1>8. ASSUME NEW b \in Batch, NEW s \in Request, NEW q \in Request, Carries(s, b)', Carries(q, b)'
      PROVE  s = q
  <2>1. \A t \in Request : t # r /\ Carries(t, b)' => Carries(t, b) /\ b \in posted
    BY <1>3, Carrier
  <2>2. \A t, u \in Request : Carries(t, b) /\ Carries(u, b) => t = u
    BY DEF PlanInv
  <2> QED BY <1>6, <1>8, <2>1, <2>2
<1>9. ASSUME NEW b \in Batch, NEW q \in Request, NEW k \in 1 .. Final(b), StartsAt(q, b, k)'
      PROVE  IF k <= 2 * Size(b) + 2 THEN job'[b] = "none" ELSE job'[b] # "none" /\ ToSet(ItemsOf[b]) \subseteq sent'
  <2>1. CASE q = r
    BY <1>2, <1>4, <1>9, <2>1 DEF StartsAt
  <2>2. CASE q # r
    <3>1. StartsAt(q, b, k) /\ Carries(q, b)
      BY <1>3, <1>9, <2>2 DEF Carries
    <3>2. ~Carries(r, b)
      BY <2>2, <3>1 DEF PlanInv
    <3>3. IF k <= 2 * Size(b) + 2 THEN job[b] = "none" ELSE job[b] # "none" /\ ToSet(ItemsOf[b]) \subseteq sent
      BY <3>1 DEF PlanInv
    <3> QED BY <3>2, <3>3 DEF Grows
  <2> QED BY <2>1, <2>2
<1>10. \A b \in Batch \ posted' : job'[b] = "none"
  <2>1. ASSUME NEW b \in Batch, b \notin posted'
        PROVE  job'[b] = "none"
    <3>1. b \notin posted /\ job[b] = "none"
      BY <2>1 DEF Grows, PlanInv
    <3>2. ~Carries(r, b)
      BY <3>1, Carrier
    <3> QED BY <3>1, <3>2 DEF Grows
  <2> QED BY <2>1
<1>11. PlanInv'
  BY <1>0, <1>7, <1>8, <1>9, <1>10 DEF PlanInv
<1> QED BY <1>3, <1>6, <1>11

\* A request goes on with its next operation, after one that gives nothing to an agent.
LEMMA GoesOn ==
  ASSUME posted \subseteq Batch, sent \subseteq Item, PlanInv, NEW r \in Request, plan[r] # <<>>,
         Head(plan[r]).do \notin {"send", "submit"}, UNCHANGED <<sent, posted, job>>
  PROVE  Proceeds(r, Tail(plan[r])) /\ Tail(plan[r]) \in Seq(Op)
<1>1. plan[r] \in Seq(Op)
  BY DEF PlanInv
<1>2. CASE Short(plan[r])
  <2> DEFINE D == {b \in posted : job[b] = "over"}
  <2>1. D \subseteq posted /\ ShortOf(plan[r], sent, posted, D)
    BY <1>2 DEF Short
  <2> HIDE DEF D
  <2>2. ShortOf(Tail(plan[r]), sent, posted, D)
    BY <2>1, ShortSteps
  <2>3. ShortNext(Tail(plan[r]))
    BY <2>2 DEF ShortNext, D
  <2> QED BY <1>1, <2>3 DEF Proceeds
<1>3. ASSUME NEW b \in posted, NEW k \in 1 .. Final(b), StartsAt(r, b, k)
      PROVE  Proceeds(r, Tail(plan[r]))
  <2>1. Tail(plan[r]) = IF k = Final(b) THEN <<>> ELSE SubSeq(StartBatch(b), k + 1, Final(b))
    BY <1>3, InStart DEF StartsAt
  <2>2. CASE k = Final(b)
    <3>1. ShortNext(Tail(plan[r]))
      BY <2>1, <2>2 DEF ShortNext, ShortOf
    <3> QED BY <3>1 DEF Proceeds
  <2>3. CASE k # Final(b)
    <3>1. Size(b) \in Nat \ {0} /\ Final(b) = 3 * Size(b) + 3
      BY Sizes DEF Final
    <3>2. k + 1 \in 1 .. Final(b)
      BY <2>3, <3>1
    <3>3. k # 2 * Size(b) + 2
      <4>1. SUFFICES ASSUME k = 2 * Size(b) + 2
                     PROVE  FALSE
        OBVIOUS
      <4>2. Head(plan[r]) = Do("submit", b)
        BY <1>3, <4>1, <3>1, StartHeads
      <4> QED BY <4>2 DEF Do
    <3>4. IF k <= 2 * Size(b) + 2 THEN job[b] = "none" ELSE job[b] # "none" /\ ToSet(ItemsOf[b]) \subseteq sent
      BY <1>3 DEF PlanInv
    <3>5. IF k + 1 <= 2 * Size(b) + 2 THEN job[b] = "none" ELSE job[b] # "none" /\ ToSet(ItemsOf[b]) \subseteq sent
      BY <3>1, <3>3, <3>4
    <3>6. Underway(r, b)
      BY <1>3 DEF Underway
    <3>7. Tail(plan[r]) = SubSeq(StartBatch(b), k + 1, Final(b))
      BY <2>1, <2>3
    <3> QED BY <3>2, <3>5, <3>6, <3>7 DEF Proceeds
  <2> QED BY <2>2, <2>3
<1>4. ASSUME NEW b \in posted, NEW k \in Ends(b), UndoesAt(r, b, k)
      PROVE  Proceeds(r, Tail(plan[r]))
  <2>1. Tail(plan[r]) = IF Over(k) THEN <<>> ELSE Rest(b, After(k))
    BY <1>4, InUndo DEF UndoesAt
  <2>2. CASE Over(k)
    <3>1. ShortNext(Tail(plan[r]))
      BY <2>1, <2>2 DEF ShortNext, ShortOf
    <3> QED BY <3>1 DEF Proceeds
  <2>3. CASE ~Over(k)
    <3>2. After(k) \in Ends(b)
      BY <2>3, EndsAre
    <3>3. Carries(r, b)
      BY <1>4 DEF Carries
    <3>4. Tail(plan[r]) = Rest(b, After(k))
      BY <2>1, <2>3
    <3> QED BY <3>2, <3>3, <3>4 DEF Proceeds
  <2> QED BY <2>2, <2>3
<1>5. Proceeds(r, Tail(plan[r]))
  BY <1>2, <1>3, <1>4 DEF PlanInv, Carries
<1> QED BY <1>1, <1>5

\* It gives up, and deletes the items of its batch.
LEMMA GivesUp ==
  ASSUME posted \subseteq Batch, sent \subseteq Item, PlanInv, NEW r \in Request, plan[r] # <<>>
  PROVE  /\ Proceeds(r, Undo(plan[r])) /\ Undo(plan[r]) \in Seq(Op)
         /\ Short(plan[r]) => Undo(plan[r]) = <<>>
         /\ \A b \in posted : /\ \A k \in 1 .. Final(b) : StartsAt(r, b, k) => Undo(plan[r]) = Undone(b, Size(b))
                              /\ \A k \in Ends(b) : UndoesAt(r, b, k) => Undo(plan[r]) = <<>>
<1>1. ShortNext(<<>>) /\ <<>> \in Seq(Op)
  BY DEF ShortNext, ShortOf
<1>2. Short(plan[r]) => Undo(plan[r]) = <<>>
  <2> DEFINE D == {b \in posted : job[b] = "over"}
  <2>1. SUFFICES ASSUME Short(plan[r])
                 PROVE  Undo(plan[r]) = <<>>
    OBVIOUS
  <2>2. D \subseteq posted /\ ShortOf(plan[r], sent, posted, D)
    BY <2>1 DEF Short
  <2> HIDE DEF D
  <2>3. Last(plan[r]).do # "enter"
    BY <2>2, ShortForms
  <2> QED BY <2>3 DEF Undo
<1>3. ASSUME NEW b \in posted, NEW k \in 1 .. Final(b), StartsAt(r, b, k)
      PROVE  Undo(plan[r]) = Undone(b, Size(b)) /\ Undone(b, Size(b)) \in Seq(Op) /\ Proceeds(r, Undone(b, Size(b)))
  <2>1. Undo(plan[r]) = Undone(b, Size(b))
    BY <1>3, InStart DEF StartsAt
  <2>2. Size(b) \in 0 .. Size(b)
    BY Sizes
  <2>3. /\ Undone(b, Size(b)) \in Seq(Op) /\ Undone(b, Size(b)) = Rest(b, <<1, Size(b)>>)
        /\ <<1, Size(b)>> \in Ends(b)
    BY <2>2, WholeUndo
  <2>4. Carries(r, b)
    BY <1>3 DEF Carries
  <2>5. Proceeds(r, Undone(b, Size(b)))
    BY <2>3, <2>4 DEF Proceeds
  <2> QED BY <2>1, <2>3, <2>5
<1>4. ASSUME NEW b \in posted, NEW k \in Ends(b), UndoesAt(r, b, k)
      PROVE  Undo(plan[r]) = <<>>
  <2>1. plan[r] = Rest(b, k)
    BY <1>4 DEF UndoesAt
  <2>2. Last(plan[r]) = Do("raise", b)
    BY <2>1, InUndo
  <2>3. Last(plan[r]).do # "enter"
    BY <2>2 DEF Do
  <2> QED BY <2>3 DEF Undo
<1>5. Proceeds(r, Undo(plan[r])) /\ Undo(plan[r]) \in Seq(Op)
  <2>1. CASE Short(plan[r])
    BY <1>1, <1>2, <2>1 DEF Proceeds
  <2>2. CASE \E b \in posted : \E k \in 1 .. Final(b) : StartsAt(r, b, k)
    BY <1>3, <2>2
  <2>3. CASE \E b \in posted : \E k \in Ends(b) : UndoesAt(r, b, k)
    BY <1>1, <1>4, <2>3 DEF Proceeds
  <2> QED BY <2>1, <2>2, <2>3 DEF PlanInv, Carries
<1> QED BY <1>2, <1>3, <1>4, <1>5

\* It gives up while it creates, and deletes the items that it has stored.
LEMMA GivesUpStored ==
  ASSUME posted \subseteq Batch, sent \subseteq Item, PlanInv, NEW r \in Request, plan[r] # <<>>,
         Head(plan[r]).do = "create"
  PROVE  /\ Proceeds(r, UndoStored(plan[r])) /\ UndoStored(plan[r]) \in Seq(Op)
         /\ \A b \in posted : \A k \in 1 .. Final(b) : StartsAt(r, b, k) =>
              k \in 1 .. Size(b) /\ UndoStored(plan[r]) = Undone(b, k - 1)
<1>1. ASSUME NEW b \in posted, NEW k \in 1 .. Final(b), StartsAt(r, b, k)
      PROVE  /\ k \in 1 .. Size(b) /\ UndoStored(plan[r]) = Undone(b, k - 1)
             /\ Proceeds(r, UndoStored(plan[r])) /\ UndoStored(plan[r]) \in Seq(Op)
  <2>0. Size(b) \in Nat /\ k \in Nat \ {0}
    BY Sizes
  <2>1. k \in 1 .. Size(b) /\ k - 1 \in 0 .. Size(b)
    <3>1. k <= Size(b)
      BY <1>1, StartKinds
    <3> QED BY <2>0, <3>1
  <2>2. UndoStored(plan[r]) = Undone(b, k - 1)
    BY <1>1, InStart DEF StartsAt
  <2>3. Undone(b, k - 1) \in Seq(Op) /\ Undone(b, k - 1) = Rest(b, <<1, k - 1>>) /\ <<1, k - 1>> \in Ends(b)
    BY <2>1, WholeUndo
  <2>4. Carries(r, b)
    BY <1>1 DEF Carries
  <2> QED BY <2>1, <2>2, <2>3, <2>4 DEF Proceeds
<1>2. ASSUME Short(plan[r])
      PROVE  Proceeds(r, UndoStored(plan[r])) /\ UndoStored(plan[r]) \in Seq(Op)
  <2> DEFINE D == {b \in posted : job[b] = "over"}
  <2>1. D \subseteq posted /\ ShortOf(plan[r], sent, posted, D)
    BY <1>2 DEF Short
  <2> HIDE DEF D
  <2>2. UndoStored(plan[r]) = <<>>
    <3>1. Last(plan[r]).do # "enter"
      BY <2>1, ShortForms
    <3> QED BY <3>1 DEF UndoStored
  <2>3. ShortNext(<<>>) /\ <<>> \in Seq(Op)
    BY DEF ShortNext, ShortOf
  <2> QED BY <2>2, <2>3 DEF Proceeds
<1>3. \A b \in posted : \A k \in Ends(b) : ~UndoesAt(r, b, k)
  BY UndoKinds
<1>4. Short(plan[r]) \/ \E b \in posted : \E k \in 1 .. Final(b) : StartsAt(r, b, k)
  BY <1>3 DEF PlanInv, Carries
<1>5. Proceeds(r, UndoStored(plan[r])) /\ UndoStored(plan[r]) \in Seq(Op)
  BY <1>1, <1>2, <1>4
<1> QED BY <1>1, <1>5

\* A request that is asked for: one of the routes, or a batch.
LEMMA AskPlan ==
  ASSUME TypeOK, PlanInv, NEW r \in Request, Ask(r)
  PROVE  \E p \in Seq(Op) : /\ plan' = [plan EXCEPT ![r] = p] /\ Proceeds(r, p)
                            /\ \/ Short(p)
                               \/ \E b \in Batch \ posted : p = SubSeq(StartBatch(b), 1, Final(b)) /\ posted' = posted \cup {b}
<1>1. posted \subseteq Batch /\ sent \subseteq Item
  BY DEF TypeOK
<1>2. ASSUME NEW p \in Routes, Turns(r, p), UNCHANGED posted
      PROVE  Short(p) /\ p \in Seq(Op) /\ Proceeds(r, p)
  <2>1. Short(p) /\ p # <<>>
    <3>1. CASE \E i \in Item : p \in {<<Do("create", i)>>, <<Do("delete", i)>>,
                                     <<Do("find", i), Do("send", i), Do("mark", i)>>}
      BY <3>1 DEF Short, ShortOf
    <3>2. CASE p = <<Do("clear", All)>>
      BY <3>2 DEF Short, ShortOf
    <3>3. CASE \E op \in {"look", "read", "unread"}, b \in posted : p = <<Do(op, b), Do("respond", b)>>
      BY <3>3 DEF Short, ShortOf
    <3> QED BY <3>1, <3>2, <3>3 DEF Routes
  <2>2. p \in Seq(Op)
    <3> DEFINE D == {b \in posted : job[b] = "over"}
    <3>1. D \subseteq posted /\ ShortOf(p, sent, posted, D)
      BY <2>1 DEF Short
    <3> HIDE DEF D
    <3> QED BY <1>1, <2>1, <3>1, ShortForms
  <2>3. UNCHANGED <<sent, job, posted>>
    BY <1>2 DEF Ask, world
  <2>4. ShortNext(p)
    BY <2>1, <2>3 DEF Short, ShortNext
  <2> QED BY <2>1, <2>2, <2>4 DEF Proceeds
<1>3. ASSUME NEW b \in Batch \ posted, Turns(r, StartBatch(b)), posted' = posted \cup {b}
      PROVE  /\ StartBatch(b) \in Seq(Op) /\ StartBatch(b) = SubSeq(StartBatch(b), 1, Final(b))
             /\ Proceeds(r, StartBatch(b))
  <2>1. StartBatch(b) \in Seq(Op) /\ Len(StartBatch(b)) = Final(b) /\ Size(b) \in Nat \ {0} /\ Final(b) = 3 * Size(b) + 3
    BY StartOps, Sizes DEF Final
  <2>2. StartBatch(b) = SubSeq(StartBatch(b), 1, Final(b)) /\ 1 \in 1 .. Final(b) /\ 1 <= 2 * Size(b) + 2
    BY <2>1, SubSeqFull
  <2>3. job'[b] = "none"
    BY DEF PlanInv, Ask, world
  <2>4. Proceeds(r, StartBatch(b))
    BY <1>3, <2>2, <2>3 DEF Proceeds
  <2> QED BY <2>1, <2>2, <2>4
<1>4. (\E p \in Routes : Turns(r, p) /\ UNCHANGED posted)
      \/ \E b \in Batch \ posted : Turns(r, StartBatch(b)) /\ posted' = posted \cup {b}
  BY DEF Ask
<1> QED BY <1>2, <1>3, <1>4 DEF Turns

\* What comes after a job was submitted.
LEMMA SubmitPlan ==
  ASSUME TypeOK, PlanInv, NEW r \in Request, At(r, {"send", "submit"}), Starts(Head(plan[r])), UNCHANGED posted
  PROVE  /\ Proceeds(r, Tail(plan[r])) /\ Tail(plan[r]) \in Seq(Op) /\ Grows(r)
         /\ sent' \subseteq Item /\ job' \in [Batch -> {"none", "running", "over"}]
         /\ IF Short(plan[r]) THEN UNCHANGED job
            ELSE \E b \in posted : /\ StartsAt(r, b, 2 * Size(b) + 2) /\ job' = [job EXCEPT ![b] = "running"]
                                   /\ job[b] = "none" /\ sent' = sent \cup ToSet(ItemsOf[b])
<1> DEFINE o == Head(plan[r])
           D == {b \in posted : job[b] = "over"}
<1>1. posted \subseteq Batch /\ sent \subseteq Item /\ job \in [Batch -> {"none", "running", "over"}]
  BY DEF TypeOK
<1>2. plan[r] # <<>> /\ o.do \in {"send", "submit"} /\ UNCHANGED posted
  BY DEF At
<1>3. plan[r] \in Seq(Op) /\ o \in Op
  BY <1>1, <1>2, Ahead
<1>4. CASE Short(plan[r])
  <2>1. D \subseteq posted /\ ShortOf(plan[r], sent, posted, D)
    BY <1>4 DEF Short
  <2> HIDE DEF D
  <2>2. o.do = "send" /\ Tail(plan[r]) = <<Do("mark", o.on)>>
    <3>1. o.do = "send"
      BY <1>1, <1>2, <2>1, ShortForms
    <3> QED BY <1>1, <1>2, <2>1, <3>1, ShortSteps
  <2>3. o.on \in Item
    BY <1>3, <2>2, Kinds
  <2>4. sent' = sent \cup {o.on} /\ UNCHANGED job
    BY <2>2 DEF Starts
  <2>5. ShortNext(Tail(plan[r]))
    BY <2>2, <2>4 DEF ShortNext, ShortOf
  <2>6. Tail(plan[r]) \in Seq(Op)
    BY <1>2, <1>3
  <2> QED BY <1>1, <1>2, <1>4, <2>3, <2>4, <2>5, <2>6 DEF Proceeds, Grows
<1>5. ASSUME NEW b \in posted, NEW k \in 1 .. Final(b), StartsAt(r, b, k)
      PROVE  /\ k = 2 * Size(b) + 2 /\ o = Do("submit", b)
             /\ Proceeds(r, Tail(plan[r])) /\ Tail(plan[r]) \in Seq(Op) /\ Grows(r)
             /\ sent' = sent \cup ToSet(ItemsOf[b]) /\ ToSet(ItemsOf[b]) \subseteq Item
             /\ job' = [job EXCEPT ![b] = "running"] /\ job[b] = "none"
  <2>1. Size(b) \in Nat \ {0} /\ Final(b) = 3 * Size(b) + 3 /\ ToSet(ItemsOf[b]) = {ItemsOf[b][j] : j \in 1 .. Size(b)}
        /\ \A j \in 1 .. Size(b) : ItemsOf[b][j] \in Item
    BY <1>1, Sizes DEF Final
  <2>2. k = 2 * Size(b) + 2 /\ o = Do("submit", b)
    <3>1. b \in Batch
      BY <1>1
    <3>2. o.do = "submit" /\ o.on = b /\ k = 2 * Size(b) + 2
      BY <1>2, <1>5, <3>1, StartKinds
    <3> QED BY <1>3, <3>2, Kinds
  <2>3. job[b] = "none"
    <3>1. IF k <= 2 * Size(b) + 2 THEN job[b] = "none" ELSE job[b] # "none" /\ ToSet(ItemsOf[b]) \subseteq sent
      BY <1>1, <1>5 DEF PlanInv
    <3> QED BY <2>1, <2>2, <3>1
  <2>4. sent' = sent \cup ToSet(ItemsOf[b]) /\ job' = [job EXCEPT ![b] = "running"]
    BY <2>2 DEF Starts, Do
  <2>5. Tail(plan[r]) = SubSeq(StartBatch(b), k + 1, Final(b)) /\ k + 1 \in 1 .. Final(b)
    <3>1. Tail(plan[r]) = IF k = Final(b) THEN <<>> ELSE SubSeq(StartBatch(b), k + 1, Final(b))
      BY <1>1, <1>5, InStart DEF StartsAt
    <3>2. k # Final(b) /\ k + 1 \in 1 .. Final(b)
      BY <2>1, <2>2
    <3> QED BY <3>1, <3>2
  <2>6. Carries(r, b)
    BY <1>5 DEF Carries
  <2>7. Grows(r)
    BY <1>1, <1>2, <2>3, <2>4, <2>6 DEF Grows
  <2>8. ~(k + 1 <= 2 * Size(b) + 2) /\ job'[b] # "none" /\ b \in posted'
    BY <1>1, <1>2, <2>1, <2>2, <2>4
  <2>9. Proceeds(r, Tail(plan[r]))
    BY <1>5, <2>4, <2>5, <2>8 DEF Proceeds, Underway
  <2>10. Tail(plan[r]) \in Seq(Op)
    BY <1>2, <1>3
  <2> QED BY <2>1, <2>2, <2>3, <2>4, <2>7, <2>9, <2>10
<1>6. ~\E b \in posted : \E k \in Ends(b) : UndoesAt(r, b, k)
  BY <1>1, <1>2, UndoKinds
<1>7. CASE ~Short(plan[r])
  <2>0. PICK b \in posted : \E k \in 1 .. Final(b) : StartsAt(r, b, k)
    BY <1>6, <1>7 DEF PlanInv, Carries
  <2>1. PICK k \in 1 .. Final(b) : StartsAt(r, b, k)
    BY <2>0
  <2>2. job' \in [Batch -> {"none", "running", "over"}] /\ sent' \subseteq Item
    BY <1>1, <1>5, <2>1
  <2>3. StartsAt(r, b, 2 * Size(b) + 2)
    BY <1>5, <2>1
  <2> QED BY <1>5, <1>7, <2>1, <2>2, <2>3
<1> QED BY <1>4, <1>7

\* What comes after the answer about a batch.
LEMMA RespondPlan ==
  ASSUME TypeOK, PlanInv, NEW r \in Request, Respond(r)
  PROVE  \E p \in Seq(Op) : plan' = [plan EXCEPT ![r] = p] /\ Proceeds(r, p) /\ Short(p) /\ Short(plan[r])
<1> DEFINE b == Head(plan[r]).on
           D == {c \in posted : job[c] = "over"}
           p == IF job[b] # "over" THEN <<>>
                ELSE IF record[r].summary THEN <<Do("notify", b)>> ELSE <<Do("summary", b), Do("notify", b)>>
<1>1. posted \subseteq Batch /\ sent \subseteq Item
  BY DEF TypeOK
<1>2. plan[r] # <<>> /\ Head(plan[r]).do = "respond" /\ plan' = [plan EXCEPT ![r] = p]
  BY DEF Respond, At, Turns
<1>3. b \in posted /\ b \in Batch
  BY <1>1, <1>2, Ahead
<1>4. Do("summary", b) \in Op /\ Do("notify", b) \in Op
  BY <1>3, Kinds DEF OnBatches
<1>5. p = <<>> \/ p = <<Do("notify", b)>> \/ (job[b] = "over" /\ p = <<Do("summary", b), Do("notify", b)>>)
  OBVIOUS
<1>6. p \in Seq(Op)
  BY <1>4, <1>5, Tuples
<1>7. Short(p)
  BY <1>3, <1>5 DEF Short, ShortOf
<1>8. UNCHANGED <<sent, job, posted>>
  BY DEF Respond, world
<1>9. ShortNext(p)
  <2> HIDE DEF p
  <2> QED BY <1>7, <1>8 DEF Short, ShortNext
<1>10. Short(plan[r])
  BY <1>1, <1>2, StartKinds, UndoKinds DEF PlanInv, Carries
<1> HIDE DEF p
<1> QED BY <1>2, <1>6, <1>7, <1>9, <1>10 DEF Proceeds

\* Steps that turn to what is left, give up or stop.
LEMMA TurnPlan ==
  ASSUME TypeOK, PlanInv, NEW r \in Request, plan[r] # <<>>, UNCHANGED <<sent, posted, job>>,
         \/ Turns(r, Undo(plan[r]))
         \/ Turns(r, UndoStored(plan[r])) /\ Head(plan[r]).do = "create"
         \/ Turns(r, <<>>)
         \/ Turns(r, Tail(plan[r])) /\ Head(plan[r]).do \notin {"send", "submit"}
  PROVE  \E p \in Seq(Op) : plan' = [plan EXCEPT ![r] = p] /\ Proceeds(r, p) /\ Grows(r)
<1>1. posted \subseteq Batch /\ sent \subseteq Item /\ Grows(r)
  BY DEF TypeOK, Grows
<1>2. CASE Turns(r, Undo(plan[r]))
  BY <1>1, <1>2, GivesUp DEF Turns
<1>3. CASE Turns(r, <<>>)
  <2>1. Proceeds(r, <<>>) /\ <<>> \in Seq(Op)
    BY DEF Proceeds, ShortNext, ShortOf
  <2>2. plan' = [plan EXCEPT ![r] = <<>>]
    BY <1>3 DEF Turns
  <2> QED BY <1>1, <2>1, <2>2
<1>4. CASE Turns(r, Tail(plan[r])) /\ Head(plan[r]).do \notin {"send", "submit"}
  <2>1. Proceeds(r, Tail(plan[r])) /\ Tail(plan[r]) \in Seq(Op)
    BY <1>1, <1>4, GoesOn
  <2>2. plan' = [plan EXCEPT ![r] = Tail(plan[r])]
    BY <1>4 DEF Turns
  <2> QED BY <1>1, <2>1, <2>2
<1>5. CASE Turns(r, UndoStored(plan[r])) /\ Head(plan[r]).do = "create"
  BY <1>1, <1>5, GivesUpStored DEF Turns
<1> QED BY <1>2, <1>3, <1>4, <1>5

\* Every operation of a request goes on as it may.
LEMMA PlanOf ==
  ASSUME TypeOK, PlanInv, StepInv, NEW r \in Request,
         \/ Ask(r) \/ LoadFails(r) \/ Skip(r) \/ Replace(r) \/ Attach(r) \/ AttachFails(r)
         \/ Submit(r) \/ SubmitFails(r) \/ Look(r) \/ Respond(r)
         \/ StoreMediaFails(r) \/ SaveFails(r) \/ SubmitRaises(r)
  PROVE  \E p \in Seq(Op) : plan' = [plan EXCEPT ![r] = p] /\ Proceeds(r, p) /\ Grows(r)
<1>1. CASE Ask(r)
  <2>1. Grows(r)
    BY <1>1 DEF Ask, world, Grows
  <2> QED BY <1>1, <2>1, AskPlan
<1>2. CASE LoadFails(r) \/ AttachFails(r) \/ SubmitFails(r)
  <2>1. plan[r] # <<>> /\ Turns(r, Undo(plan[r])) /\ UNCHANGED <<sent, posted, job>>
    BY <1>2 DEF LoadFails, AttachFails, SubmitFails, CanLoad, At, world
  <2> QED BY <2>1, TurnPlan
<1>3. CASE Skip(r)
  <2>1. plan[r] # <<>> /\ Turns(r, Tail(plan[r])) /\ UNCHANGED <<sent, posted, job>>
    BY <1>3 DEF Skip, CanLoad, At, world
  <2>2. Head(plan[r]).do \in {"notify", "transcribe", "raise"}
    BY <1>3 DEF Skip, At, Idle
  <2> QED BY <2>1, <2>2, TurnPlan
<1>4. CASE Replace(r)
  <2>1. plan[r] # <<>> /\ Turns(r, Tail(plan[r])) /\ UNCHANGED <<sent, posted, job>>
    BY <1>4 DEF Replace, StepInv, world
  <2>2. Head(plan[r]).do \in OnItems \cup OnBatches
    BY <1>4 DEF Replace, StepInv
  <2> QED BY <2>1, <2>2, TurnPlan DEF OnItems, OnBatches
<1>5. CASE Attach(r)
  <2>1. /\ plan[r] # <<>> /\ Turns(r, Tail(plan[r])) /\ UNCHANGED <<sent, posted, job>>
        /\ Head(plan[r]).do \in {"find", "check"}
    BY <1>5 DEF Attach, At, world
  <2> QED BY <2>1, TurnPlan
<1>6. CASE Look(r)
  <2>1. /\ plan[r] # <<>> /\ UNCHANGED <<sent, posted, job>> /\ Head(plan[r]).do = "look"
        /\ Turns(r, Tail(plan[r])) \/ Turns(r, <<>>)
    BY <1>6 DEF Look, At, world
  <2> QED BY <2>1, TurnPlan
<1>7. CASE Submit(r)
  <2>1. At(r, {"send", "submit"}) /\ Starts(Head(plan[r])) /\ UNCHANGED posted /\ Turns(r, Tail(plan[r]))
    BY <1>7 DEF Submit
  <2> QED BY <2>1, SubmitPlan DEF Turns
<1>9. CASE SubmitRaises(r)
  <2>1. At(r, {"send", "submit"}) /\ Starts(Head(plan[r])) /\ UNCHANGED posted /\ Turns(r, Undo(plan[r]))
    BY <1>9 DEF SubmitRaises
  <2>2. Grows(r)
    BY <2>1, SubmitPlan
  <2>3. Proceeds(r, Undo(plan[r])) /\ Undo(plan[r]) \in Seq(Op)
    BY <2>1, GivesUp DEF At, TypeOK
  <2> QED BY <2>1, <2>2, <2>3 DEF Turns
<1>10. CASE StoreMediaFails(r)
  <2>1. /\ plan[r] # <<>> /\ Head(plan[r]).do = "create" /\ UNCHANGED <<sent, posted, job>>
        /\ Turns(r, UndoStored(plan[r])) \/ Turns(r, <<>>)
    BY <1>10 DEF StoreMediaFails, At
  <2> QED BY <2>1, TurnPlan
<1>11. CASE SaveFails(r)
  <2>1. /\ plan[r] # <<>> /\ UNCHANGED <<sent, posted, job>>
        /\ Turns(r, Undo(plan[r])) \/ Turns(r, <<>>)
    BY <1>11 DEF SaveFails, StepInv, world
  <2> QED BY <2>1, TurnPlan
<1>8. CASE Respond(r)
  <2>1. Grows(r)
    BY <1>8 DEF Respond, world, Grows
  <2> QED BY <1>8, <2>1, RespondPlan
<1> QED BY <1>1, <1>2, <1>3, <1>4, <1>5, <1>6, <1>7, <1>8, <1>9, <1>10, <1>11

\* Steps that leave what is to be done.
LEMMA PlanSame ==
  ASSUME TypeOK, PlanInv, plan' = plan, UNCHANGED <<sent, posted>>,
         \A b \in Batch : (job[b] = "none" <=> job'[b] = "none") /\ (job[b] = "over" => job'[b] = "over")
  PROVE  PlanInv' /\ \A r \in Request, b \in Batch : Carries(r, b)' <=> Carries(r, b)
<1>1. \A r \in Request, b \in Batch :
        /\ \A k \in 1 .. Final(b) : StartsAt(r, b, k)' <=> StartsAt(r, b, k)
        /\ \A k \in Ends(b) : UndoesAt(r, b, k)' <=> UndoesAt(r, b, k)
        /\ Carries(r, b)' <=> Carries(r, b)
  BY DEF StartsAt, UndoesAt, Carries
<1>2. \A r \in Request : Short(plan[r]) => Short(plan[r])'
  BY DEF Short, ShortOf, TypeOK
<1>3. \A r \in Request : Short(plan[r])' \/ \E b \in posted' : Carries(r, b)'
  BY <1>1, <1>2 DEF PlanInv, TypeOK
<1> QED BY <1>1, <1>3 DEF PlanInv

\* The invariant is kept, and who starts a batch that was posted did so before.
LEMMA PlanKept ==
  ASSUME TypeOK, TypeOK', PlanInv, StepInv, [Next]_vars
  PROVE  PlanInv' /\ \A r \in Request, b \in posted : Carries(r, b)' => Carries(r, b)
<1> DEFINE Goal == PlanInv' /\ \A r \in Request, b \in posted : Carries(r, b)' => Carries(r, b)
<1>1. posted \subseteq Batch /\ sent \subseteq Item /\ posted' \subseteq Batch /\ sent' \subseteq Item
  BY DEF TypeOK
<1>2. ASSUME NEW r \in Request,
             \/ Ask(r) \/ LoadFails(r) \/ Skip(r) \/ Replace(r) \/ Attach(r) \/ AttachFails(r)
             \/ Submit(r) \/ SubmitFails(r) \/ Look(r) \/ Respond(r)
             \/ StoreMediaFails(r) \/ SaveFails(r) \/ SubmitRaises(r)
      PROVE  Goal
  <2>1. PICK p \in Seq(Op) : plan' = [plan EXCEPT ![r] = p] /\ Proceeds(r, p) /\ Grows(r)
    BY <1>2, PlanOf
  <2> QED BY <1>1, <2>1, PlanStep
<1>3. ASSUME NEW r \in Request, StoreMedia(r) \/ Load(r) \/ Unlink(r) \/ Reload(r)
      PROVE  Goal
  <2>1. plan' = plan /\ UNCHANGED <<sent, posted, job>>
    BY <1>3 DEF StoreMedia, Load, Unlink, Reload, world
  <2> QED BY <1>1, <2>1, PlanSame
<1>4. ASSUME NEW b \in Batch, JobEnds(b) \/ FollowEnds(b)
      PROVE  Goal
  <2>1. /\ plan' = plan /\ UNCHANGED <<sent, posted>>
        /\ \A c \in Batch : (job[c] = "none" <=> job'[c] = "none") /\ (job[c] = "over" => job'[c] = "over")
    BY <1>4 DEF JobEnds, FollowEnds, requests, TypeOK
  <2> QED BY <1>1, <2>1, PlanSame
<1>5. CASE Crash
  <2>1. plan' = [r \in Request |-> <<>>] /\ UNCHANGED <<sent, posted, job>>
    BY <1>5 DEF Crash, world
  <2>2. \A r \in Request : Short(plan[r])'
    BY <2>1 DEF Short, ShortOf
  <2>3. \A r \in Request, b \in Batch : /\ \A k \in 1 .. Final(b) : ~StartsAt(r, b, k)'
                                        /\ \A k \in Ends(b) : ~UndoesAt(r, b, k)'
    <3>1. \A b \in Batch : /\ \A k \in 1 .. Final(b) : SubSeq(StartBatch(b), k, Final(b)) # <<>>
                           /\ \A k \in Ends(b) : Rest(b, k) # <<>>
      BY InStart, InUndo
    <3> QED BY <2>1, <3>1 DEF StartsAt, UndoesAt
  <2>4. plan' \in [Request -> Seq(Op)]
    BY <2>1
  <2>5. \A r \in Request, b \in Batch : ~Carries(r, b)'
    BY <2>3 DEF Carries
  <2>6. PlanInv'
    BY <2>1, <2>2, <2>3, <2>4, <2>5 DEF PlanInv
  <2> QED BY <1>1, <2>5, <2>6
<1>6. CASE UNCHANGED vars
  <2>1. plan' = plan /\ UNCHANGED <<sent, posted, job>>
    BY <1>6 DEF vars, requests, world
  <2> QED BY <1>1, <2>1, PlanSame
<1> QED BY <1>2, <1>3, <1>4, <1>5, <1>6 DEF Next

\* So is the step of each request.
LEMMA StepKept ==
  ASSUME TypeOK, PlanInv, StepInv, [Next]_vars
  PROVE  StepInv'
<1>1. ASSUME NEW r \in Request,
             \/ Ask(r) \/ LoadFails(r) \/ Skip(r) \/ Replace(r) \/ Attach(r) \/ AttachFails(r)
             \/ Submit(r) \/ SubmitFails(r) \/ Look(r) \/ Respond(r)
             \/ StoreMediaFails(r) \/ SaveFails(r) \/ SubmitRaises(r)
      PROVE  StepInv'
  <2>1. step' = [step EXCEPT ![r] = "start"] /\ \E p : plan' = [plan EXCEPT ![r] = p]
    BY <1>1 DEF Ask, LoadFails, Skip, Replace, Attach, AttachFails, Submit, SubmitFails, Look, Respond,
                StoreMediaFails, SaveFails, SubmitRaises, Turns
  <2> QED BY <2>1 DEF StepInv, TypeOK, PlanInv
<1>2. ASSUME NEW r \in Request, StoreMedia(r) \/ Unlink(r) \/ Reload(r)
      PROVE  StepInv'
  BY <1>2 DEF StepInv, TypeOK, StoreMedia, Unlink, Reload, At, OnItems
<1>3. ASSUME NEW r \in Request, Load(r)
      PROVE  StepInv'
  <2>1. plan[r] # <<>> /\ Head(plan[r]).do \in OnItems \cup OnBatches
    BY <1>3 DEF Load, CanLoad, At, StepInv, OnItems, OnBatches
  <2>2. plan' = plan /\ step' = [step EXCEPT ![r] = IF Head(plan[r]).do \in {"delete", "clear"} THEN "unlink" ELSE "reload"]
    BY <1>3 DEF Load
  <2> QED BY <2>1, <2>2 DEF StepInv, TypeOK
<1>4. ASSUME NEW b \in Batch, JobEnds(b) \/ FollowEnds(b)
      PROVE  StepInv'
  BY <1>4 DEF StepInv, JobEnds, FollowEnds, requests
<1>5. CASE Crash
  BY <1>5 DEF StepInv, Crash
<1>6. CASE UNCHANGED vars
  BY <1>6 DEF StepInv, vars, requests
<1> QED BY <1>1, <1>2, <1>3, <1>4, <1>5, <1>6 DEF Next

-----------------------------------------------------------------------------
(* What operations do to the file.                                          *)

\* Rows have their fields.
LEMMA Rows ==
  /\ Absent \in ItemRow /\ NoBatch \in BatchRow
  /\ \A x \in ItemRow : x.status \in {"none", "pending", "submitted"} /\ x.target \in BOOLEAN /\ (x.status = "none" <=> x = Absent)
  /\ \A y \in BatchRow : y.kept \in BOOLEAN /\ y.summary \in BOOLEAN /\ y.notified \in BOOLEAN /\ y.read \in BOOLEAN
  /\ \A y \in BatchRow : y.kept => y \in [kept : {TRUE}, summary : BOOLEAN, notified : BOOLEAN, read : BOOLEAN]
  /\ \A f \in File : f.items \in [Item -> ItemRow] /\ f.batches \in [Batch -> BatchRow]
<1>1. Absent \in ItemRow /\ NoBatch \in BatchRow
  BY DEF ItemRow, BatchRow
<1>2. ASSUME NEW x \in ItemRow
      PROVE  x.status \in {"none", "pending", "submitted"} /\ x.target \in BOOLEAN /\ (x.status = "none" <=> x = Absent)
  <2>1. CASE x = Absent
    BY <2>1 DEF Absent
  <2>2. CASE x \in [status : {"pending", "submitted"}, target : BOOLEAN]
    BY <2>2 DEF Absent
  <2> QED BY <2>1, <2>2 DEF ItemRow
<1>3. ASSUME NEW y \in BatchRow
      PROVE  /\ y.kept \in BOOLEAN /\ y.summary \in BOOLEAN /\ y.notified \in BOOLEAN /\ y.read \in BOOLEAN
             /\ y.kept => y \in [kept : {TRUE}, summary : BOOLEAN, notified : BOOLEAN, read : BOOLEAN]
  <2>1. CASE y = NoBatch
    BY <2>1 DEF NoBatch
  <2>2. CASE y \in [kept : {TRUE}, summary : BOOLEAN, notified : BOOLEAN, read : BOOLEAN]
    BY <2>2
  <2> QED BY <2>1, <2>2 DEF BatchRow
<1>4. \A f \in File : f.items \in [Item -> ItemRow] /\ f.batches \in [Batch -> BatchRow]
  BY DEF File
<1> QED BY <1>1, <1>2, <1>3, <1>4

\* Files are their two parts.
LEMMA Parts ==
  ASSUME NEW f \in File, NEW g \in File, f.items = g.items, f.batches = g.batches
  PROVE  f = g
  BY DEF File

\* What an operation on items changes.
LEMMA ChangedItems ==
  ASSUME NEW f \in File, NEW o \in Op, o.do \in OnItems, o.do \in {"delete", "clear"} \/ Finds(f, o)
  PROVE  LET g == Changed(f, o) IN
         /\ g \in File /\ g.batches = f.batches
         /\ \A i \in Item : i # o.on /\ o.do # "clear" => g.items[i] = f.items[i]
         /\ o.do = "create" => g.items[o.on] # Absent /\ g.items[o.on].status = "pending"
         /\ o.do = "mark" => g.items[o.on] # Absent /\ g.items[o.on].status = "submitted" /\ f.items[o.on] # Absent
         /\ o.do = "transcribe" => g.items[o.on] # Absent /\ g.items[o.on].status = f.items[o.on].status
                                   /\ f.items[o.on] # Absent
         /\ o.do = "delete" => g.items[o.on] = Absent
         /\ o.do = "clear" => \A i \in Item : g.items[i] = Absent
<1> DEFINE g == Changed(f, o)
<1>0. o.do \in {"create", "mark", "transcribe", "delete"} => o.on \in Item
  BY Kinds
<1>1. f.items \in [Item -> ItemRow] /\ f = [items |-> f.items, batches |-> f.batches] /\ f.batches \in [Batch -> BatchRow]
  BY DEF File
<1>2. CASE o.do = "create"
  <2>1. g = [f EXCEPT !.items = [f.items EXCEPT ![o.on] = [status |-> "pending", target |-> TRUE]]]
    BY <1>2 DEF Changed
  <2>2. [status |-> "pending", target |-> TRUE] \in ItemRow /\ [status |-> "pending", target |-> TRUE] # Absent
    BY DEF ItemRow, Absent
  <2> QED BY <1>0, <1>1, <1>2, <2>1, <2>2 DEF File
<1>3. CASE o.do = "mark"
  <2>1. g = [f EXCEPT !.items = [f.items EXCEPT ![o.on] = [status |-> "submitted", target |-> FALSE]]]
    BY <1>3 DEF Changed
  <2>2. [status |-> "submitted", target |-> FALSE] \in ItemRow /\ [status |-> "submitted", target |-> FALSE] # Absent
    BY DEF ItemRow, Absent
  <2>3. f.items[o.on] # Absent
    BY <1>3 DEF Finds, OnBatches
  <2> QED BY <1>0, <1>1, <1>3, <2>1, <2>2, <2>3 DEF File
<1>4. CASE o.do = "transcribe"
  <2>1. g = [f EXCEPT !.items = [f.items EXCEPT ![o.on] = [f.items[o.on] EXCEPT !.target = FALSE]]]
    BY <1>4 DEF Changed
  <2>2. f.items[o.on] # Absent /\ f.items[o.on] \in ItemRow
    BY <1>0, <1>1, <1>4 DEF Finds, OnBatches
  <2>3. /\ [f.items[o.on] EXCEPT !.target = FALSE] \in ItemRow
        /\ [f.items[o.on] EXCEPT !.target = FALSE] # Absent
        /\ [f.items[o.on] EXCEPT !.target = FALSE].status = f.items[o.on].status
    BY <2>2 DEF ItemRow, Absent
  <2> QED BY <1>0, <1>1, <1>4, <2>1, <2>2, <2>3 DEF File
<1>5. CASE o.do = "delete"
  <2>1. g = [f EXCEPT !.items = [f.items EXCEPT ![o.on] = Absent]]
    BY <1>5 DEF Changed
  <2> QED BY <1>0, <1>1, <1>5, <2>1, Rows DEF File
<1>6. CASE o.do = "clear"
  <2>1. g = [f EXCEPT !.items = [i \in Item |-> Absent]]
    BY <1>6 DEF Changed
  <2> QED BY <1>1, <1>6, <2>1, Rows DEF File
<1> HIDE DEF g
<1>7. o.do \in {"create", "mark", "transcribe", "delete", "clear"}
  BY DEF OnItems
<1>8. g = Changed(f, o)
  BY DEF g
<1> QED BY <1>2, <1>3, <1>4, <1>5, <1>6, <1>7, <1>8

\* What an operation on batches changes.
LEMMA ChangedBatches ==
  ASSUME NEW f \in File, NEW o \in Op, o.do \in OnBatches, Finds(f, o)
  PROVE  LET g == Changed(f, o) IN
         /\ g \in File /\ g.items = f.items
         /\ \A b \in Batch : b # o.on => g.batches[b] = f.batches[b]
         /\ g.batches[o.on].kept
         /\ o.do # "enter" => f.batches[o.on].kept
         /\ o.do = "enter" => ~g.batches[o.on].summary /\ ~g.batches[o.on].read
         /\ o.do \notin {"enter", "summary"} => g.batches[o.on].summary = f.batches[o.on].summary
         /\ o.do \in {"summary", "notify"} => g.batches[o.on].read = f.batches[o.on].read
         /\ o.do = "unread" => ~g.batches[o.on].read
         /\ o.do = "read" => g.batches[o.on].read /\ g.batches[o.on].notified
         /\ f.batches[o.on].notified /\ o.do # "enter" => g.batches[o.on].notified
<1> DEFINE g == Changed(f, o)
           row == f.batches[o.on]
<1>0. o.on \in Batch /\ o.do \in {"enter", "summary", "notify", "read", "unread"}
  BY Kinds DEF OnBatches
<1>1. f.items \in [Item -> ItemRow] /\ f = [items |-> f.items, batches |-> f.batches] /\ f.batches \in [Batch -> BatchRow]
  BY DEF File
<1>2. o.do # "enter" => row.kept /\ row \in [kept : {TRUE}, summary : BOOLEAN, notified : BOOLEAN, read : BOOLEAN]
  <2>1. o.do # "enter" => row.kept
    BY <1>0 DEF Finds, OnBatches
  <2> QED BY <1>0, <1>1, <2>1, Rows
<1>3. ASSUME NEW y \in BatchRow, g = [f EXCEPT !.batches = [f.batches EXCEPT ![o.on] = y]]
      PROVE  g \in File /\ g.items = f.items /\ g.batches[o.on] = y /\ \A b \in Batch : b # o.on => g.batches[b] = f.batches[b]
  BY <1>0, <1>1, <1>3 DEF File
<1>4. CASE o.do = "enter"
  <2> DEFINE y == [NoBatch EXCEPT !.kept = TRUE]
  <2>1. y \in BatchRow /\ y.kept /\ ~y.summary /\ ~y.read
    BY DEF BatchRow, NoBatch
  <2>2. g = [f EXCEPT !.batches = [f.batches EXCEPT ![o.on] = y]]
    BY <1>4 DEF Changed
  <2> HIDE DEF y, g
  <2>3. g \in File /\ g.items = f.items /\ g.batches[o.on] = y /\ \A b \in Batch : b # o.on => g.batches[b] = f.batches[b]
    BY <1>3, <2>1, <2>2
  <2> QED BY <1>4, <2>1, <2>3 DEF g
<1>5. CASE o.do = "summary"
  <2> DEFINE y == [row EXCEPT !.summary = TRUE]
  <2>1. y \in BatchRow /\ y.kept /\ y.read = row.read /\ y.notified = row.notified
    BY <1>2, <1>5 DEF BatchRow
  <2>2. g = [f EXCEPT !.batches = [f.batches EXCEPT ![o.on] = y]]
    BY <1>5 DEF Changed
  <2> HIDE DEF y, g
  <2>3. g \in File /\ g.items = f.items /\ g.batches[o.on] = y /\ \A b \in Batch : b # o.on => g.batches[b] = f.batches[b]
    BY <1>3, <2>1, <2>2
  <2> QED BY <1>2, <1>5, <2>1, <2>3 DEF g
<1>6. CASE o.do = "notify"
  <2> DEFINE y == [row EXCEPT !.notified = TRUE]
  <2>1. y \in BatchRow /\ y.kept /\ y.read = row.read /\ y.notified /\ y.summary = row.summary
    BY <1>2, <1>6 DEF BatchRow
  <2>2. g = [f EXCEPT !.batches = [f.batches EXCEPT ![o.on] = y]]
    BY <1>6 DEF Changed
  <2> HIDE DEF y, g
  <2>3. g \in File /\ g.items = f.items /\ g.batches[o.on] = y /\ \A b \in Batch : b # o.on => g.batches[b] = f.batches[b]
    BY <1>3, <2>1, <2>2
  <2> QED BY <1>2, <1>6, <2>1, <2>3 DEF g
<1>7. CASE o.do \in {"read", "unread"}
  <2> DEFINE y == [[row EXCEPT !.notified = TRUE] EXCEPT !.read = (o.do = "read")]
  <2>1. y \in BatchRow /\ y.kept /\ y.read = (o.do = "read") /\ y.notified /\ y.summary = row.summary
    BY <1>2, <1>7 DEF BatchRow
  <2>2. g = [f EXCEPT !.batches = [f.batches EXCEPT ![o.on] = y]]
    BY <1>0, <1>1, <1>7 DEF Changed
  <2> HIDE DEF y, g
  <2>3. g \in File /\ g.items = f.items /\ g.batches[o.on] = y /\ \A b \in Batch : b # o.on => g.batches[b] = f.batches[b]
    BY <1>3, <2>1, <2>2
  <2> QED BY <1>2, <1>7, <2>1, <2>3 DEF g
<1> HIDE DEF g
<1>8. g = Changed(f, o)
  BY DEF g
<1> QED BY <1>0, <1>4, <1>5, <1>6, <1>7, <1>8


\* What the operation that a request is at works on.
LEMMA InHand ==
  ASSUME posted \subseteq Batch, sent \subseteq Item, PlanInv, StepInv, NEW r \in Request,
         CanLoad(r) \/ step[r] \in {"load", "unlink", "reload", "replace"}
  PROVE  LET o == Head(plan[r]) IN
         /\ plan[r] # <<>> /\ o \in Op /\ o.do \in OnItems \cup OnBatches
         /\ o.do \in OnItems \ {"clear"} => o.on \in Item
         /\ o.do \in OnBatches => o.on \in posted /\ o.on \in Batch
         /\ \A b \in Batch : o.do = "enter" /\ o.on = b => StartsAt(r, b, Final(b)) /\ Carries(r, b)
<1>1. plan[r] # <<>>
  BY DEF CanLoad, At, StepInv
<1>2. Head(plan[r]).do \in OnItems \cup OnBatches
  <2>1. step[r] \in {"load", "unlink"} => Head(plan[r]).do \in {"create", "delete", "clear"}
    BY DEF StepInv
  <2>2. step[r] \in {"reload", "replace"} => Head(plan[r]).do \in OnItems \cup OnBatches
    BY DEF StepInv
  <2>3. CanLoad(r) => step[r] \in {"load"} \/ Head(plan[r]).do \in OnItems \cup OnBatches
    BY DEF CanLoad, At, OnItems, OnBatches
  <2> QED BY <2>1, <2>2, <2>3 DEF OnItems
<1>3. Head(plan[r]) \in Op /\ (Head(plan[r]).do \in OnBatches => Head(plan[r]).on \in posted)
  BY <1>1, Ahead
<1>4. Head(plan[r]).do \in OnItems \ {"clear"} => Head(plan[r]).on \in Item
  BY <1>3, Kinds DEF OnItems
<1>5. ASSUME NEW b \in Batch, Head(plan[r]).do = "enter", Head(plan[r]).on = b
      PROVE  StartsAt(r, b, Final(b)) /\ Carries(r, b)
  <2>1. ~Short(plan[r])
    <3> DEFINE D == {c \in posted : job[c] = "over"}
    <3>1. SUFFICES ASSUME ShortOf(plan[r], sent, posted, D)
                   PROVE  FALSE
      BY DEF Short
    <3>2. D \subseteq posted
      OBVIOUS
    <3> HIDE DEF D
    <3> QED BY <1>1, <1>5, <3>1, <3>2, ShortForms
  <2>2. PICK c \in posted : Carries(r, c)
    BY <2>1 DEF PlanInv
  <2>3. \A k \in Ends(c) : ~UndoesAt(r, c, k)
    BY <1>5, UndoKinds
  <2>4. PICK k \in 1 .. Final(c) : StartsAt(r, c, k)
    BY <2>2, <2>3 DEF Carries
  <2>5. k = Final(c) /\ c = b
    BY <1>5, <2>4, StartKinds
  <2> QED BY <2>2, <2>4, <2>5
<1> QED BY <1>1, <1>2, <1>3, <1>4, <1>5


\* The part that an operation puts in, and the one that it leaves.
LEMMA PageParts ==
  ASSUME NEW r \in Request, file \in File, copy[r] \in File, Head(plan[r]).do \in OnItems \cup OnBatches
  PROVE  /\ Page(r) \in File
         /\ Head(plan[r]).do \in OnItems => Page(r).items = copy[r].items /\ Page(r).batches = file.batches
         /\ Head(plan[r]).do \in OnBatches => Page(r).batches = copy[r].batches /\ Page(r).items = file.items
<1>1. CASE Head(plan[r]).do \in OnItems
  <2>1. Page(r) = [file EXCEPT !.items = copy[r].items]
    BY <1>1 DEF Page, Part
  <2>2. Head(plan[r]).do \notin OnBatches
    BY <1>1 DEF OnItems, OnBatches
  <2>3. Page(r) \in File /\ Page(r).items = copy[r].items /\ Page(r).batches = file.batches
    BY <2>1 DEF File
  <2> QED BY <1>1, <2>2, <2>3
<1>2. CASE Head(plan[r]).do \in OnBatches
  <2>1. Head(plan[r]).do \notin OnItems
    BY <1>2 DEF OnItems, OnBatches
  <2>2. Page(r) = [file EXCEPT !.batches = copy[r].batches]
    BY <2>1 DEF Page, Part
  <2>3. Page(r) \in File /\ Page(r).batches = copy[r].batches /\ Page(r).items = file.items
    BY <2>2 DEF File
  <2> QED BY <1>2, <2>1, <2>3
<1> QED BY <1>1, <1>2

\* Copies have the type of the file.
LEMMA CopiesTyped ==
  ASSUME TypeOK, PlanInv, StepInv, NEW r \in Request, Load(r) \/ Unlink(r) \/ Reload(r)
  PROVE  copy' \in [Request -> File]
<1>1. posted \subseteq Batch /\ sent \subseteq Item /\ file \in File /\ copy \in [Request -> File]
  BY DEF TypeOK
<1>2. CASE Load(r)
  <2>1. CanLoad(r) /\ Finds(file, Head(plan[r]))
    BY <1>2 DEF Load
  <2>2. Head(plan[r]) \in Op /\ Head(plan[r]).do \in OnItems \cup OnBatches
    BY <1>1, <2>1, InHand
  <2>3. Changed(file, Head(plan[r])) \in File
    BY <1>1, <2>1, <2>2, ChangedItems, ChangedBatches
  <2>4. copy' = [copy EXCEPT ![r] = file] \/ copy' = [copy EXCEPT ![r] = Changed(file, Head(plan[r]))]
    BY <1>2 DEF Load
  <2> QED BY <1>1, <2>3, <2>4
<1>3. CASE Unlink(r)
  <2>1. step[r] = "unlink" /\ Head(plan[r]).do \in {"delete", "clear"}
    BY <1>3 DEF Unlink, StepInv
  <2>2. Head(plan[r]) \in Op
    BY <1>1, <2>1, InHand
  <2>3. Changed(copy[r], Head(plan[r])) \in File
    BY <1>1, <2>1, <2>2, ChangedItems DEF OnItems
  <2>4. copy' = [copy EXCEPT ![r] = Changed(copy[r], Head(plan[r]))]
    BY <1>3 DEF Unlink
  <2> QED BY <1>1, <2>3, <2>4
<1>4. CASE Reload(r)
  <2>1. step[r] = "reload" /\ Head(plan[r]).do \in OnItems \cup OnBatches
    BY <1>4 DEF Reload, StepInv
  <2>2. Page(r) \in File
    BY <1>1, <2>1, PageParts
  <2>3. copy' = [copy EXCEPT ![r] = Page(r)]
    BY <1>4 DEF Reload
  <2> QED BY <1>1, <2>2, <2>3
<1> QED BY <1>2, <1>3, <1>4

\* Every variable keeps its type.
LEMMA TypeKept ==
  ASSUME TypeOK, PlanInv, StepInv, [Next]_vars
  PROVE  TypeOK'
<1> DEFINE Steps == {"start", "load", "unlink", "reload", "replace"}
<1>0. /\ file \in File /\ media \subseteq Item /\ sent \subseteq Item
      /\ job \in [Batch -> {"none", "running", "over"}] /\ follow \subseteq Batch
      /\ step \in [Request -> Steps]
      /\ copy \in [Request -> File] /\ record \in [Request -> BatchRow]
      /\ posted \subseteq Batch /\ asked \in 0 .. MaxRequests
      /\ stale \subseteq Request /\ disturbed \subseteq Batch
      /\ stored \subseteq Batch \X Item /\ broken \subseteq Batch /\ bared \subseteq Item
      /\ \A r \in Request : BatchOf(r) \subseteq Batch
  BY DEF TypeOK, BatchOf
<1>1. ASSUME NEW r \in Request, Ask(r)
      PROVE  TypeOK'
  <2>1. step' \in [Request -> Steps]
    BY <1>0, <1>1 DEF Ask, Turns
  <2>2. posted' \subseteq Batch
    BY <1>0, <1>1 DEF Ask
  <2>3. asked' \in 0 .. MaxRequests
    BY <1>0, <1>1, FeedbackAssumption DEF Ask
  <2> QED BY <1>0, <1>1, <2>1, <2>2, <2>3 DEF Ask, TypeOK, world, history
<1>2. ASSUME NEW r \in Request, LoadFails(r) \/ Skip(r) \/ Attach(r) \/ AttachFails(r) \/ SubmitFails(r) \/ Respond(r)
      PROVE  TypeOK'
  <2>1. step' \in [Request -> Steps]
    BY <1>0, <1>2 DEF LoadFails, Skip, Attach, AttachFails, SubmitFails, Respond, Turns
  <2>2. UNCHANGED <<file, world, copy, record, posted, asked, crashed, history>>
    BY <1>2 DEF LoadFails, Skip, Attach, AttachFails, SubmitFails, Respond
  <2> QED BY <1>0, <2>1, <2>2 DEF TypeOK, world, history
<1>3. ASSUME NEW r \in Request, StoreMedia(r)
      PROVE  TypeOK'
  <2>1. plan[r] # <<>> /\ Head(plan[r]).do = "create"
    BY <1>3 DEF StoreMedia, At
  <2>2. Head(plan[r]).on \in Item
    BY <1>0, <2>1, Ahead, Kinds
  <2>3. step' \in [Request -> Steps] /\ media' \subseteq Item
    BY <1>0, <1>3, <2>2 DEF StoreMedia
  <2> QED BY <1>0, <1>3, <2>3 DEF StoreMedia, TypeOK
<1>12. ASSUME NEW r \in Request, StoreMediaFails(r)
      PROVE  TypeOK'
  <2>1. plan[r] # <<>> /\ Head(plan[r]).do = "create"
    BY <1>12 DEF StoreMediaFails, At
  <2>2. Head(plan[r]).on \in Item
    BY <1>0, <2>1, Ahead, Kinds
  <2>3. step' \in [Request -> Steps] /\ media' \subseteq Item /\ broken' \subseteq Batch
    BY <1>0, <1>12, <2>2 DEF StoreMediaFails, Turns
  <2> QED BY <1>0, <1>12, <2>3 DEF StoreMediaFails, TypeOK
<1>13. ASSUME NEW r \in Request, SaveFails(r)
      PROVE  TypeOK'
  <2>1. step' \in [Request -> Steps]
    BY <1>0, <1>13 DEF SaveFails, Turns
  <2>2. broken' \subseteq Batch /\ bared' \subseteq Item
    BY <1>0, <1>13 DEF SaveFails
  <2> QED BY <1>0, <1>13, <2>1, <2>2 DEF SaveFails, TypeOK, world
<1>4. ASSUME NEW r \in Request, Load(r)
      PROVE  TypeOK'
  <2>1. step' \in [Request -> Steps] /\ stale' \subseteq Request /\ disturbed' \subseteq Batch
    BY <1>0, <1>4 DEF Load
  <2>2. copy' \in [Request -> File]
    BY <1>4, CopiesTyped
  <2> QED BY <1>0, <1>4, <2>1, <2>2 DEF Load, TypeOK, world
<1>5. ASSUME NEW r \in Request, Unlink(r) \/ Reload(r)
      PROVE  TypeOK'
  <2>1. step' \in [Request -> Steps] /\ media' \subseteq Item
    BY <1>0, <1>5 DEF Unlink, Reload, world
  <2>2. copy' \in [Request -> File]
    BY <1>5, CopiesTyped
  <2> QED BY <1>0, <1>5, <2>1, <2>2 DEF Unlink, Reload, TypeOK, world, history
<1>6. ASSUME NEW r \in Request, Replace(r)
      PROVE  TypeOK'
  <2>1. step' \in [Request -> Steps] /\ file' \in File /\ stale' \subseteq Request
    BY <1>0, <1>6 DEF Replace, Turns
  <2>2. record' \in [Request -> BatchRow]
    <3>1. Head(plan[r]).do \in OnBatches => Head(plan[r]).on \in Batch
      BY <1>0, <1>6, InHand DEF Replace
    <3>2. Head(plan[r]).do \in OnBatches => copy[r].batches[Head(plan[r]).on] \in BatchRow
      BY <1>0, <3>1, Rows
    <3> QED BY <1>0, <1>6, <3>2 DEF Replace
  <2>3. stored' \subseteq Batch \X Item
    <3>1. CASE Head(plan[r]).do = "create"
      <4>1. Head(plan[r]).on \in Item
        <5>1. plan[r] # <<>>
          BY <1>0, <1>6, InHand DEF Replace
        <5> QED BY <1>0, <3>1, <5>1, Ahead, Kinds
      <4>2. stored' = stored \cup (BatchOf(r) \X {Head(plan[r]).on})
        BY <1>6, <3>1 DEF Replace
      <4> QED BY <1>0, <4>1, <4>2
    <3>2. CASE Head(plan[r]).do # "create"
      BY <1>0, <1>6, <3>2 DEF Replace
    <3> QED BY <3>1, <3>2
  <2> QED BY <1>0, <1>6, <2>1, <2>2, <2>3 DEF Replace, TypeOK, world
<1>7. ASSUME NEW r \in Request, Submit(r)
      PROVE  TypeOK'
  <2>1. sent' \subseteq Item /\ job' \in [Batch -> {"none", "running", "over"}]
    BY <1>7, SubmitPlan DEF Submit
  <2>2. step' \in [Request -> Steps]
    BY <1>0, <1>7 DEF Submit, Turns
  <2> QED BY <1>0, <1>7, <2>1, <2>2 DEF Submit, TypeOK, history
<1>14. ASSUME NEW r \in Request, SubmitRaises(r)
      PROVE  TypeOK'
  <2>1. sent' \subseteq Item /\ job' \in [Batch -> {"none", "running", "over"}]
    BY <1>14, SubmitPlan DEF SubmitRaises
  <2>2. step' \in [Request -> Steps] /\ broken' \subseteq Batch
    BY <1>0, <1>14 DEF SubmitRaises, Turns
  <2> QED BY <1>0, <1>14, <2>1, <2>2 DEF SubmitRaises, TypeOK
<1>8. ASSUME NEW r \in Request, Look(r)
      PROVE  TypeOK'
  <2>1. Head(plan[r]).on \in Batch
    BY <1>0, <1>8, Ahead DEF Look, At
  <2>2. record' \in [Request -> BatchRow]
    BY <1>0, <1>8, <2>1, Rows DEF Look
  <2>3. step' \in [Request -> Steps]
    BY <1>0, <1>8 DEF Look, Turns
  <2> QED BY <1>0, <1>8, <2>2, <2>3 DEF Look, TypeOK, world, history
<1>9. ASSUME NEW b \in Batch, JobEnds(b) \/ FollowEnds(b)
      PROVE  TypeOK'
  <2>1. job' \in [Batch -> {"none", "running", "over"}] /\ follow' \subseteq Batch
    BY <1>0, <1>9 DEF JobEnds, FollowEnds
  <2> QED BY <1>0, <1>9, <2>1 DEF JobEnds, FollowEnds, TypeOK, requests, history
<1>10. CASE Crash
  BY <1>0, <1>10 DEF Crash, TypeOK, world, history
<1>11. CASE UNCHANGED vars
  BY <1>0, <1>11 DEF TypeOK, vars, world, requests, history
<1> QED BY <1>1, <1>2, <1>3, <1>4, <1>5, <1>6, <1>7, <1>8, <1>9, <1>10, <1>11, <1>12, <1>13, <1>14 DEF Next


-----------------------------------------------------------------------------
(* Steps, by what they do to the file and its copies.                       *)

\* A request goes on and leaves them.
Quiet(r) ==
  /\ \/ Ask(r) \/ LoadFails(r) \/ Skip(r) \/ Attach(r) \/ AttachFails(r)
     \/ Submit(r) \/ SubmitFails(r) \/ Look(r) \/ Respond(r)
     \/ StoreMediaFails(r) \/ SaveFails(r) \/ SubmitRaises(r)
  /\ UNCHANGED <<file, copy, stale, overlapped, disturbed, stored, acked, crashed>>
  /\ media \subseteq media' /\ broken' \subseteq broken \cup BatchOf(r)
  /\ step[r] # "unlink" /\ \A i \in Item : Deleting(r, i) => i \in bared'
  /\ step' = [step EXCEPT ![r] = "start"]
  /\ \A q \in Request \ {r} : plan'[q] = plan[q]

\* Something happens elsewhere.
Elsewhere ==
  /\ UNCHANGED <<file, media, copy, stale, overlapped, disturbed, stored, broken, bared, acked, crashed>>
  /\ UNCHANGED <<plan, step, posted, sent>>
  /\ \A b \in Batch : job[b] = "none" => job'[b] = "none"

\* What agents and requests have done stays done.
Lasting ==
  /\ sent \subseteq sent' /\ posted \subseteq posted'
  /\ \A b \in Batch : (job[b] # "none" => job'[b] # "none") /\ (job[b] = "over" => job'[b] = "over")
  /\ (overlapped => overlapped') /\ (crashed => crashed') /\ disturbed \subseteq disturbed'
  /\ stored \subseteq stored' /\ broken \subseteq broken' /\ bared \subseteq bared'

\* Every step is of one of these kinds.
LEMMA StepKinds ==
  ASSUME TypeOK, PlanInv, StepInv, [Next]_vars
  PROVE  /\ \/ \E r \in Request : Quiet(r) \/ StoreMedia(r) \/ Load(r) \/ Unlink(r) \/ Reload(r) \/ Replace(r)
            \/ Elsewhere
            \/ Crash
         /\ Lasting
<1> DEFINE Kind ==
             \/ \E r \in Request : Quiet(r) \/ StoreMedia(r) \/ Load(r) \/ Unlink(r) \/ Reload(r) \/ Replace(r)
             \/ Elsewhere
             \/ Crash
<1>1. ASSUME NEW r \in Request,
             \/ Ask(r) \/ LoadFails(r) \/ Skip(r) \/ Attach(r) \/ AttachFails(r)
             \/ Submit(r) \/ SubmitFails(r) \/ Look(r) \/ Respond(r)
             \/ StoreMediaFails(r) \/ SaveFails(r) \/ SubmitRaises(r)
      PROVE  Kind /\ Lasting
  <2>1. step' = [step EXCEPT ![r] = "start"] /\ \E p : plan' = [plan EXCEPT ![r] = p]
    BY <1>1 DEF Ask, LoadFails, Skip, Attach, AttachFails, Submit, SubmitFails, Look, Respond,
                StoreMediaFails, SaveFails, SubmitRaises, Turns
  <2> DEFINE Leaves == /\ UNCHANGED <<file, copy, stale, overlapped, disturbed, stored, acked, crashed>>
                      /\ media \subseteq media' /\ broken' \subseteq broken \cup BatchOf(r)
                      /\ broken \subseteq broken' /\ bared \subseteq bared'
             Open == step[r] # "unlink" /\ \A i \in Item : Deleting(r, i) => i \in bared'
  <2>2. Leaves
    <3>1. CASE Ask(r) \/ LoadFails(r) \/ Skip(r) \/ Attach(r) \/ AttachFails(r)
      BY <3>1 DEF Ask, LoadFails, Skip, Attach, AttachFails, world, history
    <3>2. CASE Submit(r) \/ SubmitFails(r) \/ Look(r) \/ Respond(r)
      BY <3>2 DEF Submit, SubmitFails, Look, Respond, world, history
    <3>3. CASE StoreMediaFails(r)
      BY <3>3 DEF StoreMediaFails
    <3>4. CASE SaveFails(r)
      BY <3>4 DEF SaveFails, world
    <3>5. CASE SubmitRaises(r)
      BY <3>5 DEF SubmitRaises
    <3> QED BY <1>1, <3>1, <3>2, <3>3, <3>4, <3>5
  <2>3. Open
    <3>0. step[r] \in {"start", "load"} => Open
      BY DEF Deleting
    <3> HIDE DEF Open
    <3>1. CASE Ask(r)
      <4>1. plan[r] = <<>>
        BY <3>1 DEF Ask
      <4> QED BY <3>0, <4>1 DEF StepInv
    <3>2. CASE LoadFails(r) \/ Skip(r) \/ Attach(r) \/ AttachFails(r)
      BY <3>0, <3>2 DEF LoadFails, Skip, Attach, AttachFails, CanLoad, At
    <3>3. CASE Submit(r) \/ SubmitFails(r) \/ Look(r) \/ Respond(r) \/ StoreMediaFails(r) \/ SubmitRaises(r)
      BY <3>0, <3>3 DEF Submit, SubmitFails, Look, Respond, StoreMediaFails, SubmitRaises, At
    <3>4. CASE SaveFails(r)
      BY <3>4 DEF SaveFails, Open
    <3> QED BY <1>1, <3>1, <3>2, <3>3, <3>4
  <2>4. \A q \in Request \ {r} : plan'[q] = plan[q]
    BY <2>1 DEF PlanInv
  <2>5. Lasting
    <3>1. \E p \in Seq(Op) : plan' = [plan EXCEPT ![r] = p] /\ Proceeds(r, p) /\ Grows(r)
      BY <1>1, PlanOf
    <3> QED BY <2>2, <3>1 DEF Grows, Lasting
  <2> QED BY <1>1, <2>1, <2>2, <2>3, <2>4, <2>5 DEF Quiet
<1>2. ASSUME NEW r \in Request, StoreMedia(r) \/ Load(r) \/ Unlink(r) \/ Reload(r) \/ Replace(r)
      PROVE  Kind /\ Lasting
  <2>1. UNCHANGED <<sent, posted, job>>
    BY <1>2 DEF StoreMedia, Load, Unlink, Reload, Replace, world
  <2>2. (overlapped => overlapped') /\ (crashed => crashed') /\ disturbed \subseteq disturbed'
       /\ stored \subseteq stored' /\ broken \subseteq broken' /\ bared \subseteq bared'
    <3>1. CASE StoreMedia(r)
      BY <3>1 DEF StoreMedia
    <3>2. CASE Load(r)
      BY <3>2 DEF Load
    <3>3. CASE Unlink(r)
      BY <3>3 DEF Unlink
    <3>4. CASE Reload(r)
      BY <3>4 DEF Reload, history
    <3>5. CASE Replace(r)
      BY <3>5 DEF Replace
    <3> QED BY <1>2, <3>1, <3>2, <3>3, <3>4, <3>5
  <2> QED BY <1>2, <2>1, <2>2 DEF Lasting
<1>3. ASSUME NEW b \in Batch, JobEnds(b) \/ FollowEnds(b)
      PROVE  Kind /\ Lasting
  <2>1. Elsewhere
    <3>1. /\ UNCHANGED <<file, media, copy, stale, overlapped, disturbed, stored, broken, bared, acked, crashed>>
          /\ UNCHANGED <<plan, step, posted, sent>>
      BY <1>3 DEF JobEnds, FollowEnds, requests, history
    <3>2. \A c \in Batch : job[c] = "none" => job'[c] = "none"
      BY <1>3 DEF JobEnds, FollowEnds, TypeOK
    <3> QED BY <3>1, <3>2 DEF Elsewhere
  <2>2. \A c \in Batch : (job[c] # "none" => job'[c] # "none") /\ (job[c] = "over" => job'[c] = "over")
    BY <1>3 DEF JobEnds, FollowEnds, TypeOK
  <2> QED BY <2>1, <2>2 DEF Lasting, Elsewhere
<1>4. CASE Crash
  BY <1>4 DEF Crash, world, history, Lasting
<1>5. CASE UNCHANGED vars
  BY <1>5 DEF vars, world, requests, history, Elsewhere, Lasting
<1> QED BY <1>1, <1>2, <1>3, <1>4, <1>5 DEF Next

-----------------------------------------------------------------------------
(* The file is true, TruthInv.                                              *)

\* An operation that a request is at writes what is true.
LEMMA ChangesTrue ==
  ASSUME TypeOK, PlanInv, StepInv, NEW r \in Request, CanLoad(r) \/ step[r] \in {"load", "unlink", "reload", "replace"},
         NEW f \in File, Truthful(f), Head(plan[r]).do \in {"delete", "clear"} \/ Finds(f, Head(plan[r]))
  PROVE  Truthful(Changed(f, Head(plan[r])))
<1> DEFINE o == Head(plan[r])
           g == Changed(f, o)
<1>1. /\ plan[r] # <<>> /\ o \in Op /\ o.do \in OnItems \cup OnBatches /\ (o.do \in OnBatches => o.on \in Batch)
      /\ o.do = "mark" => o.on \in sent
      /\ o.do = "summary" => job[o.on] = "over"
      /\ o.do = "enter" => job[o.on] # "none"
  <2>1. posted \subseteq Batch /\ sent \subseteq Item
    BY DEF TypeOK
  <2> QED BY <2>1, InHand, Ahead
<1>2. f.items \in [Item -> ItemRow] /\ f.batches \in [Batch -> BatchRow]
  BY DEF File
<1>3. CASE o.do \in OnItems
  <2> HIDE DEF o
  <2>1. /\ g.batches = f.batches
        /\ \A i \in Item : i # o.on /\ o.do # "clear" => g.items[i] = f.items[i]
        /\ o.do = "create" => g.items[o.on].status = "pending"
        /\ o.do = "transcribe" => g.items[o.on].status = f.items[o.on].status
        /\ o.do = "delete" => g.items[o.on] = Absent
        /\ o.do = "clear" => \A i \in Item : g.items[i] = Absent
    BY <1>1, <1>3, ChangedItems DEF o
  <2> HIDE DEF g
  <2>2. Absent.status # "submitted"
    BY DEF Absent
  <2>3. o.do \in {"create", "mark", "transcribe", "delete", "clear"}
    BY <1>3 DEF OnItems
  <2>4. \A i \in Item : g.items[i].status = "submitted" => i \in sent
    BY <1>1, <2>1, <2>2, <2>3 DEF Truthful, TrueOf
  <2>5. Truthful(g)
    BY <2>1, <2>4 DEF Truthful, TrueOf
  <2> QED BY <2>5 DEF g, o
<1>4. CASE o.do \in OnBatches
  <2> HIDE DEF o
  <2>1. /\ g.items = f.items /\ g \in File
        /\ \A b \in Batch : b # o.on => g.batches[b] = f.batches[b]
        /\ g.batches[o.on].kept
        /\ o.do # "enter" => f.batches[o.on].kept
        /\ o.do = "enter" => ~g.batches[o.on].summary /\ ~g.batches[o.on].read
        /\ o.do \notin {"enter", "summary"} => g.batches[o.on].summary = f.batches[o.on].summary
        /\ o.do \in {"summary", "notify"} => g.batches[o.on].read = f.batches[o.on].read
        /\ o.do = "unread" => ~g.batches[o.on].read
        /\ o.do = "read" => g.batches[o.on].read /\ g.batches[o.on].notified
        /\ f.batches[o.on].notified /\ o.do # "enter" => g.batches[o.on].notified
    <3>1. Finds(f, o)
      BY <1>4 DEF OnBatches, o
    <3> QED BY <1>1, <1>4, <3>1, ChangedBatches DEF o
  <2> HIDE DEF g
  <2>3. o.do \in {"enter", "summary", "notify", "read", "unread"} /\ o.on \in Batch
    BY <1>1, <1>4 DEF OnBatches
  <2>4. /\ job[o.on] # "none"
        /\ g.batches[o.on].summary => g.batches[o.on].kept /\ job[o.on] = "over"
        /\ g.batches[o.on].read => g.batches[o.on].notified /\ g.batches[o.on].kept
    BY <1>1, <2>1, <2>3 DEF Truthful, TrueOf
  <2>5. Truthful(g)
    BY <2>1, <2>4 DEF Truthful, TrueOf
  <2> QED BY <2>5 DEF g, o
<1> QED BY <1>1, <1>3, <1>4

\* So are the copies of it that requests work on.
LEMMA TruthKept ==
  ASSUME TypeOK, PlanInv, StepInv, TruthInv, [Next]_vars
  PROVE  TruthInv'
<1>0. file \in File /\ copy \in [Request -> File]
  BY DEF TypeOK
<1>1. Lasting
  BY StepKinds
<1>2. ASSUME NEW f, Truthful(f)
      PROVE  TrueOf(f, sent', job')
  BY <1>1, <1>2 DEF Truthful, TrueOf, Lasting
<1>3. SUFFICES /\ TrueOf(file', sent', job')
               /\ \A q \in Request : TrueOf(copy'[q], sent', job')
  BY DEF TruthInv, Truthful, TrueOf
<1>4. CASE UNCHANGED <<file, copy>>
  BY <1>2, <1>4 DEF TruthInv
<1>5. ASSUME NEW r \in Request, NEW g, Truthful(g), UNCHANGED file, copy' = [copy EXCEPT ![r] = g]
      PROVE  /\ TrueOf(file', sent', job')
             /\ \A q \in Request : TrueOf(copy'[q], sent', job')
  <2>1. \A q \in Request : copy'[q] = IF q = r THEN g ELSE copy[q]
    BY <1>0, <1>5
  <2> QED BY <1>2, <1>5, <2>1 DEF TruthInv
<1>6. ASSUME NEW r \in Request, Load(r)
      PROVE  \E g : Truthful(g) /\ UNCHANGED file /\ copy' = [copy EXCEPT ![r] = g]
  <2>1. CASE Head(plan[r]).do \in {"delete", "clear"}
    BY <1>6, <2>1 DEF Load, TruthInv
  <2>2. CASE Head(plan[r]).do \notin {"delete", "clear"}
    <3>1. CanLoad(r) /\ Finds(file, Head(plan[r])) /\ copy' = [copy EXCEPT ![r] = Changed(file, Head(plan[r]))]
      BY <1>6, <2>2 DEF Load
    <3> QED BY <1>0, <1>6, <3>1, ChangesTrue DEF TruthInv, Load
  <2> QED BY <2>1, <2>2
<1>7. ASSUME NEW r \in Request, Unlink(r)
      PROVE  \E g : Truthful(g) /\ UNCHANGED file /\ copy' = [copy EXCEPT ![r] = g]
  <2>1. step[r] = "unlink" /\ Head(plan[r]).do \in {"delete", "clear"}
    BY <1>7 DEF Unlink, StepInv
  <2> QED BY <1>0, <1>7, <2>1, ChangesTrue DEF TruthInv, Unlink
<1>8. ASSUME NEW r \in Request, Reload(r)
      PROVE  \E g : Truthful(g) /\ UNCHANGED file /\ copy' = [copy EXCEPT ![r] = g]
  <2>1. step[r] = "reload" /\ Head(plan[r]).do \in OnItems \cup OnBatches
    BY <1>8 DEF Reload, StepInv
  <2>2. Truthful(Page(r))
    BY <1>0, <2>1, PageParts DEF Truthful, TrueOf, TruthInv
  <2> QED BY <1>8, <2>2 DEF Reload
<1>9. ASSUME NEW r \in Request, Replace(r)
      PROVE  /\ TrueOf(file', sent', job')
             /\ \A q \in Request : TrueOf(copy'[q], sent', job')
  BY <1>2, <1>9 DEF Replace, TruthInv
<1>10. ASSUME NEW r \in Request, Quiet(r) \/ StoreMedia(r)
       PROVE  UNCHANGED <<file, copy>>
  BY <1>10 DEF Quiet, StoreMedia
<1>11. Elsewhere \/ Crash => UNCHANGED <<file, copy>>
  BY DEF Elsewhere, Crash
<1> QED BY <1>4, <1>5, <1>6, <1>7, <1>8, <1>9, <1>10, <1>11, StepKinds


-----------------------------------------------------------------------------
(* What an error has ended, BrokenInv.                                      *)

\* Who goes on to enter a batch that was posted before is on the way to it.
LEMMA NextEnters ==
  ASSUME posted \subseteq Batch, sent' \subseteq Item, posted' \subseteq Batch, NEW r \in Request,
         NEW p \in Seq(Op), p # <<>>, Proceeds(r, p), NEW b \in posted, Last(p) = Do("enter", b)
  PROVE  Underway(r, b)
<1>1. ~ShortNext(p)
  <2> DEFINE D == {c \in posted' : job'[c] = "over"}
  <2>1. D \subseteq posted'
    OBVIOUS
  <2> HIDE DEF D
  <2>2. Last(p).do = "enter"
    BY DEF Do
  <2>3. ~ShortOf(p, sent', posted', D)
    BY <2>1, <2>2, ShortForms
  <2> QED BY <2>3 DEF ShortNext, D
<1>2. \A c \in posted : \A l \in Ends(c) : p # Rest(c, l)
  <2>1. ASSUME NEW c \in Batch, NEW l \in Ends(c), p = Rest(c, l)
        PROVE  Last(p) = Do("raise", c)
    BY <2>1, InUndo
  <2>2. \A c \in Batch : Do("raise", c) # Do("enter", b)
    BY DEF Do
  <2> QED BY <2>1, <2>2
<1>3. PICK c \in posted' : (c \in posted => Underway(r, c)) /\ \E l \in 1 .. Final(c) : p = SubSeq(StartBatch(c), l, Final(c))
  BY <1>1, <1>2 DEF Proceeds
<1>4. Last(p) = Do("enter", c)
  BY <1>3, InStart
<1>5. c = b
  BY <1>4 DEF Do
<1> QED BY <1>3, <1>5

\* What an error has ended stays so.
LEMMA BrokenKept ==
  ASSUME TypeOK, TypeOK', PlanInv, StepInv, BrokenInv, [Next]_vars
  PROVE  BrokenInv'
<1>0. /\ posted \subseteq Batch /\ sent \subseteq Item /\ posted' \subseteq Batch /\ sent' \subseteq Item
      /\ plan \in [Request -> Seq(Op)]
  BY DEF TypeOK, PlanInv
<1>1. \A r \in Request : \A b \in BatchOf(r) : b \in posted /\ Carries(r, b)
  BY <1>0, Carrier DEF BatchOf
<1>2. ASSUME NEW r \in Request,
             \/ Ask(r) \/ LoadFails(r) \/ Skip(r) \/ Replace(r) \/ Attach(r) \/ AttachFails(r)
             \/ Submit(r) \/ SubmitFails(r) \/ Look(r) \/ Respond(r)
             \/ StoreMediaFails(r) \/ SaveFails(r) \/ SubmitRaises(r)
      PROVE  BrokenInv'
  <2>1. PICK p \in Seq(Op) : plan' = [plan EXCEPT ![r] = p] /\ Proceeds(r, p) /\ Grows(r)
    BY <1>2, PlanOf
  <2>2. \A q \in Request : plan'[q] = IF q = r THEN p ELSE plan[q]
    BY <1>0, <2>1
  <2>3. ASSUME NEW b \in broken, NEW q \in Request, plan'[q] # <<>>
        PROVE  Last(plan'[q]) # Do("enter", b)
    <3>1. CASE q # r
      BY <2>2, <2>3, <3>1 DEF BrokenInv
    <3>2. CASE q = r
      <4>1. SUFFICES ASSUME Last(p) = Do("enter", b)
                     PROVE  FALSE
        BY <2>2, <3>2
      <4>2. Underway(r, b)
        BY <1>0, <2>1, <2>2, <2>3, <3>2, <4>1, NextEnters DEF BrokenInv
      <4>3. plan[r] # <<>> /\ Last(plan[r]) = Do("enter", b)
        BY <1>0, <4>2, LastTells DEF Underway, BrokenInv
      <4> QED BY <4>3 DEF BrokenInv
    <3> QED BY <3>1, <3>2
  <2>4. ASSUME NEW b \in BatchOf(r), broken' # broken, NEW q \in Request, plan'[q] # <<>>
        PROVE  Last(plan'[q]) # Do("enter", b)
    <3>0. b \in posted /\ b \in Batch /\ Carries(r, b)
      BY <1>0, <1>1
    <3>1. CASE q # r
      <4>1. SUFFICES ASSUME Last(plan[q]) = Do("enter", b)
                     PROVE  FALSE
        BY <2>2, <3>1
      <4>2. Carries(q, b)
        BY <1>0, <2>2, <2>4, <3>0, <3>1, <4>1, Carrier
      <4> QED BY <3>0, <3>1, <4>2 DEF PlanInv
    <3>2. CASE q = r
      <4>1. plan'[r] = <<>> \/ plan'[r] = Undo(plan[r])
        <5>1. CASE StoreMediaFails(r)
          BY <1>0, <2>4, <5>1 DEF StoreMediaFails, Turns
        <5>2. CASE SaveFails(r)
          BY <1>0, <5>2 DEF SaveFails, Turns
        <5>3. CASE SubmitRaises(r)
          BY <1>0, <5>3 DEF SubmitRaises, Turns
        <5>4. CASE Replace(r)
          BY <2>4, <5>4 DEF Replace
        <5>5. CASE Ask(r) \/ LoadFails(r) \/ Skip(r) \/ Attach(r) \/ AttachFails(r)
          BY <2>4, <5>5 DEF Ask, LoadFails, Skip, Attach, AttachFails, history
        <5>6. CASE Submit(r) \/ SubmitFails(r) \/ Look(r) \/ Respond(r)
          BY <2>4, <5>6 DEF Submit, SubmitFails, Look, Respond, history
        <5> QED BY <1>2, <5>1, <5>2, <5>3, <5>4, <5>5, <5>6
      <4>2. Undo(plan[r]) = <<>> \/ Undo(plan[r]) = Undone(b, Size(b))
        <5>1. \A k \in Ends(b) : UndoesAt(r, b, k) => Undo(plan[r]) = <<>>
          BY <3>0, InUndo DEF UndoesAt
        <5>2. \A k \in 1 .. Final(b) : StartsAt(r, b, k) => Undo(plan[r]) = Undone(b, Size(b))
          BY <3>0, InStart DEF StartsAt
        <5> QED BY <3>0, <5>1, <5>2 DEF Carries
      <4>3. Last(Undone(b, Size(b))) = Do("raise", b)
        <5>1. Size(b) \in 0 .. Size(b)
          BY <3>0, Sizes
        <5>2. Undone(b, Size(b)) = Rest(b, <<1, Size(b)>>) /\ <<1, Size(b)>> \in Ends(b)
          BY <3>0, <5>1, WholeUndo
        <5> QED BY <3>0, <5>2, InUndo
      <4>4. Do("raise", b) # Do("enter", b)
        BY DEF Do
      <4> QED BY <2>4, <3>2, <4>1, <4>2, <4>3, <4>4
    <3> QED BY <3>1, <3>2
  <2>6. stored' \subseteq posted' \X Item
    <3>1. stored' = stored \/ (stored' = stored \cup (BatchOf(r) \X {Head(plan[r]).on}) /\ posted' = posted)
      <4>1. CASE StoreMediaFails(r) \/ SaveFails(r) \/ SubmitRaises(r) \/ Replace(r)
        BY <4>1 DEF StoreMediaFails, SaveFails, SubmitRaises, Replace
      <4>2. CASE Ask(r) \/ LoadFails(r) \/ Skip(r) \/ Attach(r) \/ AttachFails(r)
        BY <4>2 DEF Ask, LoadFails, Skip, Attach, AttachFails, history
      <4>3. CASE Submit(r) \/ SubmitFails(r) \/ Look(r) \/ Respond(r)
        BY <4>3 DEF Submit, SubmitFails, Look, Respond, history
      <4> QED BY <1>2, <4>1, <4>2, <4>3
    <3>2. stored' \subseteq Batch \X Item /\ posted \subseteq posted'
      BY <2>1 DEF TypeOK, Grows
    <3>3. BatchOf(r) \subseteq posted
      BY <1>1
    <3> QED BY <3>1, <3>2, <3>3 DEF BrokenInv
  <2>5. broken' \subseteq broken \cup BatchOf(r) /\ posted \subseteq posted'
    <3>1. CASE StoreMediaFails(r) \/ SaveFails(r) \/ SubmitRaises(r) \/ Replace(r)
      BY <3>1 DEF StoreMediaFails, SaveFails, SubmitRaises, Replace
    <3>2. CASE Ask(r) \/ LoadFails(r) \/ Skip(r) \/ Attach(r) \/ AttachFails(r)
      BY <3>2 DEF Ask, LoadFails, Skip, Attach, AttachFails, history
    <3>3. CASE Submit(r) \/ SubmitFails(r) \/ Look(r) \/ Respond(r)
      BY <3>3 DEF Submit, SubmitFails, Look, Respond, history
    <3> QED BY <1>2, <2>1, <3>1, <3>2, <3>3 DEF Grows
  <2> QED BY <1>1, <2>3, <2>4, <2>5, <2>6 DEF BrokenInv
<1>3. ASSUME NEW r \in Request, StoreMedia(r) \/ Load(r) \/ Unlink(r) \/ Reload(r)
      PROVE  BrokenInv'
  <2>1. UNCHANGED <<plan, posted, broken, stored>>
    BY <1>3 DEF StoreMedia, Load, Unlink, Reload, history
  <2> QED BY <2>1 DEF BrokenInv
<1>4. CASE \E b \in Batch : JobEnds(b) \/ FollowEnds(b)
  BY <1>4 DEF JobEnds, FollowEnds, requests, history, BrokenInv
<1>5. CASE Crash
  BY <1>5 DEF Crash, history, BrokenInv
<1>6. CASE UNCHANGED vars
  BY <1>6 DEF vars, requests, history, BrokenInv
<1> QED BY <1>2, <1>3, <1>4, <1>5, <1>6 DEF Next

-----------------------------------------------------------------------------
(* A batch is entered once, OnceInv.                                        *)

\* An operation puts no other batch into the file than the one it enters.
LEMMA Enters ==
  ASSUME NEW f \in File, NEW o \in Op, o.do \in OnItems \cup OnBatches, o.do \in {"delete", "clear"} \/ Finds(f, o),
         NEW b \in Batch, Changed(f, o).batches[b].kept
  PROVE  f.batches[b].kept \/ o = Do("enter", b)
<1>1. CASE o.do \in OnItems
  <2>1. Changed(f, o).batches = f.batches
    BY <1>1, ChangedItems
  <2> QED BY <2>1
<1>2. CASE o.do \in OnBatches
  <2>1. Finds(f, o)
    BY <1>2 DEF OnBatches
  <2>2. /\ b # o.on => Changed(f, o).batches[b] = f.batches[b]
        /\ o.do # "enter" => f.batches[o.on].kept
    BY <1>2, <2>1, ChangedBatches
  <2> QED BY <2>2, Kinds
<1> QED BY <1>1, <1>2

\* The invariant is kept.
LEMMA OnceKept ==
  ASSUME TypeOK, TypeOK', PlanInv, StepInv, BrokenInv, OnceInv, [Next]_vars
  PROVE  OnceInv'
<1> DEFINE Begun(b) == b \notin posted \/ b \in broken \/ \E r \in Request : Carries(r, b)
           Entering(q, b) == \/ step[q] \in {"start", "load"}
                             \/ step[q] \in {"reload", "replace"} /\ Head(plan[q]) = Do("enter", b)
<1>0. /\ posted \subseteq Batch /\ sent \subseteq Item /\ file \in File /\ copy \in [Request -> File]
      /\ plan \in [Request -> Seq(Op)] /\ step \in [Request -> {"start", "load", "unlink", "reload", "replace"}]
  BY DEF TypeOK, PlanInv
<1>1. \A b \in Batch : Begun(b)' => Begun(b)
  <2>1. \A r \in Request, b \in posted : Carries(r, b)' => Carries(r, b)
    BY PlanKept
  <2>2. posted \subseteq posted'
    BY StepKinds DEF Lasting
  <2>3. \A r \in Request : \A b \in BatchOf(r) : b \in posted /\ Carries(r, b)
    BY <1>0, Carrier DEF BatchOf
  <2>4. \A b \in broken' : b \in broken \/ \E r \in Request : b \in BatchOf(r)
    <3>1. \A r \in Request : Quiet(r) => broken' \subseteq broken \cup BatchOf(r)
      BY DEF Quiet
    <3>2. \A r \in Request : StoreMedia(r) \/ Load(r) \/ Unlink(r) \/ Reload(r) \/ Replace(r) => broken' = broken
      BY DEF StoreMedia, Load, Unlink, Reload, Replace, history
    <3>3. Elsewhere \/ Crash => broken' = broken
      BY DEF Elsewhere, Crash, history
    <3> QED BY <3>1, <3>2, <3>3, StepKinds
  <2> QED BY <2>1, <2>2, <2>3, <2>4
<1>2. ASSUME NEW b \in Batch, Begun(b)
      PROVE  /\ ~file.batches[b].kept /\ Do("read", b) \notin acked /\ Do("enter", b) \notin acked
             /\ \A q \in Request : copy[q].batches[b].kept => Entering(q, b)
  BY <1>2 DEF OnceInv
<1> HIDE DEF Begun
<1>3. ASSUME NEW r \in Request, Quiet(r)
      PROVE  OnceInv'
  <2>1. \A q \in Request : q # r => plan'[q] = plan[q] /\ step'[q] = step[q]
    BY <1>3, <1>0 DEF Quiet
  <2>2. \A q \in Request : copy'[q] = copy[q]
    BY <1>3 DEF Quiet
  <2>3. step'[r] = "start"
    BY <1>0, <1>3 DEF Quiet
  <2>4. \A q \in Request : step'[q] \in {"reload", "replace"} /\ Head(plan'[q]).do \in OnBatches =>
          copy'[q].batches[Head(plan'[q]).on].kept
    BY <2>1, <2>2, <2>3 DEF OnceInv
  <2>5. ASSUME NEW b \in Batch, Begun(b)'
        PROVE  /\ ~file'.batches[b].kept /\ Do("read", b) \notin acked' /\ Do("enter", b) \notin acked'
               /\ \A q \in Request : copy'[q].batches[b].kept => Entering(q, b)'
    <3>1. ~file'.batches[b].kept /\ Do("read", b) \notin acked' /\ Do("enter", b) \notin acked'
      BY <1>1, <1>2, <1>3, <2>5 DEF Quiet
    <3>2. \A q \in Request : copy'[q].batches[b].kept => Entering(q, b)'
      BY <1>1, <1>2, <2>1, <2>2, <2>3, <2>5
    <3> QED BY <3>1, <3>2
  <2> QED BY <2>4, <2>5 DEF OnceInv, Begun
<1>4. ASSUME NEW r \in Request, StoreMedia(r) \/ Load(r) \/ Unlink(r) \/ Reload(r)
      PROVE  OnceInv'
  <2> DEFINE o == Head(plan[r])
  <2>1. UNCHANGED <<file, plan, posted>> /\ acked' \subseteq acked
    BY <1>4 DEF StoreMedia, Load, Unlink, Reload, history
  <2>2. \A q \in Request : q # r => step'[q] = step[q] /\ copy'[q] = copy[q]
    BY <1>0, <1>4 DEF StoreMedia, Load, Unlink, Reload
  <2>3. /\ \A b \in Batch : copy'[r].batches[b].kept =>
             file.batches[b].kept \/ (copy[r].batches[b].kept /\ step[r] = "unlink") \/ step'[r] = "load"
               \/ (step'[r] \in {"reload", "replace"} /\ (o = Do("enter", b) \/ (copy[r].batches[b].kept /\ step[r] = "reload")))
        /\ step'[r] \in {"reload", "replace"} /\ o.do \in OnBatches => copy'[r].batches[o.on].kept
    <3>1. CASE StoreMedia(r)
      BY <1>0, <3>1 DEF StoreMedia, At
    <3>2. CASE Load(r)
      <4>1. CanLoad(r) /\ Finds(file, o)
        BY <3>2 DEF Load
      <4>2. o \in Op /\ o.do \in OnItems \cup OnBatches /\ (o.do \in OnBatches => o.on \in Batch)
        BY <1>0, <4>1, InHand
      <4>3. CASE o.do \in {"delete", "clear"}
        <5>1. copy'[r] = file /\ step'[r] = "unlink"
          BY <1>0, <3>2, <4>3 DEF Load
        <5> QED BY <5>1
      <4>4. CASE o.do \notin {"delete", "clear"}
        <5>1. copy'[r] = Changed(file, o) /\ step'[r] = "reload"
          BY <1>0, <3>2, <4>4 DEF Load
        <5>2. o.do \in OnBatches => Changed(file, o).batches[o.on].kept
          BY <1>0, <4>1, <4>2, ChangedBatches
        <5>3. \A b \in Batch : Changed(file, o).batches[b].kept => file.batches[b].kept \/ o = Do("enter", b)
          BY <1>0, <4>1, <4>2, Enters
        <5> QED BY <5>1, <5>2, <5>3
      <4> QED BY <4>3, <4>4
    <3>3. CASE Unlink(r)
      <4>1. step[r] = "unlink" /\ o.do \in {"delete", "clear"}
        BY <3>3 DEF Unlink, StepInv
      <4>2. o \in Op /\ o.do \in OnItems /\ o.do \notin OnBatches
        BY <1>0, <4>1, InHand DEF OnItems, OnBatches
      <4>3. copy'[r] = Changed(copy[r], o)
        BY <1>0, <3>3 DEF Unlink
      <4>4. Changed(copy[r], o).batches = copy[r].batches
        BY <1>0, <4>1, <4>2, ChangedItems
      <4> QED BY <4>1, <4>2, <4>3, <4>4
    <3>4. CASE Reload(r)
      <4>1. step[r] = "reload" /\ o.do \in OnItems \cup OnBatches
        BY <3>4 DEF Reload, StepInv
      <4>2. copy'[r] = Page(r) /\ step'[r] = "replace"
        BY <1>0, <3>4 DEF Reload
      <4>3. Page(r).batches = file.batches \/ Page(r).batches = copy[r].batches
        BY <1>0, <4>1, PageParts
      <4>4. o.do \in OnBatches => copy[r].batches[o.on].kept /\ Page(r).batches = copy[r].batches
        BY <1>0, <4>1, PageParts DEF OnceInv
      <4> QED BY <4>1, <4>2, <4>3, <4>4
    <3> QED BY <1>4, <3>1, <3>2, <3>3, <3>4
  <2>4. ASSUME NEW q \in Request, step'[q] \in {"reload", "replace"}, Head(plan'[q]).do \in OnBatches
        PROVE  copy'[q].batches[Head(plan'[q]).on].kept
    <3>1. CASE q = r
      BY <2>1, <2>3, <2>4, <3>1
    <3>2. CASE q # r
      BY <2>1, <2>2, <2>4, <3>2 DEF OnceInv
    <3> QED BY <3>1, <3>2
  <2>5. ASSUME NEW b \in Batch, Begun(b)'
        PROVE  /\ ~file'.batches[b].kept /\ Do("read", b) \notin acked' /\ Do("enter", b) \notin acked'
               /\ \A q \in Request : copy'[q].batches[b].kept => Entering(q, b)'
    <3>1. /\ ~file.batches[b].kept /\ Do("read", b) \notin acked /\ Do("enter", b) \notin acked
          /\ \A q \in Request : copy[q].batches[b].kept => Entering(q, b)
      BY <1>1, <1>2, <2>5
    <3>2. ASSUME NEW q \in Request, copy'[q].batches[b].kept
          PROVE  Entering(q, b)'
      <4>1. CASE q = r
        BY <2>1, <2>3, <3>1, <3>2, <4>1
      <4>2. CASE q # r
        BY <2>1, <2>2, <3>1, <3>2, <4>2
      <4> QED BY <4>1, <4>2
    <3> QED BY <2>1, <3>1, <3>2
  <2> QED BY <2>4, <2>5 DEF OnceInv, Begun
<1>5. ASSUME NEW r \in Request, Replace(r)
      PROVE  OnceInv'
  <2> DEFINE o == Head(plan[r])
  <2>1. file' = copy[r] /\ UNCHANGED copy /\ step[r] = "replace" /\ step'[r] = "start"
    BY <1>0, <1>5 DEF Replace, Turns
  <2>2. \A q \in Request : q # r => step'[q] = step[q] /\ plan'[q] = plan[q]
    BY <1>0, <1>5 DEF Replace, Turns
  <2>3. acked' \subseteq acked \cup {o}
    BY <1>5 DEF Replace
  <2>4. o \in Op /\ o.do \in OnItems \cup OnBatches /\ (o.do \in OnBatches => o.on \in Batch /\ copy[r].batches[o.on].kept)
    BY <1>0, <2>1, InHand DEF OnceInv
  <2>5. ASSUME NEW b \in Batch, Begun(b)'
        PROVE  /\ ~copy[r].batches[b].kept /\ o # Do("enter", b) /\ o # Do("read", b)
    <3>1. Begun(b) /\ \A q \in Request : copy[q].batches[b].kept => Entering(q, b)
      BY <1>1, <1>2, <2>5
    <3>2. o # Do("enter", b)
      <4> SUFFICES ASSUME o = Do("enter", b)
                   PROVE  FALSE
        OBVIOUS
      <4>1. Carries(r, b) /\ StartsAt(r, b, Final(b)) /\ b \in posted
        <5>1. o.do = "enter" /\ o.on = b
          BY DEF Do
        <5> QED BY <1>0, <2>1, <5>1, InHand, Carrier
      <4>2. plan'[r] = <<>>
        <5>1. Final(b) \in 1 .. Final(b)
          BY Sizes DEF Final
        <5>2. Tail(plan[r]) = <<>>
          BY <4>1, <5>1, InStart DEF StartsAt
        <5> QED BY <1>0, <1>5, <5>2 DEF Replace, Turns
      <4>3. UNCHANGED posted
        BY <1>5 DEF Replace
      <4>7. b \notin broken'
        <5>1. Final(b) \in 1 .. Final(b)
          BY Sizes DEF Final
        <5>2. plan[r] # <<>> /\ Last(plan[r]) = Do("enter", b)
          BY <4>1, <5>1, LastTells
        <5>3. b \notin broken
          BY <5>2 DEF BrokenInv
        <5> QED BY <1>5, <5>3 DEF Replace
      <4>4. PICK q \in Request : Carries(q, b)'
        BY <2>5, <4>1, <4>3, <4>7 DEF Begun
      <4>5. q = r
        BY <4>1, <4>4, PlanKept DEF PlanInv
      <4>6. ~Carries(r, b)'
        <5>1. /\ \A k \in 1 .. Final(b) : SubSeq(StartBatch(b), k, Final(b)) # <<>>
              /\ \A k \in Ends(b) : Rest(b, k) # <<>>
          BY InStart, InUndo
        <5> QED BY <4>2, <5>1 DEF Carries, StartsAt, UndoesAt
      <4> QED BY <4>4, <4>5, <4>6
    <3>3. ~copy[r].batches[b].kept
      BY <2>1, <3>1, <3>2
    <3>4. o # Do("read", b)
      BY <2>4, <3>3 DEF Do, OnBatches
    <3> QED BY <3>2, <3>3, <3>4
  <2>6. ASSUME NEW q \in Request, step'[q] \in {"reload", "replace"}, Head(plan'[q]).do \in OnBatches
        PROVE  copy'[q].batches[Head(plan'[q]).on].kept
    <3>1. q # r
      BY <2>1, <2>6
    <3> QED BY <2>1, <2>2, <2>6, <3>1 DEF OnceInv
  <2>7. ASSUME NEW b \in Batch, Begun(b)'
        PROVE  /\ ~file'.batches[b].kept /\ Do("read", b) \notin acked' /\ Do("enter", b) \notin acked'
               /\ \A q \in Request : copy'[q].batches[b].kept => Entering(q, b)'
    <3>1. /\ Do("read", b) \notin acked /\ Do("enter", b) \notin acked
          /\ \A q \in Request : copy[q].batches[b].kept => Entering(q, b)
      BY <1>1, <1>2, <2>7
    <3>2. ~copy[r].batches[b].kept /\ o # Do("enter", b) /\ o # Do("read", b)
      BY <2>5, <2>7
    <3>3. \A q \in Request : copy'[q].batches[b].kept => Entering(q, b)'
      BY <2>1, <2>2, <3>1, <3>2
    <3> HIDE DEF o
    <3> QED BY <2>1, <2>3, <3>1, <3>2, <3>3
  <2> QED BY <2>6, <2>7 DEF OnceInv, Begun
<1>6. CASE Elsewhere
  <2>1. \A b \in Batch : Begun(b)' => /\ ~file.batches[b].kept /\ Do("read", b) \notin acked /\ Do("enter", b) \notin acked
                                      /\ \A q \in Request : copy[q].batches[b].kept => Entering(q, b)
    BY <1>1, <1>2
  <2> QED BY <1>6, <2>1 DEF OnceInv, Elsewhere, Begun
<1>7. CASE Crash
  <2>1. UNCHANGED <<file, copy, acked>> /\ \A q \in Request : step'[q] = "start"
    BY <1>7 DEF Crash, history
  <2>2. \A b \in Batch : Begun(b)' =>
          ~file.batches[b].kept /\ Do("read", b) \notin acked /\ Do("enter", b) \notin acked
    BY <1>1, <1>2
  <2> QED BY <2>1, <2>2 DEF OnceInv, Begun
<1> QED BY <1>3, <1>4, <1>5, <1>6, <1>7, StepKinds


-----------------------------------------------------------------------------
(* Copies that are not stale, FreshInv.                                     *)

\* What an operation does to its part depends on that part.
LEMMA ByPart ==
  ASSUME NEW f \in File, NEW g \in File, NEW o \in Op
  PROVE  /\ o.do \in OnItems /\ f.items = g.items =>
              (Finds(f, o) <=> Finds(g, o)) /\ Changed(f, o).items = Changed(g, o).items
         /\ o.do \in OnBatches /\ f.batches = g.batches =>
              (Finds(f, o) <=> Finds(g, o)) /\ Changed(f, o).batches = Changed(g, o).batches
<1>1. ASSUME o.do \in OnItems, f.items = g.items
      PROVE  (Finds(f, o) <=> Finds(g, o)) /\ Changed(f, o).items = Changed(g, o).items
  <2>1. Finds(f, o) <=> Finds(g, o)
    BY <1>1 DEF Finds, OnItems, OnBatches
  <2>2. Changed(f, o).items = Changed(g, o).items
    <3>1. o.do \in {"create", "mark", "transcribe", "delete", "clear"}
      BY <1>1 DEF OnItems
    <3>2. CASE o.do = "create"
      BY <1>1, <3>2 DEF Changed, File
    <3>3. CASE o.do = "mark"
      BY <1>1, <3>3 DEF Changed, File
    <3>4. CASE o.do = "transcribe"
      BY <1>1, <3>4 DEF Changed, File
    <3>5. CASE o.do = "delete"
      BY <1>1, <3>5 DEF Changed, File
    <3>6. CASE o.do = "clear"
      BY <1>1, <3>6 DEF Changed, File
    <3> QED BY <3>1, <3>2, <3>3, <3>4, <3>5, <3>6
  <2> QED BY <2>1, <2>2
<1>2. ASSUME o.do \in OnBatches, f.batches = g.batches
      PROVE  (Finds(f, o) <=> Finds(g, o)) /\ Changed(f, o).batches = Changed(g, o).batches
  <2>1. Finds(f, o) <=> Finds(g, o)
    BY <1>2 DEF Finds, OnItems, OnBatches
  <2>2. Changed(f, o).batches = Changed(g, o).batches
    <3>1. o.do \in {"enter", "summary", "notify", "read", "unread"}
      BY <1>2 DEF OnBatches
    <3>2. CASE o.do = "enter"
      BY <1>2, <3>2 DEF Changed, File
    <3>3. CASE o.do = "summary"
      BY <1>2, <3>3 DEF Changed, File
    <3>4. CASE o.do = "notify"
      BY <1>2, <3>4 DEF Changed, File
    <3>5. CASE o.do \in {"read", "unread"}
      <4> DEFINE y == [[f.batches[o.on] EXCEPT !.notified = TRUE] EXCEPT !.read = (o.do = "read")]
      <4>1. o.on \in Batch
        BY <3>5, Kinds DEF OnBatches
      <4>2. /\ Changed(f, o) = [f EXCEPT !.batches = [f.batches EXCEPT ![o.on] = y]]
            /\ Changed(g, o) = [g EXCEPT !.batches = [g.batches EXCEPT ![o.on] = y]]
        <5>1. /\ f.batches \in [Batch -> BatchRow] /\ f = [items |-> f.items, batches |-> f.batches]
              /\ g.batches \in [Batch -> BatchRow] /\ g = [items |-> g.items, batches |-> g.batches]
          BY DEF File
        <5>2. Changed(f, o) = [f EXCEPT !.batches = [f.batches EXCEPT ![o.on] = y]]
          BY <3>5, <4>1, <5>1 DEF Changed
        <5>3. Changed(g, o) = [g EXCEPT !.batches = [g.batches EXCEPT ![o.on] = y]]
          BY <1>2, <3>5, <4>1, <5>1 DEF Changed
        <5> QED BY <5>2, <5>3
      <4> HIDE DEF y
      <4> QED BY <1>2, <4>2 DEF File
    <3> QED BY <3>1, <3>2, <3>3, <3>4, <3>5
  <2> QED BY <2>1, <2>2
<1> QED BY <1>1, <1>2

\* An operation leaves the other part.
LEMMA OtherPart ==
  ASSUME NEW f \in File, NEW o \in Op, o.do \in {"delete", "clear"} \/ Finds(f, o)
  PROVE  /\ o.do \in OnItems => Changed(f, o).batches = f.batches /\ Changed(f, o) \in File
         /\ o.do \in OnBatches => Changed(f, o).items = f.items /\ Changed(f, o) \in File
<1>1. o.do \in OnBatches => Finds(f, o)
  BY DEF OnBatches
<1> QED BY <1>1, ChangedItems, ChangedBatches

\* The invariant is kept.
LEMMA FreshKept ==
  ASSUME TypeOK, PlanInv, StepInv, FreshInv, [Next]_vars
  PROVE  FreshInv'
<1>0. /\ posted \subseteq Batch /\ sent \subseteq Item /\ file \in File /\ copy \in [Request -> File]
      /\ plan \in [Request -> Seq(Op)] /\ step \in [Request -> {"start", "load", "unlink", "reload", "replace"}]
  BY DEF TypeOK, PlanInv
<1> SUFFICES ASSUME ~overlapped'
             PROVE  \A q \in Request \ stale' : Fresh(q)'
  BY DEF FreshInv
<1>1. \A q \in Request \ stale : Fresh(q)
  BY StepKinds DEF Lasting, FreshInv
<1>2. ASSUME NEW q \in Request, q \notin stale, UNCHANGED <<file, plan[q], step[q], copy[q]>>
      PROVE  Fresh(q)'
  BY <1>1, <1>2 DEF Fresh
<1>3. ASSUME NEW q \in Request, step'[q] \in {"start", "load"}
      PROVE  Fresh(q)'
  BY <1>3 DEF Fresh
<1>4. ASSUME NEW r \in Request, Quiet(r) \/ StoreMedia(r), NEW q \in Request \ stale'
      PROVE  Fresh(q)'
  <2>1. UNCHANGED <<file, copy, stale>> /\ step'[r] \in {"start", "load"}
    BY <1>0, <1>4 DEF Quiet, StoreMedia
  <2>2. q # r => UNCHANGED <<plan[q], step[q], copy[q]>>
    BY <1>0, <1>4 DEF Quiet, StoreMedia
  <2> QED BY <1>2, <1>3, <2>1, <2>2
<1>5. ASSUME NEW r \in Request, Load(r), NEW q \in Request \ stale'
      PROVE  Fresh(q)'
  <2> DEFINE o == Head(plan[r])
  <2>1. CASE q # r
    <3>1. q \notin stale /\ UNCHANGED <<file, plan[q], step[q], copy[q]>>
      BY <1>0, <1>5, <2>1 DEF Load
    <3> QED BY <1>2, <3>1
  <2>2. CASE q = r
    <3>1. Finds(file, o) /\ UNCHANGED <<file, plan>> /\ CanLoad(r)
      BY <1>5 DEF Load
    <3>2. CASE o.do \in {"delete", "clear"}
      <4>1. copy'[r] = file /\ step'[r] = "unlink"
        BY <1>0, <1>5, <3>2 DEF Load
      <4> QED BY <2>2, <3>1, <4>1 DEF Fresh
    <3>3. CASE o.do \notin {"delete", "clear"}
      <4>1. copy'[r] = Changed(file, o) /\ step'[r] = "reload"
        BY <1>0, <1>5, <3>3 DEF Load
      <4> QED BY <2>2, <3>1, <4>1 DEF Fresh
    <3> QED BY <3>2, <3>3
  <2> QED BY <2>1, <2>2
<1>6. ASSUME NEW r \in Request, Unlink(r), NEW q \in Request \ stale'
      PROVE  Fresh(q)'
  <2> DEFINE o == Head(plan[r])
  <2>0. UNCHANGED <<file, plan, stale>> /\ step[r] = "unlink"
    BY <1>6 DEF Unlink
  <2>1. CASE q # r
    <3>1. q \notin stale /\ UNCHANGED <<file, plan[q], step[q], copy[q]>>
      BY <1>0, <1>6, <2>1 DEF Unlink
    <3> QED BY <1>2, <3>1
  <2>2. CASE q = r
    <3>1. o.do \in {"delete", "clear"} /\ o \in Op /\ o.do \in OnItems
      BY <1>0, <2>0, InHand DEF StepInv, OnItems
    <3>2. Finds(file, o) /\ copy[r].items = file.items
      BY <1>1, <2>0, <2>2 DEF Fresh
    <3>3. copy'[r] = Changed(copy[r], o) /\ step'[r] = "reload"
      BY <1>0, <1>6 DEF Unlink
    <3>4. copy'[r].items = Changed(file, o).items
      BY <1>0, <3>1, <3>2, <3>3, ByPart
    <3> HIDE DEF o
    <3>5. o = Head(plan'[r])
      BY <2>0 DEF o
    <3> QED BY <2>0, <2>2, <3>1, <3>2, <3>3, <3>4, <3>5 DEF Fresh
  <2> QED BY <2>1, <2>2
<1>7. ASSUME NEW r \in Request, Reload(r), NEW q \in Request \ stale'
      PROVE  Fresh(q)'
  <2> DEFINE o == Head(plan[r])
  <2>0. UNCHANGED <<file, plan, stale>> /\ step[r] = "reload"
    BY <1>7 DEF Reload, history
  <2>1. CASE q # r
    <3>1. q \notin stale /\ UNCHANGED <<file, plan[q], step[q], copy[q]>>
      BY <1>0, <1>7, <2>0, <2>1 DEF Reload
    <3> QED BY <1>2, <3>1
  <2>2. CASE q = r
    <3>1. o \in Op /\ o.do \in OnItems \cup OnBatches
      BY <1>0, <2>0, InHand
    <3>2. Finds(file, o) /\ IF o.do \in OnItems THEN copy[r].items = Changed(file, o).items
                            ELSE copy[r].batches = Changed(file, o).batches
      BY <1>1, <2>0, <2>2 DEF Fresh
    <3>3. copy'[r] = Page(r) /\ step'[r] = "replace"
      BY <1>0, <1>7 DEF Reload
    <3>4. /\ Page(r) \in File
          /\ o.do \in OnItems => Page(r).items = copy[r].items /\ Page(r).batches = file.batches
          /\ o.do \in OnBatches => Page(r).batches = copy[r].batches /\ Page(r).items = file.items
      BY <1>0, <3>1, PageParts
    <3>5. /\ o.do \in OnItems => Changed(file, o).batches = file.batches /\ Changed(file, o) \in File
          /\ o.do \in OnBatches => Changed(file, o).items = file.items /\ Changed(file, o) \in File
      BY <1>0, <3>1, <3>2, OtherPart
    <3> HIDE DEF o
    <3>6. ~(o.do \in OnItems /\ o.do \in OnBatches)
      BY DEF OnItems, OnBatches
    <3>7. copy'[r].items = Changed(file, o).items /\ copy'[r].batches = Changed(file, o).batches
      BY <3>1, <3>2, <3>3, <3>4, <3>5, <3>6
    <3>8. copy'[r] = Changed(file, o)
      BY <3>1, <3>3, <3>4, <3>5, <3>7, Parts
    <3>9. o = Head(plan'[r])
      BY <2>0 DEF o
    <3> QED BY <2>0, <2>2, <3>2, <3>3, <3>8, <3>9 DEF Fresh
  <2> QED BY <2>1, <2>2
<1>8. ASSUME NEW r \in Request, Replace(r), NEW q \in Request \ stale'
      PROVE  Fresh(q)'
  <2> DEFINE o == Head(plan[r])
             d == Head(plan[q])
  <2>0. /\ file' = copy[r] /\ step[r] = "replace" /\ UNCHANGED copy /\ step'[r] = "start"
        /\ r \notin stale
    BY <1>0, <1>8 DEF Replace, Turns
  <2>1. CASE q = r
    BY <1>3, <2>0, <2>1
  <2>2. CASE q # r
    <3>1. UNCHANGED <<plan[q], step[q], copy[q]>>
      BY <1>0, <1>8, <2>2 DEF Replace, Turns
    <3>2. q \notin stale /\ step[q] # "replace" /\ (step[q] \in {"unlink", "reload"} => Part(d) # Part(o))
      BY <1>8, <2>2 DEF Replace
    <3>3. CASE step[q] \in {"start", "load"}
      BY <1>3, <3>1, <3>3
    <3>4. CASE step[q] \in {"unlink", "reload"}
      <4>1. /\ d \in Op /\ d.do \in OnItems \cup OnBatches
            /\ o \in Op /\ o.do \in OnItems \cup OnBatches
        BY <1>0, <2>0, <3>4, InHand
      <4>2. file' = Changed(file, o) /\ Finds(file, o)
        BY <1>1, <2>0 DEF Fresh
      <4> HIDE DEF d, o
      <4>3. (d.do \in OnItems /\ o.do \in OnBatches) \/ (d.do \in OnBatches /\ o.do \in OnItems)
        BY <3>2, <3>4, <4>1 DEF Part
      <4>4. (d.do \in OnItems => file'.items = file.items) /\ (d.do \in OnBatches => file'.batches = file.batches)
        <5>1. ~(d.do \in OnItems /\ d.do \in OnBatches)
          BY DEF OnItems, OnBatches
        <5> QED BY <1>0, <4>1, <4>2, <4>3, <5>1, OtherPart
      <4>5. file' \in File
        BY <1>0, <2>0
      <4>6. /\ Finds(file', d) <=> Finds(file, d)
            /\ d.do \in OnItems => Changed(file', d).items = Changed(file, d).items
            /\ d.do \in OnBatches => Changed(file', d).batches = Changed(file, d).batches
        BY <1>0, <4>1, <4>4, <4>5, ByPart
      <4>7. step[q] = "unlink" => d.do \in OnItems
        BY DEF StepInv, OnItems, d
      <4>8. /\ Finds(file, d) /\ (step[q] = "unlink" => copy[q].items = file.items)
            /\ step[q] = "reload" => IF d.do \in OnItems THEN copy[q].items = Changed(file, d).items
                                     ELSE copy[q].batches = Changed(file, d).batches
        BY <1>1, <3>2, <3>4 DEF Fresh, d
      <4>9. d = Head(plan'[q])
        BY <3>1 DEF d
      <4>10. /\ Finds(file', d) /\ (step'[q] = "unlink" => copy'[q].items = file'.items)
             /\ step'[q] = "reload" => IF d.do \in OnItems THEN copy'[q].items = Changed(file', d).items
                                     ELSE copy'[q].batches = Changed(file', d).batches
             /\ step'[q] # "replace"
        BY <3>1, <3>4, <4>1, <4>4, <4>6, <4>7, <4>8
      <4> QED BY <4>9, <4>10 DEF Fresh
    <3> QED BY <1>0, <3>2, <3>3, <3>4
  <2> QED BY <2>1, <2>2
<1>9. ASSUME Elsewhere, NEW q \in Request \ stale'
      PROVE  Fresh(q)'
  BY <1>2, <1>9 DEF Elsewhere
<1>10. ASSUME Crash, NEW q \in Request \ stale'
       PROVE  Fresh(q)'
  BY <1>3, <1>10 DEF Crash
<1> QED BY <1>4, <1>5, <1>6, <1>7, <1>8, <1>9, <1>10, StepKinds


-----------------------------------------------------------------------------
(* What was acknowledged stays, KeptInv.                                    *)

\* An item stays unless an operation deletes it.
LEMMA ItemStays ==
  ASSUME NEW f \in File, NEW o \in Op, o.do \in OnItems \cup OnBatches, o.do \in {"delete", "clear"} \/ Finds(f, o),
         NEW i \in Item, f.items[i] # Absent, o # Do("delete", i), o # Do("clear", All)
  PROVE  Changed(f, o).items[i] # Absent
<1>1. CASE o.do \in OnItems
  <2>1. o.do \in {"create", "mark", "transcribe", "delete"}
    BY <1>1, Kinds DEF OnItems
  <2>2. o.do = "delete" => o.on # i
    BY Kinds
  <2>3. /\ \A x \in Item : x # o.on => Changed(f, o).items[x] = f.items[x]
        /\ o.do \in {"create", "mark", "transcribe"} => Changed(f, o).items[o.on] # Absent
    BY <1>1, <2>1, ChangedItems
  <2> QED BY <2>1, <2>2, <2>3
<1>2. CASE o.do \in OnBatches
  BY <1>2, OtherPart DEF OnBatches
<1> QED BY <1>1, <1>2

\* Which of the acknowledgements A a file keeps.
AllKept(A, f) ==
  /\ \A i \in Item : Do("create", i) \in A => f.items[i] # Absent
  /\ \A b \in Batch : Do("enter", b) \in A => f.batches[b].kept
  /\ \A b \in Batch : Do("read", b) \in A => f.batches[b].read

\* The invariant is kept.
LEMMA KeptKept ==
  ASSUME TypeOK, PlanInv, StepInv, OnceInv, FreshInv, KeptInv, [Next]_vars
  PROVE  KeptInv'
<1> DEFINE Acks == [do : {"create"}, on : Item] \cup [do : {"enter", "read"}, on : Batch]
<1>0. /\ posted \subseteq Batch /\ sent \subseteq Item /\ file \in File /\ copy \in [Request -> File]
      /\ plan \in [Request -> Seq(Op)] /\ step \in [Request -> {"start", "load", "unlink", "reload", "replace"}]
  BY DEF TypeOK, PlanInv
<1>1. acked \subseteq Acks
  BY DEF KeptInv
<1>2. acked' \subseteq Acks
  <2>1. ASSUME NEW r \in Request, Replace(r)
        PROVE  acked' \subseteq Acks
    <3> DEFINE o == Head(plan[r])
    <3>1. o \in Op /\ (o.do = "create" => o.on \in Item) /\ (o.do \in OnBatches => o.on \in Batch)
      BY <1>0, <2>1, InHand DEF Replace, OnItems
    <3>2. o.do \in {"create", "enter", "read"} => o \in Acks
      <4>1. o = Do(o.do, o.on)
        BY <3>1, Kinds
      <4> HIDE DEF o
      <4> QED BY <3>1, <4>1 DEF Do, OnBatches
    <3> QED BY <1>1, <2>1, <3>2 DEF Replace
  <2>2. ASSUME NEW r \in Request, Quiet(r) \/ StoreMedia(r) \/ Load(r) \/ Unlink(r) \/ Reload(r)
        PROVE  acked' \subseteq acked
    BY <2>2 DEF Quiet, StoreMedia, Load, Unlink, Reload, history
  <2>3. Elsewhere \/ Crash => acked' \subseteq acked
    BY DEF Elsewhere, Crash, history
  <2> QED BY <1>1, <2>1, <2>2, <2>3, StepKinds
<1>3. AcceptedStays <=> AllKept(acked, file)
  <2> DEFINE Stays(o) == CASE o.do = "create" -> file.items[o.on] # Absent
                           [] o.do = "enter" -> file.batches[o.on].kept
                           [] o.do = "read" -> file.batches[o.on].read
  <2>1. \A o \in acked : \/ \E i \in Item : o = Do("create", i) /\ o.do = "create" /\ o.on = i
                         \/ \E b \in Batch : o = Do("enter", b) /\ o.do = "enter" /\ o.on = b
                         \/ \E b \in Batch : o = Do("read", b) /\ o.do = "read" /\ o.on = b
    BY <1>1 DEF Do
  <2>2. \A d, x : Do(d, x).do = d /\ Do(d, x).on = x
    BY DEF Do
  <2>3. AcceptedStays <=> \A o \in acked : Stays(o)
    BY DEF AcceptedStays
  <2>4. \A o : /\ o.do = "create" => (Stays(o) <=> file.items[o.on] # Absent)
               /\ o.do = "enter" => (Stays(o) <=> file.batches[o.on].kept)
               /\ o.do = "read" => (Stays(o) <=> file.batches[o.on].read)
    OBVIOUS
  <2> HIDE DEF Stays
  <2>5. /\ \A i : Stays(Do("create", i)) <=> file.items[i] # Absent
        /\ \A b : Stays(Do("enter", b)) <=> file.batches[b].kept
        /\ \A b : Stays(Do("read", b)) <=> file.batches[b].read
    BY <2>2, <2>4
  <2>6. \A o \in acked : \/ \E i \in Item : o = Do("create", i)
                         \/ \E b \in Batch : o = Do("enter", b) \/ o = Do("read", b)
    BY <2>1
  <2> QED BY <2>3, <2>5, <2>6 DEF AllKept
<1>4. AcceptedStays' <=> AllKept(acked', file')
  <2> DEFINE Stays(o) == CASE o.do = "create" -> file'.items[o.on] # Absent
                           [] o.do = "enter" -> file'.batches[o.on].kept
                           [] o.do = "read" -> file'.batches[o.on].read
  <2>1. \A o \in acked' : \/ \E i \in Item : o = Do("create", i) /\ o.do = "create" /\ o.on = i
                          \/ \E b \in Batch : o = Do("enter", b) /\ o.do = "enter" /\ o.on = b
                          \/ \E b \in Batch : o = Do("read", b) /\ o.do = "read" /\ o.on = b
    BY <1>2 DEF Do
  <2>2. \A d, x : Do(d, x).do = d /\ Do(d, x).on = x
    BY DEF Do
  <2>3. AcceptedStays' <=> \A o \in acked' : Stays(o)
    BY DEF AcceptedStays
  <2>4. \A o : /\ o.do = "create" => (Stays(o) <=> file'.items[o.on] # Absent)
               /\ o.do = "enter" => (Stays(o) <=> file'.batches[o.on].kept)
               /\ o.do = "read" => (Stays(o) <=> file'.batches[o.on].read)
    OBVIOUS
  <2> HIDE DEF Stays
  <2>5. /\ \A i : Stays(Do("create", i)) <=> file'.items[i] # Absent
        /\ \A b : Stays(Do("enter", b)) <=> file'.batches[b].kept
        /\ \A b : Stays(Do("read", b)) <=> file'.batches[b].read
    BY <2>2, <2>4
  <2>6. \A o \in acked' : \/ \E i \in Item : o = Do("create", i)
                         \/ \E b \in Batch : o = Do("enter", b) \/ o = Do("read", b)
    BY <2>1
  <2> QED BY <2>3, <2>5, <2>6 DEF AllKept
<1> HIDE DEF Acks
<1> SUFFICES ASSUME ~overlapped'
             PROVE  AllKept(acked', file') /\ \A q \in Request \ stale' : Forgotten(q)'
  BY <1>2, <1>4 DEF KeptInv, Acks
<1>5. ~overlapped /\ AllKept(acked, file) /\ \A q \in Request \ stale : Forgotten(q)
  BY <1>3, StepKinds DEF Lasting, KeptInv
<1>6. ASSUME NEW q \in Request \ stale, UNCHANGED <<plan[q], step[q]>>, acked' \subseteq acked
      PROVE  Forgotten(q)'
  BY <1>5, <1>6 DEF Forgotten
<1>7. ASSUME NEW q \in Request, step'[q] \in {"start", "load"}
      PROVE  Forgotten(q)'
  BY <1>7 DEF Forgotten
<1>8. ASSUME NEW r \in Request, Quiet(r) \/ StoreMedia(r)
      PROVE  AllKept(acked', file') /\ \A q \in Request \ stale' : Forgotten(q)'
  <2>1. UNCHANGED <<file, stale, acked>> /\ step'[r] \in {"start", "load"}
    BY <1>0, <1>8 DEF Quiet, StoreMedia
  <2>2. \A q \in Request : q # r => UNCHANGED <<plan[q], step[q]>>
    BY <1>0, <1>8 DEF Quiet, StoreMedia
  <2> QED BY <1>5, <1>6, <1>7, <2>1, <2>2
<1>9. ASSUME NEW r \in Request, Load(r)
      PROVE  AllKept(acked', file') /\ \A q \in Request \ stale' : Forgotten(q)'
  <2> DEFINE o == Head(plan[r])
  <2>1. UNCHANGED <<file, plan>> /\ acked' \subseteq acked
    BY <1>9 DEF Load
  <2>2. AllKept(acked', file')
    BY <1>5, <2>1 DEF AllKept
  <2>3. Forgotten(r)'
    <3>1. ASSUME NEW i \in Item, o \in {Do("delete", i), Do("clear", All)}
          PROVE  Do("create", i) \notin acked'
      <4>1. CASE file.items[i] = Absent
        BY <1>5, <2>1, <4>1 DEF AllKept
      <4>2. CASE file.items[i] # Absent
        <5>1. i \in Deletes(file, o)
          <6>1. CASE o = Do("delete", i)
            BY <6>1 DEF Deletes, Do
          <6>2. CASE o = Do("clear", All)
            BY <4>2, <6>2 DEF Deletes, Do
          <6> QED BY <3>1, <6>1, <6>2
        <5> QED BY <1>9, <5>1 DEF Load
      <4> QED BY <4>1, <4>2
    <3>2. ASSUME NEW b \in Batch, o = Do("unread", b)
          PROVE  Do("read", b) \notin acked'
      <4>1. o.do = "unread" /\ o.on = b
        BY <3>2 DEF Do
      <4> QED BY <1>9, <4>1 DEF Load
    <3> HIDE DEF o
    <3>3. o = Head(plan'[r])
      BY <2>1 DEF o
    <3> QED BY <3>1, <3>2, <3>3 DEF Forgotten
  <2>4. \A q \in Request : q # r => UNCHANGED <<plan[q], step[q]>>
    BY <1>0, <1>9 DEF Load
  <2>5. stale' = stale \ {r}
    BY <1>9 DEF Load
  <2> QED BY <1>6, <2>1, <2>2, <2>3, <2>4, <2>5
<1>10. ASSUME NEW r \in Request, Unlink(r) \/ Reload(r)
       PROVE  AllKept(acked', file') /\ \A q \in Request \ stale' : Forgotten(q)'
  <2>1. UNCHANGED <<file, plan, stale, acked>> /\ step[r] \in {"unlink", "reload"}
    BY <1>10 DEF Unlink, Reload, history
  <2>2. \A q \in Request : q # r => UNCHANGED <<plan[q], step[q]>>
    BY <1>0, <1>10 DEF Unlink, Reload
  <2>3. r \notin stale => Forgotten(r)'
    BY <1>5, <2>1 DEF Forgotten
  <2> QED BY <1>5, <1>6, <2>1, <2>2, <2>3
<1>11. ASSUME NEW r \in Request, Replace(r)
       PROVE  AllKept(acked', file') /\ \A q \in Request \ stale' : Forgotten(q)'
  <2> DEFINE o == Head(plan[r])
  <2>1. /\ file' = copy[r] /\ step[r] = "replace" /\ step'[r] = "start" /\ r \notin stale
        /\ acked' = IF o.do \in {"create", "enter", "read"} THEN acked \cup {o} ELSE acked
    BY <1>0, <1>11 DEF Replace, Turns
  <2>2. o \in Op /\ o.do \in OnItems \cup OnBatches /\ file' = Changed(file, o) /\ Finds(file, o)
    BY <1>0, <1>5, <2>1, InHand DEF FreshInv, Fresh
  <2>3. /\ \A i \in Item : o \in {Do("delete", i), Do("clear", All)} => Do("create", i) \notin acked
        /\ \A b \in Batch : o = Do("unread", b) => Do("read", b) \notin acked
    BY <1>5, <2>1 DEF Forgotten
  <2>4. \A b \in Batch : o = Do("enter", b) => Do("read", b) \notin acked
    <3>1. ASSUME NEW b \in Batch, o = Do("enter", b)
          PROVE  Do("read", b) \notin acked
      <4>1. o.do = "enter" /\ o.on = b
        BY <3>1 DEF Do
      <4>2. Carries(r, b)
        BY <1>0, <2>1, <4>1, InHand
      <4> QED BY <4>2 DEF OnceInv
    <3> QED BY <3>1
  <2>5. \A d, x : Do(d, x).do = d /\ Do(d, x).on = x
    BY DEF Do
  <2>6. ASSUME NEW i \in Item, Do("create", i) \in acked'
        PROVE  file'.items[i] # Absent
    <3>1. CASE Do("create", i) \in acked
      <4>1. file.items[i] # Absent /\ o # Do("delete", i) /\ o # Do("clear", All)
        BY <1>5, <2>3, <3>1 DEF AllKept
      <4> HIDE DEF o
      <4> QED BY <1>0, <2>2, <4>1, ItemStays
    <3>2. CASE Do("create", i) \notin acked
      <4>1. o = Do("create", i)
        BY <2>1, <2>6, <3>2
      <4>2. o.do = "create" /\ o.on = i
        BY <2>5, <4>1
      <4>3. Changed(file, o).items[o.on] # Absent
        BY <1>0, <2>2, <4>2, ChangedItems DEF OnItems
      <4> QED BY <2>2, <4>2, <4>3
    <3> QED BY <3>1, <3>2
  <2>7. o.do \in OnItems => file'.batches = file.batches
    BY <1>0, <2>2, OtherPart
  <2>8. ASSUME NEW b \in Batch
        PROVE  /\ Do("enter", b) \in acked' => file'.batches[b].kept
               /\ Do("read", b) \in acked' => file'.batches[b].read
    <3>1. /\ Do("enter", b) \in acked => file.batches[b].kept
          /\ Do("read", b) \in acked => file.batches[b].read
      BY <1>5 DEF AllKept
    <3>2. /\ Do("enter", b) \in acked' => Do("enter", b) \in acked \/ o = Do("enter", b)
          /\ Do("read", b) \in acked' => Do("read", b) \in acked \/ o = Do("read", b)
      BY <2>1
    <3>3. CASE o.do \in OnItems
      <4>1. o # Do("enter", b) /\ o # Do("read", b)
        BY <2>5, <3>3 DEF OnItems
      <4> QED BY <2>7, <3>1, <3>2, <3>3, <4>1
    <3>4. CASE o.do \in OnBatches
      <4>1. /\ b # o.on => file'.batches[b] = file.batches[b]
            /\ file'.batches[o.on].kept
            /\ o.do \in {"summary", "notify"} => file'.batches[o.on].read = file.batches[o.on].read
            /\ o.do = "read" => file'.batches[o.on].read
        BY <1>0, <2>2, <3>4, ChangedBatches
      <4>2. CASE b # o.on
        <5>1. o # Do("enter", b) /\ o # Do("read", b)
          BY <2>5, <4>2
        <5> QED BY <3>1, <3>2, <4>1, <4>2, <5>1
      <4>3. CASE b = o.on
        <5>1. o = Do(o.do, b)
          BY <2>2, <4>3, Kinds
        <5>2. o.do \in {"enter", "summary", "notify", "read", "unread"}
          BY <3>4 DEF OnBatches
        <5>3. o.do \in {"enter", "unread"} => Do("read", b) \notin acked /\ o # Do("read", b)
          BY <2>3, <2>4, <2>5, <5>1
        <5>4. /\ file'.batches[b].kept
              /\ o.do \in {"summary", "notify"} => file'.batches[b].read = file.batches[b].read
              /\ o.do = "read" => file'.batches[b].read
          BY <4>1, <4>3
        <5>5. o # Do("read", b) \/ o.do = "read"
          BY <2>5
        <5> HIDE DEF o
        <5>6. CASE o.do = "read"
          BY <3>1, <3>2, <5>4, <5>6
        <5>7. CASE o.do \in {"enter", "unread"}
          BY <3>1, <3>2, <5>3, <5>4, <5>7
        <5>8. CASE o.do \in {"summary", "notify"}
          BY <3>1, <3>2, <5>4, <5>5, <5>8
        <5> QED BY <5>2, <5>6, <5>7, <5>8
      <4> QED BY <4>2, <4>3
    <3> QED BY <2>2, <3>3, <3>4
  <2>9. AllKept(acked', file')
    BY <2>6, <2>8 DEF AllKept
  <2>10. ASSUME NEW q \in Request \ stale'
         PROVE  Forgotten(q)'
    <3>1. CASE q = r
      BY <1>7, <2>1, <3>1
    <3>2. CASE q # r
      <4>1. q \notin stale /\ step[q] # "replace" /\ (step[q] \in {"unlink", "reload"} => Part(Head(plan[q])) # Part(o))
        BY <1>11, <2>10, <3>2 DEF Replace
      <4>2. UNCHANGED <<plan[q], step[q]>>
        BY <1>0, <1>11, <3>2 DEF Replace, Turns
      <4>3. /\ \A i \in Item : Part(Do("create", i)) = "items" /\ Part(Do("delete", i)) = "items"
            /\ \A b \in Batch : Part(Do("read", b)) = "batches" /\ Part(Do("unread", b)) = "batches"
            /\ Part(Do("clear", All)) = "items"
        BY <2>5 DEF Part, OnItems
      <4>4. acked' \subseteq acked \cup {o}
        BY <2>1
      <4>5. Forgotten(q)
        BY <1>5, <4>1
      <4> HIDE DEF o
      <4> QED BY <4>1, <4>2, <4>3, <4>4, <4>5 DEF Forgotten
    <3> QED BY <3>1, <3>2
  <2> QED BY <2>9, <2>10
<1>12. Elsewhere => AllKept(acked', file') /\ \A q \in Request \ stale' : Forgotten(q)'
  BY <1>5, <1>6 DEF Elsewhere
<1>13. Crash => AllKept(acked', file') /\ \A q \in Request \ stale' : Forgotten(q)'
  BY <1>5, <1>7 DEF Crash, history
<1> QED BY <1>8, <1>9, <1>10, <1>11, <1>12, <1>13, StepKinds

-----------------------------------------------------------------------------
(* Items have their screenshots, MediaInv and Illustrated.                  *)

\* The screenshot that is stored for an item stays until the item is in the file.
LEMMA MediaKept ==
  ASSUME TypeOK, PlanInv, StepInv, MediaInv, [Next]_vars
  PROVE  MediaInv'
<1>0. /\ plan \in [Request -> Seq(Op)] /\ step \in [Request -> {"start", "load", "unlink", "reload", "replace"}]
  BY DEF TypeOK, PlanInv
<1> SUFFICES ASSUME ~overlapped', NEW q \in Request, NEW i \in Item, Creating(q, i)'
             PROVE  i \in media'
  BY DEF MediaInv
<1>1. \A x \in Request, y \in Item : Creating(x, y) => y \in media
  BY StepKinds DEF Lasting, MediaInv
<1>2. step'[q] \in {"load", "reload", "replace"} /\ Head(plan'[q]) = Do("create", i)
  BY DEF Creating
<1>3. Do("create", i).do = "create" /\ Do("create", i).on = i
  BY DEF Do
<1>4. ASSUME NEW r \in Request, q # r, Quiet(r) \/ StoreMedia(r) \/ Load(r) \/ Unlink(r) \/ Reload(r) \/ Replace(r)
      PROVE  Creating(q, i) /\ i \in media
  <2>1. UNCHANGED <<plan[q], step[q]>>
    BY <1>0, <1>4 DEF Quiet, StoreMedia, Load, Unlink, Reload, Replace, Turns
  <2> QED BY <1>1, <1>2, <2>1 DEF Creating
<1>5. ASSUME NEW r \in Request, Quiet(r) \/ Replace(r)
      PROVE  i \in media'
  <2>1. step'[r] = "start" /\ media \subseteq media'
    BY <1>0, <1>5 DEF Quiet, Replace, Turns, world
  <2> QED BY <1>2, <1>4, <1>5, <2>1
<1>6. ASSUME NEW r \in Request, StoreMedia(r)
      PROVE  i \in media'
  <2>1. media' = media \cup {Head(plan[r]).on} /\ plan' = plan
    BY <1>6 DEF StoreMedia
  <2> QED BY <1>2, <1>3, <1>4, <1>6, <2>1
<1>7. ASSUME NEW r \in Request, Load(r)
      PROVE  i \in media'
  <2>1. media' = media /\ plan' = plan /\ CanLoad(r)
    BY <1>7 DEF Load, world
  <2>2. q = r => step[r] = "load"
    BY <1>2, <1>3, <2>1 DEF CanLoad, At
  <2> QED BY <1>1, <1>2, <1>4, <1>7, <2>1, <2>2 DEF Creating
<1>8. ASSUME NEW r \in Request, Unlink(r)
      PROVE  i \in media'
  <2>1. plan' = plan /\ Head(plan[r]).do \in {"delete", "clear"} /\ media' = media \ Deletes(copy[r], Head(plan[r]))
    BY <1>8 DEF Unlink, StepInv, Cleared
  <2>2. q # r
    BY <1>2, <1>3, <2>1
  <2>3. ~\E x \in Request, y \in Deletes(copy[r], Head(plan[r])) : Creating(x, y)
    BY <1>8 DEF Unlink
  <2> QED BY <1>4, <1>8, <2>1, <2>2, <2>3
<1>9. ASSUME NEW r \in Request, Reload(r)
      PROVE  i \in media'
  <2>1. media' = media /\ plan' = plan /\ step[r] = "reload"
    BY <1>9 DEF Reload, world
  <2> QED BY <1>1, <1>2, <1>4, <1>9, <2>1 DEF Creating
<1>10. Elsewhere => i \in media'
  BY <1>1, <1>2 DEF Elsewhere, Creating
<1>11. ~Crash
  BY <1>2 DEF Crash
<1> QED BY <1>5, <1>6, <1>7, <1>8, <1>9, <1>10, <1>11, StepKinds

\* An item of the file has its screenshot, or is being deleted.
LEMMA IllustratedKept ==
  ASSUME TypeOK, PlanInv, StepInv, FreshInv, MediaInv, Illustrated, [Next]_vars
  PROVE  Illustrated'
<1>0. /\ posted \subseteq Batch /\ sent \subseteq Item /\ file \in File /\ copy \in [Request -> File]
      /\ plan \in [Request -> Seq(Op)] /\ step \in [Request -> {"start", "load", "unlink", "reload", "replace"}]
  BY DEF TypeOK, PlanInv
<1> DEFINE Goes(q, i) == step[q] \in {"reload", "replace"} /\ Head(plan[q]) \in {Do("delete", i), Do("clear", All)}
<1> SUFFICES ASSUME ~overlapped', ~crashed', NEW i \in Item \ bared', file'.items[i] # Absent
             PROVE  i \in media' \/ \E q \in Request : Goes(q, i)'
  BY DEF Illustrated, Deleting
<1>1. ~overlapped /\ ~crashed /\ i \in Item \ bared
  BY StepKinds DEF Lasting
<1>2. file.items[i] # Absent => i \in media \/ \E q \in Request : Goes(q, i)
  BY <1>1 DEF Illustrated, Deleting
<1>3. ASSUME NEW r \in Request, Quiet(r)
      PROVE  i \in media' \/ \E q \in Request : Goes(q, i)'
  <2>1. UNCHANGED file /\ media \subseteq media' /\ \A q \in Request : q # r => UNCHANGED <<plan[q], step[q]>>
    BY <1>0, <1>3 DEF Quiet
  <2>2. ~Goes(r, i)
    BY <1>3 DEF Quiet, Deleting
  <2> QED BY <1>2, <2>1, <2>2
<1>4. ASSUME NEW r \in Request, StoreMedia(r) \/ Load(r)
      PROVE  i \in media' \/ \E q \in Request : Goes(q, i)'
  <2>1. UNCHANGED <<file, plan>> /\ media \subseteq media' /\ \A q \in Request : q # r => UNCHANGED step[q]
    BY <1>0, <1>4 DEF StoreMedia, Load, world
  <2>2. ~Goes(r, i)
    BY <1>4 DEF StoreMedia, Load, CanLoad, At
  <2> QED BY <1>2, <2>1, <2>2
<1>5. ASSUME NEW r \in Request, Unlink(r)
      PROVE  i \in media' \/ \E q \in Request : Goes(q, i)'
  <2> DEFINE o == Head(plan[r])
  <2>1. /\ UNCHANGED <<file, plan>> /\ media' = media \ Deletes(copy[r], o) /\ step[r] = "unlink" /\ step'[r] = "reload"
        /\ \A q \in Request : q # r => UNCHANGED step[q]
    BY <1>0, <1>5 DEF Unlink, Cleared
  <2>2. o \in Op /\ o.do \in {"delete", "clear"}
    BY <1>0, <2>1, InHand DEF StepInv
  <2>3. i \in Deletes(copy[r], o) => o \in {Do("delete", i), Do("clear", All)}
    BY <2>2, Kinds DEF Deletes
  <2>4. i \in Deletes(copy[r], o) => Goes(r, i)'
    BY <2>1, <2>3
  <2>5. \A q \in Request : Goes(q, i) => Goes(q, i)'
    BY <2>1
  <2> QED BY <1>2, <2>1, <2>4, <2>5
<1>6. ASSUME NEW r \in Request, Reload(r)
      PROVE  i \in media' \/ \E q \in Request : Goes(q, i)'
  <2>1. UNCHANGED <<file, plan, media>> /\ step[r] = "reload" /\ step'[r] = "replace"
        /\ \A q \in Request : q # r => UNCHANGED step[q]
    BY <1>0, <1>6 DEF Reload, world
  <2>2. \A q \in Request : Goes(q, i) => Goes(q, i)'
    BY <2>1
  <2> QED BY <1>2, <2>1, <2>2
<1>7. ASSUME NEW r \in Request, Replace(r)
      PROVE  i \in media' \/ \E q \in Request : Goes(q, i)'
  <2> DEFINE o == Head(plan[r])
  <2>1. /\ file' = copy[r] /\ step[r] = "replace" /\ r \notin stale /\ UNCHANGED media
        /\ \A q \in Request : q # r => UNCHANGED <<plan[q], step[q]>>
    BY <1>0, <1>7 DEF Replace, Turns, world
  <2>2. o \in Op /\ o.do \in OnItems \cup OnBatches /\ file' = Changed(file, o) /\ Finds(file, o)
    BY <1>0, <1>1, <2>1, InHand DEF FreshInv, Fresh
  <2>3. CASE file.items[i] # Absent
    <3>1. CASE o \in {Do("delete", i), Do("clear", All)}
      <4>1. o.do \in {"delete", "clear"} /\ (o.do = "delete" => o.on = i)
        BY <3>1 DEF Do
      <4>2. Changed(file, o).items[i] = Absent
        BY <1>0, <2>2, <4>1, ChangedItems DEF OnItems
      <4> QED BY <2>2, <4>2
    <3>2. CASE o \notin {Do("delete", i), Do("clear", All)}
      <4>1. ~Goes(r, i)
        BY <3>2
      <4> QED BY <1>2, <2>1, <2>3, <4>1
    <3> QED BY <3>1, <3>2
  <2>4. CASE file.items[i] = Absent
    <3>1. o = Do("create", i)
      <4>1. o.do \in OnItems
        BY <1>0, <2>2, <2>4, OtherPart
      <4>2. o.do # "clear" /\ o.on = i
        BY <1>0, <2>2, <2>4, <4>1, ChangedItems
      <4>3. o.do \notin {"mark", "transcribe", "delete"}
        BY <1>0, <2>2, <2>4, <4>1, <4>2, ChangedItems
      <4>4. o.do = "create"
        BY <4>1, <4>2, <4>3 DEF OnItems
      <4> QED BY <2>2, <4>2, <4>4, Kinds
    <3>2. Creating(r, i)
      BY <2>1, <3>1 DEF Creating
    <3> QED BY <1>1, <2>1, <3>2 DEF MediaInv
  <2> QED BY <2>3, <2>4
<1>8. Elsewhere => i \in media' \/ \E q \in Request : Goes(q, i)'
  BY <1>2 DEF Elsewhere
<1>9. ~Crash
  BY DEF Crash
<1> QED BY <1>3, <1>4, <1>5, <1>6, <1>7, <1>8, <1>9, StepKinds


-----------------------------------------------------------------------------
(* Batches are started as a whole, WholeInv.                                *)

\* What is left tells the position.
LEMMA Positions ==
  ASSUME NEW b \in Batch, NEW p
  PROVE  /\ \A k, l \in 1 .. Final(b) :
              p = SubSeq(StartBatch(b), k, Final(b)) /\ p = SubSeq(StartBatch(b), l, Final(b)) => k = l
         /\ \A k \in 1 .. Final(b), l \in Ends(b) :
              ~(p = SubSeq(StartBatch(b), k, Final(b)) /\ p = Rest(b, l))
         /\ p = <<>> => /\ \A k \in 1 .. Final(b) : p # SubSeq(StartBatch(b), k, Final(b))
                        /\ \A k \in Ends(b) : p # Rest(b, k)
         /\ StartBatch(b) = SubSeq(StartBatch(b), 1, Final(b)) /\ 1 \in 1 .. Final(b)
<1>1. Size(b) \in Nat \ {0} /\ Final(b) = 3 * Size(b) + 3
  BY Sizes DEF Final
<1>2. \A k \in 1 .. Final(b) : p = SubSeq(StartBatch(b), k, Final(b)) =>
        p # <<>> /\ Len(p) = Final(b) - k + 1 /\ Last(p) = Do("enter", b)
  BY InStart
<1>3. \A k \in Ends(b) : p = Rest(b, k) =>
        p # <<>> /\ Last(p) = Do("raise", b)
  BY InUndo
<1>4. Do("enter", b) # Do("raise", b)
  BY DEF Do
<1>5. StartBatch(b) = SubSeq(StartBatch(b), 1, Final(b))
  BY StartOps, SubSeqFull
<1>6. \A k, l \in 1 .. Final(b) :
        p = SubSeq(StartBatch(b), k, Final(b)) /\ p = SubSeq(StartBatch(b), l, Final(b)) => k = l
  BY <1>1, <1>2, <1>3
<1>7. \A k \in 1 .. Final(b), l \in Ends(b) :
        ~(p = SubSeq(StartBatch(b), k, Final(b)) /\ p = Rest(b, l))
  BY <1>2, <1>3, <1>4
<1>8. p = <<>> => /\ \A k \in 1 .. Final(b) : p # SubSeq(StartBatch(b), k, Final(b))
                  /\ \A k \in Ends(b) : p # Rest(b, k)
  BY <1>2, <1>3
<1>9. 1 \in 1 .. Final(b)
  BY <1>1
<1> QED BY <1>5, <1>6, <1>7, <1>8, <1>9

\* Steps at which who starts b, its items and its job stay.
LEMMA WholeFrame ==
  ASSUME NEW b \in Batch, Made(b), Unmade(b), Settled(b),
         \A q \in Request : /\ \A k \in 1 .. Final(b) : StartsAt(q, b, k)' <=> StartsAt(q, b, k)
                            /\ \A k \in Ends(b) : UndoesAt(q, b, k)' <=> UndoesAt(q, b, k),
         job'[b] = "none" <=> job[b] = "none",
         \A i \in Item : <<b, i>> \in stored' <=> <<b, i>> \in stored,
         file'.batches[b].kept <=> file.batches[b].kept,
         \A i \in ToSet(ItemsOf[b]) : /\ file'.items[i] = Absent <=> file.items[i] = Absent
                                      /\ file.items[i].status = "submitted" => file'.items[i].status = "submitted"
  PROVE  Made(b)' /\ Unmade(b)' /\ Settled(b)' /\ (First(b)' <=> First(b))
<1>1. \A j \in 1 .. Size(b) :
        /\ file'.items[ItemsOf[b][j]] = Absent <=> file.items[ItemsOf[b][j]] = Absent
        /\ file.items[ItemsOf[b][j]].status = "submitted" => file'.items[ItemsOf[b][j]].status = "submitted"
        /\ <<b, ItemsOf[b][j]>> \in stored' <=> <<b, ItemsOf[b][j]>> \in stored
  BY Sizes
<1>2. Made(b)'
  BY <1>1 DEF Made
<1>3. Unmade(b)'
  <2>1. \A k \in Ends(b) : Left(b, k) => Left(b, k)'
    BY <1>1 DEF Left
  <2> QED BY <2>1 DEF Unmade
<1>4. \A q \in Request : Carries(q, b)' <=> Carries(q, b)
  BY DEF Carries
<1>5. Settled(b)'
  <2>1. \A i \in ToSet(ItemsOf[b]) : i \in Item
    BY Members
  <2> QED BY <1>4, <2>1 DEF Settled
<1>6. First(b)' <=> First(b)
  BY DEF First
<1> QED BY <1>2, <1>3, <1>5, <1>6

\* How a request that starts b goes on without changing the file.
LEMMA QuietCarrier ==
  ASSUME TypeOK, PlanInv, StepInv, NEW r \in Request, NEW b \in posted \ broken', Quiet(r), Carries(r, b), Made(b), Unmade(b)
  PROVE  \/ \E k \in Size(b) + 1 .. 2 * Size(b) + 2 :
              /\ k \in 1 .. Final(b) /\ k + 1 \in 1 .. Final(b) /\ StartsAt(r, b, k)
              /\ plan'[r] = SubSeq(StartBatch(b), k + 1, Final(b))
         \/ \E k \in 1 .. 2 * Size(b) + 2 :
              /\ k \in 1 .. Final(b) /\ StartsAt(r, b, k) /\ job'[b] = "none"
              /\ plan'[r] = Undone(b, IF k <= Size(b) THEN k - 1 ELSE Size(b))
         \/ /\ \E k \in Ends(b) : UndoesAt(r, b, k)
            /\ \A k \in Ends(b) : UndoesAt(r, b, k) => Over(k)
            /\ plan'[r] = <<>> /\ job'[b] = job[b]
<1> DEFINE o == Head(plan[r])
           Goal ==
         \/ \E k \in Size(b) + 1 .. 2 * Size(b) + 2 :
              /\ k \in 1 .. Final(b) /\ k + 1 \in 1 .. Final(b) /\ StartsAt(r, b, k)
              /\ plan'[r] = SubSeq(StartBatch(b), k + 1, Final(b))
         \/ \E k \in 1 .. 2 * Size(b) + 2 :
              /\ k \in 1 .. Final(b) /\ StartsAt(r, b, k) /\ job'[b] = "none"
              /\ plan'[r] = Undone(b, IF k <= Size(b) THEN k - 1 ELSE Size(b))
         \/ /\ \E k \in Ends(b) : UndoesAt(r, b, k)
            /\ \A k \in Ends(b) : UndoesAt(r, b, k) => Over(k)
            /\ plan'[r] = <<>> /\ job'[b] = job[b]
<1>1. /\ Size(b) \in Nat \ {0} /\ Final(b) = 3 * Size(b) + 3 /\ b \in Batch
      /\ plan \in [Request -> Seq(Op)] /\ posted \subseteq Batch /\ sent \subseteq Item
  BY Sizes DEF Final, TypeOK, PlanInv
<1>2. \A k \in 1 .. Final(b) : StartsAt(r, b, k) =>
        /\ Tail(plan[r]) = IF k = Final(b) THEN <<>> ELSE SubSeq(StartBatch(b), k + 1, Final(b))
        /\ Undo(plan[r]) = Undone(b, Size(b)) /\ UndoStored(plan[r]) = Undone(b, k - 1) /\ plan[r] # <<>>
        /\ k <= 2 * Size(b) + 2 => job[b] = "none"
        /\ o.do = "create" => k \in 1 .. Size(b)
        /\ o.do \in {"create", "check", "transcribe", "submit", "mark", "enter"}
        /\ o.do = "check" => k = Size(b) + 1
        /\ o.do = "transcribe" => k \in Size(b) + 2 .. 2 * Size(b) + 1
        /\ o.do = "submit" => k = 2 * Size(b) + 2
  <2> SUFFICES ASSUME NEW k \in 1 .. Final(b), StartsAt(r, b, k)
               PROVE  /\ Tail(plan[r]) = IF k = Final(b) THEN <<>> ELSE SubSeq(StartBatch(b), k + 1, Final(b))
                      /\ Undo(plan[r]) = Undone(b, Size(b)) /\ UndoStored(plan[r]) = Undone(b, k - 1) /\ plan[r] # <<>>
                      /\ k <= 2 * Size(b) + 2 => job[b] = "none"
                      /\ o.do = "create" => k \in 1 .. Size(b)
                      /\ o.do \in {"create", "check", "transcribe", "submit", "mark", "enter"}
                      /\ o.do = "check" => k = Size(b) + 1
                      /\ o.do = "transcribe" => k \in Size(b) + 2 .. 2 * Size(b) + 1
                      /\ o.do = "submit" => k = 2 * Size(b) + 2
    OBVIOUS
  <2>1. /\ Tail(plan[r]) = IF k = Final(b) THEN <<>> ELSE SubSeq(StartBatch(b), k + 1, Final(b))
        /\ Undo(plan[r]) = Undone(b, Size(b)) /\ UndoStored(plan[r]) = Undone(b, k - 1) /\ plan[r] # <<>>
    BY <1>1, InStart DEF StartsAt
  <2>2. k <= 2 * Size(b) + 2 => job[b] = "none"
    BY <1>1 DEF PlanInv
  <2>3. /\ o.do \in {"create", "check", "transcribe", "submit", "mark", "enter"}
        /\ o.do = "create" => k \in 1 .. Size(b)
        /\ o.do = "check" => k = Size(b) + 1
        /\ o.do = "transcribe" => k \in Size(b) + 2 .. 2 * Size(b) + 1
        /\ o.do = "submit" => k = 2 * Size(b) + 2
    BY <1>1, StartKinds
  <2> QED BY <2>1, <2>2, <2>3
<1>3. \A k \in Ends(b) : UndoesAt(r, b, k) =>
        /\ plan[r] # <<>> /\ o.do \in {"delete", "raise"} /\ (o.do = "raise" => Over(k))
        /\ Over(k) => Tail(plan[r]) = <<>>
  BY <1>1, InUndo, UndoKinds DEF UndoesAt
<1>4. plan[r] # <<>> /\ o.do \in {"create", "check", "transcribe", "submit", "mark", "enter", "delete", "raise"}
  BY <1>2, <1>3 DEF Carries
<1>5. Finds(file, o)
  <2>1. ASSUME NEW k \in 1 .. Final(b), StartsAt(r, b, k), o.do \in {"mark", "transcribe"}
        PROVE  file.items[o.on] # Absent
    <3>1. \/ k \in Size(b) + 2 .. 2 * Size(b) + 1 /\ o.on = ItemsOf[b][k - Size(b) - 1]
          \/ k \in 2 * Size(b) + 3 .. 3 * Size(b) + 2 /\ o.on = ItemsOf[b][k - 2 * Size(b) - 2]
      BY <1>1, <2>1, StartKinds
    <3>2. \E j \in 1 .. Size(b) : j < k /\ o.on = ItemsOf[b][j]
      <4>1. CASE k \in Size(b) + 2 .. 2 * Size(b) + 1
        <5>1. k - Size(b) - 1 \in 1 .. Size(b) /\ k - Size(b) - 1 < k /\ ~(k \in 2 * Size(b) + 3 .. 3 * Size(b) + 2)
          BY <1>1, <4>1
        <5> QED BY <3>1, <5>1
      <4>2. CASE k \in 2 * Size(b) + 3 .. 3 * Size(b) + 2
        <5>1. k - 2 * Size(b) - 2 \in 1 .. Size(b) /\ k - 2 * Size(b) - 2 < k /\ ~(k \in Size(b) + 2 .. 2 * Size(b) + 1)
          BY <1>1, <4>2
        <5> QED BY <3>1, <5>1
      <4> QED BY <3>1, <4>1, <4>2
    <3> QED BY <2>1, <3>2 DEF Made
  <2>2. ASSUME NEW k \in Ends(b), UndoesAt(r, b, k), o.do = "delete"
        PROVE  file.items[o.on] # Absent
    <3>0. PICK l \in Ends(b) : UndoesAt(r, b, l) /\ Left(b, l)
      BY <2>2 DEF Unmade
    <3>1. ~Over(l) /\ o.on = ItemsOf[b][l[1]]
      BY <1>1, <2>2, <3>0, UndoKinds
    <3>2. l[1] \in 1 .. Size(b) /\ l[1] \in l[1] .. l[2]
      BY <1>1, <3>1, EndsAre
    <3> QED BY <3>0, <3>1, <3>2 DEF Left
  <2>3. \A k \in 1 .. Final(b) : StartsAt(r, b, k) => o.do # "delete"
    BY <1>2
  <2>4. \A k \in Ends(b) : UndoesAt(r, b, k) => o.do \notin {"mark", "transcribe"}
    BY <1>3
  <2>5. o.do \in {"mark", "transcribe", "delete"} => file.items[o.on] # Absent
    BY <2>1, <2>2, <2>3, <2>4 DEF Carries
  <2> QED BY <1>4, <2>5 DEF Finds, OnBatches
<1>6. ~LoadFails(r) /\ ~Ask(r) /\ ~Look(r) /\ ~Respond(r)
  BY <1>4, <1>5 DEF LoadFails, Ask, Look, Respond, At
<1>7. CASE Skip(r) \/ Attach(r)
  <2>1. plan'[r] = Tail(plan[r]) /\ UNCHANGED job
    BY <1>1, <1>7 DEF Skip, Attach, Turns, world
  <2>2. o.do \in {"transcribe", "raise", "check"}
    BY <1>4, <1>7 DEF Skip, Attach, At, Idle
  <2>3. ASSUME NEW k \in 1 .. Final(b), StartsAt(r, b, k)
        PROVE  Goal
    <3>1. k \in Size(b) + 1 .. 2 * Size(b) + 1 /\ k + 1 \in 1 .. Final(b) /\ k # Final(b)
      <4>1. k = Size(b) + 1 \/ k \in Size(b) + 2 .. 2 * Size(b) + 1
        BY <1>2, <2>2, <2>3
      <4> QED BY <1>1, <4>1
    <3>2. plan'[r] = SubSeq(StartBatch(b), k + 1, Final(b))
      BY <1>2, <2>1, <2>3, <3>1
    <3>3. k \in Size(b) + 1 .. 2 * Size(b) + 2
      BY <1>1, <3>1
    <3> QED BY <2>3, <3>1, <3>2, <3>3
  <2>4. ASSUME NEW k \in Ends(b), UndoesAt(r, b, k)
        PROVE  Goal
    <3>1. \A l \in Ends(b) : UndoesAt(r, b, l) => Over(l) /\ Tail(plan[r]) = <<>>
      BY <1>3, <2>2, <2>4
    <3> QED BY <2>1, <2>4, <3>1
  <2> QED BY <2>3, <2>4 DEF Carries
<1>8. CASE AttachFails(r) \/ SubmitFails(r)
  <2>1. plan'[r] = Undo(plan[r]) /\ UNCHANGED job
    BY <1>1, <1>8 DEF AttachFails, SubmitFails, Turns, world
  <2>2. o.do \in {"submit", "check"}
    BY <1>4, <1>8 DEF AttachFails, SubmitFails, At
  <2>3. PICK k \in 1 .. Final(b) : StartsAt(r, b, k)
    BY <1>3, <2>2 DEF Carries
  <2>4. k \in 1 .. 2 * Size(b) + 2 /\ k <= 2 * Size(b) + 2 /\ ~(k <= Size(b))
    BY <1>1, <1>2, <2>2, <2>3
  <2>5. plan'[r] = Undone(b, Size(b)) /\ job'[b] = "none"
    BY <1>2, <2>1, <2>3, <2>4
  <2> QED BY <2>3, <2>4, <2>5
<1>9. CASE Submit(r)
  <2>1. plan'[r] = Tail(plan[r])
    BY <1>1, <1>9 DEF Submit, Turns
  <2>2. o.do = "submit"
    BY <1>4, <1>9 DEF Submit, At
  <2>3. PICK k \in 1 .. Final(b) : StartsAt(r, b, k)
    BY <1>3, <2>2 DEF Carries
  <2>4. k \in Size(b) + 1 .. 2 * Size(b) + 2 /\ k + 1 \in 1 .. Final(b) /\ k # Final(b)
    BY <1>1, <1>2, <2>2, <2>3
  <2>5. plan'[r] = SubSeq(StartBatch(b), k + 1, Final(b))
    BY <1>2, <2>1, <2>3, <2>4
  <2> QED BY <2>3, <2>4, <2>5
<1>10. CASE StoreMediaFails(r)
  <2>0. b \in BatchOf(r)
    BY <1>1, LastTells DEF BatchOf
  <2>1. Turns(r, UndoStored(plan[r]))
    BY <1>10, <2>0 DEF StoreMediaFails
  <2>2. plan'[r] = UndoStored(plan[r]) /\ UNCHANGED job /\ o.do = "create"
    BY <1>1, <1>10, <2>1 DEF StoreMediaFails, Turns, At
  <2>3. PICK k \in 1 .. Final(b) : StartsAt(r, b, k)
    BY <1>3, <2>2 DEF Carries
  <2>4. k \in 1 .. 2 * Size(b) + 2 /\ k <= 2 * Size(b) + 2 /\ k <= Size(b)
    BY <1>1, <1>2, <2>2, <2>3
  <2>5. plan'[r] = Undone(b, k - 1) /\ job'[b] = "none"
    BY <1>2, <2>2, <2>3, <2>4
  <2> QED BY <2>3, <2>4, <2>5
<1>11. ~SaveFails(r) /\ ~SubmitRaises(r)
  <2>1. b \in BatchOf(r)
    BY <1>1, LastTells DEF BatchOf
  <2> QED BY <2>1 DEF SaveFails, SubmitRaises
<1> QED BY <1>6, <1>7, <1>8, <1>9, <1>10, <1>11 DEF Quiet


\* A request that goes on without changing the file leaves every batch whole.
LEMMA WholeQuiet ==
  ASSUME TypeOK, TypeOK', PlanInv, StepInv, BrokenInv, OnceInv, [Next]_vars, NEW r \in Request, Quiet(r),
         NEW b \in posted' \ broken', b \in posted => Whole(b)
  PROVE  Whole(b)'
<1>0. /\ posted \subseteq Batch /\ posted' \subseteq Batch /\ sent \subseteq Item /\ b \in Batch
      /\ plan \in [Request -> Seq(Op)] /\ step \in [Request -> {"start", "load", "unlink", "reload", "replace"}]
      /\ Size(b) \in Nat \ {0} /\ Final(b) = 3 * Size(b) + 3
  BY Sizes DEF TypeOK, PlanInv, Final
<1>1. /\ UNCHANGED <<file, stale, stored>> /\ step'[r] = "start"
      /\ \A q \in Request : q # r => UNCHANGED <<plan[q], step[q]>>
  BY <1>0 DEF Quiet
<1>2. \A q \in Request : q # r =>
        /\ \A k \in 1 .. Final(b) : StartsAt(q, b, k)' <=> StartsAt(q, b, k)
        /\ \A k \in Ends(b) : UndoesAt(q, b, k)' <=> UndoesAt(q, b, k)
        /\ Carries(q, b)' <=> Carries(q, b)
  BY <1>1 DEF StartsAt, UndoesAt, Carries
<1>3. Stranger(r, b)'
  BY <1>1 DEF Stranger
<1>4. CASE b \notin posted
  <2>1. plan'[r] = StartBatch(b)
    <3>1. posted' # posted
      BY <1>4
    <3>2. Ask(r)
      BY <3>1 DEF Quiet, LoadFails, Skip, Attach, AttachFails, Submit, SubmitFails, Look, Respond,
                     StoreMediaFails, SaveFails, SubmitRaises
    <3>3. PICK c \in Batch \ posted : Turns(r, StartBatch(c)) /\ posted' = posted \cup {c}
      BY <3>1, <3>2 DEF Ask
    <3>4. b = c
      BY <1>4, <3>3
    <3> QED BY <1>0, <3>3, <3>4 DEF Turns
  <2>2. \A q \in Request : ~Carries(q, b)
    BY <1>0, <1>4, Carrier
  <2>3. StartsAt(r, b, 1)'
    BY <1>0, <2>1, Positions DEF StartsAt
  <2>4. \A k \in 1 .. Final(b) : StartsAt(r, b, k)' => k = 1
    BY <1>0, <2>1, Positions DEF StartsAt
  <2>5. \A k \in Ends(b) : ~UndoesAt(r, b, k)'
    BY <1>0, <2>1, Positions DEF UndoesAt
  <2>6. \A q \in Request : q # r => /\ \A k \in 1 .. Final(b) : ~StartsAt(q, b, k)'
                                    /\ \A k \in Ends(b) : ~UndoesAt(q, b, k)'
    BY <1>2, <2>2 DEF Carries
  <2>9. First(b)' /\ Carries(r, b)'
    <3>1. First(b)'
      BY <1>1, <1>4 DEF First, BrokenInv
    <3> QED BY <1>0, <2>3, <3>1 DEF Carries
  <2>7. Made(b)'
    <3>1. \A j \in 1 .. Size(b) : ~(j < 1) /\ ~(j + 2 * Size(b) + 2 < 1)
      BY <1>0
    <3>2. \A j \in 1 .. Size(b) : ItemsOf[b][j] \in Item
      BY <1>0, Sizes
    <3> QED BY <2>4, <2>6, <2>9, <3>1, <3>2 DEF Made, First
  <2>8. Unmade(b)'
    BY <2>5, <2>6 DEF Unmade
  <2>10. Settled(b)'
    BY <2>9 DEF Settled
  <2>11. \A q \in Request : Stranger(q, b)'
    BY <2>9 DEF Stranger
  <2> QED BY <2>7, <2>8, <2>10, <2>11 DEF Whole
<1>5. CASE b \in posted /\ ~Carries(r, b)
  <2>1. ~Carries(r, b)'
    BY <1>5, PlanKept
  <2>2. /\ \A k \in 1 .. Final(b) : StartsAt(r, b, k)' <=> StartsAt(r, b, k)
        /\ \A k \in Ends(b) : UndoesAt(r, b, k)' <=> UndoesAt(r, b, k)
    BY <1>5, <2>1 DEF Carries
  <2>3. job'[b] = "none" <=> job[b] = "none"
    <3>1. Grows(r)
      BY PlanOf DEF Quiet
    <3> QED BY <1>0, <1>5, <3>1 DEF Grows
  <2>4. Made(b) /\ Unmade(b) /\ Settled(b) /\ \A q \in Request \ stale : Stranger(q, b)
    BY <1>5 DEF Whole
  <2>5. Made(b)' /\ Unmade(b)' /\ Settled(b)' /\ (First(b)' <=> First(b))
    BY <1>0, <1>1, <1>2, <2>2, <2>3, <2>4, WholeFrame
  <2>6. ASSUME NEW q \in Request \ stale, q # r
        PROVE  Stranger(q, b)'
    BY <1>1, <1>2, <2>4, <2>5, <2>6 DEF Stranger
  <2> QED BY <1>1, <1>3, <2>5, <2>6 DEF Whole
<1>6. CASE b \in posted /\ Carries(r, b)
  <2>1. Made(b) /\ Unmade(b) /\ \A q \in Request \ stale : Stranger(q, b)
    BY <1>6 DEF Whole
  <2>2. \A q \in Request : q # r => ~Carries(q, b)
    BY <1>0, <1>6 DEF PlanInv
  <2>3. \A q \in Request : q # r => /\ \A k \in 1 .. Final(b) : ~StartsAt(q, b, k)'
                                    /\ \A k \in Ends(b) : ~UndoesAt(q, b, k)'
                                    /\ ~Carries(q, b)'
    BY <1>2, <2>2 DEF Carries
  <2>4. \A q \in Request \ stale' : Stranger(q, b)'
    <3>1. ASSUME NEW q \in Request \ stale, q # r
          PROVE  Stranger(q, b)'
      BY <1>1, <1>2, <2>1, <3>1 DEF Stranger, First
    <3> QED BY <1>1, <1>3, <3>1
  <2>5. ASSUME NEW k \in Size(b) + 1 .. 2 * Size(b) + 2, k \in 1 .. Final(b), k + 1 \in 1 .. Final(b), StartsAt(r, b, k),
               plan'[r] = SubSeq(StartBatch(b), k + 1, Final(b))
        PROVE  Whole(b)'
    <3>1. StartsAt(r, b, k + 1)' /\ Carries(r, b)'
      BY <2>5 DEF StartsAt, Carries
    <3>2. \A l \in 1 .. Final(b) : StartsAt(r, b, l)' => l = k + 1
      BY <1>0, <2>5, Positions DEF StartsAt
    <3>3. \A l \in Ends(b) : ~UndoesAt(r, b, l)'
      BY <1>0, <2>5, Positions DEF UndoesAt
    <3>4. Made(b)'
      <4>1. \A j \in 1 .. Size(b) : ~(j + 2 * Size(b) + 2 < k + 1) /\ j < k + 1 /\ j < k
        BY <1>0, <2>5
      <4>2. \A j \in 1 .. Size(b) : file.items[ItemsOf[b][j]] # Absent /\ <<b, ItemsOf[b][j]>> \in stored
        BY <2>1, <2>5, <4>1 DEF Made
      <4> QED BY <1>1, <2>3, <3>2, <4>1, <4>2 DEF Made
    <3>5. Unmade(b)'
      BY <2>3, <3>3 DEF Unmade
    <3>6. Settled(b)'
      BY <3>1 DEF Settled
    <3> QED BY <2>4, <3>4, <3>5, <3>6 DEF Whole
  <2>6. ASSUME NEW k \in 1 .. 2 * Size(b) + 2, k \in 1 .. Final(b), StartsAt(r, b, k), job'[b] = "none",
               plan'[r] = Undone(b, IF k <= Size(b) THEN k - 1 ELSE Size(b))
        PROVE  Whole(b)'
    <3> DEFINE n == IF k <= Size(b) THEN k - 1 ELSE Size(b)
               e == <<1, n>>
    <3>1. n \in 0 .. Size(b) /\ n \in Nat
      BY <1>0
    <3>2. \A j \in 1 .. Size(b) : j \in 1 .. n <=> j < k
      BY <1>0
    <3>3. plan'[r] = Undone(b, n) /\ e[1] = 1 /\ e[2] = n
      BY <2>6
    <3> HIDE DEF n
    <3>4. plan'[r] = Rest(b, e) /\ e \in Ends(b)
      BY <1>0, <3>1, <3>3, WholeUndo
    <3> HIDE DEF e
    <3>5. UndoesAt(r, b, e)' /\ Carries(r, b)'
      BY <3>4 DEF UndoesAt, Carries
    <3>6. \A l \in 1 .. Final(b) : ~StartsAt(r, b, l)'
      BY <1>0, <3>4, Positions DEF StartsAt
    <3>7. Made(b)'
      BY <2>3, <3>6 DEF Made
    <3>8. Left(b, e)'
      <4>1. \A j \in 1 .. Size(b) : /\ <<b, ItemsOf[b][j]>> \in stored <=> j < k
                                    /\ j < k => file.items[ItemsOf[b][j]] # Absent
        BY <2>1, <2>6 DEF Made
      <4> QED BY <1>1, <2>6, <3>2, <3>3, <4>1 DEF Left
    <3>9. Unmade(b)'
      BY <2>3, <3>4, <3>5, <3>8 DEF Unmade
    <3>10. Settled(b)'
      BY <3>5 DEF Settled
    <3> QED BY <2>4, <3>7, <3>9, <3>10 DEF Whole
  <2>7. ASSUME \E k \in Ends(b) : UndoesAt(r, b, k), \A k \in Ends(b) : UndoesAt(r, b, k) => Over(k),
               plan'[r] = <<>>, job'[b] = job[b]
        PROVE  Whole(b)'
    <3>1. PICK k \in Ends(b) : Over(k) /\ Left(b, k)
      BY <2>1, <2>7 DEF Unmade
    <3>2. job[b] = "none" /\ \A i \in ToSet(ItemsOf[b]) : <<b, i>> \in stored => file.items[i] = Absent
      <4>1. k[2] \in Nat /\ k[1] = k[2] + 1
        BY <1>0, <3>1, EndsAre DEF Over
      <4>2. \A j \in 1 .. Size(b) : j \notin k[1] .. k[2]
        BY <1>0, <4>1
      <4>3. job[b] = "none" /\ \A j \in 1 .. Size(b) : <<b, ItemsOf[b][j]>> \in stored => file.items[ItemsOf[b][j]] = Absent
        BY <3>1, <4>2 DEF Left
      <4>4. ASSUME NEW i \in ToSet(ItemsOf[b]), <<b, i>> \in stored
            PROVE  file.items[i] = Absent
        <5>1. PICK j \in 1 .. Size(b) : i = ItemsOf[b][j]
          BY <1>0, Members
        <5> QED BY <4>3, <4>4, <5>1
      <4> QED BY <4>3, <4>4
    <3>3. ~file.batches[b].kept
      BY <1>0, <1>6 DEF OnceInv
    <3>4. /\ \A l \in Ends(b) : ~UndoesAt(r, b, l)'
          /\ \A l \in 1 .. Final(b) : ~StartsAt(r, b, l)'
      BY <1>0, <2>7, Positions DEF UndoesAt, StartsAt
    <3>5. Made(b)' /\ Unmade(b)'
      BY <2>3, <3>4 DEF Made, Unmade
    <3>6. Settled(b)'
      BY <1>1, <2>7, <3>2, <3>3 DEF Settled
    <3> QED BY <2>4, <3>5, <3>6 DEF Whole
  <2> QED BY <1>6, <2>1, <2>5, <2>6, <2>7, QuietCarrier
<1> QED BY <1>4, <1>5, <1>6

\* So does an operation that has not come to the file.
LEMMA WholeWork ==
  ASSUME TypeOK, PlanInv, StepInv, NEW r \in Request, StoreMedia(r) \/ Load(r) \/ Unlink(r) \/ Reload(r),
         NEW b \in posted', b \notin disturbed', Whole(b)
  PROVE  Whole(b)'
<1>0. /\ posted \subseteq Batch /\ sent \subseteq Item /\ b \in Batch /\ b \in posted
      /\ plan \in [Request -> Seq(Op)] /\ step \in [Request -> {"start", "load", "unlink", "reload", "replace"}]
  <2>1. posted' = posted
    BY DEF StoreMedia, Load, Unlink, Reload
  <2> QED BY <2>1 DEF TypeOK, PlanInv
<1>1. /\ UNCHANGED <<file, plan, job, stored>>
      /\ \A q \in Request : q # r => UNCHANGED step[q] /\ (q \notin stale' => q \notin stale)
  BY <1>0 DEF StoreMedia, Load, Unlink, Reload, world, history
<1>2. \A q \in Request : /\ \A k \in 1 .. Final(b) : StartsAt(q, b, k)' <=> StartsAt(q, b, k)
                         /\ \A k \in Ends(b) : UndoesAt(q, b, k)' <=> UndoesAt(q, b, k)
                         /\ Carries(q, b)' <=> Carries(q, b)
  BY <1>1 DEF StartsAt, UndoesAt, Carries
<1>3. Made(b) /\ Unmade(b) /\ Settled(b) /\ \A q \in Request \ stale : Stranger(q, b)
  BY DEF Whole
<1>4. Made(b)' /\ Unmade(b)' /\ Settled(b)' /\ (First(b)' <=> First(b))
  BY <1>0, <1>1, <1>2, <1>3, WholeFrame
<1>5. ASSUME NEW q \in Request \ stale', q # r
      PROVE  Stranger(q, b)'
  BY <1>1, <1>2, <1>3, <1>4, <1>5 DEF Stranger
<1>6. CASE StoreMedia(r)
  <2>1. step'[r] = "load"
    BY <1>0, <1>6 DEF StoreMedia
  <2>2. Stranger(r, b)'
    BY <2>1 DEF Stranger
  <2> QED BY <1>4, <1>5, <2>2 DEF Whole
<1>7. CASE Unlink(r) \/ Reload(r)
  <2>1. step[r] \in {"unlink", "reload"} /\ (r \notin stale' => r \notin stale)
    BY <1>7 DEF Unlink, Reload, history
  <2>2. r \notin stale' => Stranger(r, b)'
    BY <1>1, <1>2, <1>3, <1>4, <2>1 DEF Stranger
  <2> QED BY <1>4, <1>5, <2>2 DEF Whole
<1>8. CASE Load(r)
  <2> DEFINE o == Head(plan[r])
  <2>1. ~Carries(r, b) => Touches(file, o) \cap ToSet(ItemsOf[b]) = {}
    <3>1. plan[r] # <<>>
      BY <1>8 DEF Load, CanLoad, At
    <3>2. ~Carries(r, b) => Last(plan[r]) \notin {Do("enter", b), Do("raise", b)}
      BY <1>0, <3>1, Carrier
    <3>3. ~Carries(r, b) => b \in posted \ BatchOf(r)
      BY <1>0, <3>2 DEF BatchOf
    <3>4. disturbed' = disturbed \cup {c \in posted \ BatchOf(r) : Touches(file, o) \cap ToSet(ItemsOf[c]) # {}}
      BY <1>8 DEF Load
    <3> HIDE DEF o
    <3> QED BY <3>3, <3>4
  <2>2. ASSUME ~Carries(r, b), NEW i \in ToSet(ItemsOf[b])
        PROVE  o \notin {Do("create", i), Do("delete", i)} /\ (o = Do("clear", All) => file.items[i] = Absent)
    <3>1. i \notin Touches(file, o)
      BY <2>1, <2>2
    <3>2. i \in Item
      BY <1>0, <2>2, Members
    <3> QED BY <3>1, <3>2 DEF Touches, Deletes, Do
  <2>3. Stranger(r, b)'
    BY <1>1, <1>2, <2>2 DEF Stranger
  <2> QED BY <1>4, <1>5, <2>3 DEF Whole
<1> QED BY <1>6, <1>7, <1>8


\* What an operation does to an item of b that is not its own.
LEMMA Untouched ==
  ASSUME NEW f \in File, NEW o \in Op, o.do \in OnItems \cup OnBatches, o.do \in {"delete", "clear"} \/ Finds(f, o),
         NEW i \in Item, o \notin {Do("create", i), Do("delete", i)}, o = Do("clear", All) => f.items[i] = Absent
  PROVE  /\ Changed(f, o).items[i] = Absent <=> f.items[i] = Absent
         /\ f.items[i].status = "submitted" => Changed(f, o).items[i].status = "submitted"
<1>1. CASE o.do \in OnBatches
  BY <1>1, OtherPart DEF OnBatches
<1>2. CASE o.do = "clear"
  <2>1. o = Do("clear", All)
    BY <1>2, Kinds
  <2> QED BY <1>2, <2>1, ChangedItems DEF OnItems
<1>3. CASE o.do \in OnItems \ {"clear"} /\ i # o.on
  BY <1>3, ChangedItems
<1>4. CASE o.do \in OnItems \ {"clear"} /\ i = o.on
  <2>1. o.do \in {"mark", "transcribe"}
    BY <1>4, Kinds DEF OnItems
  <2> QED BY <1>4, <2>1, ChangedItems
<1> QED BY <1>1, <1>2, <1>3, <1>4 DEF OnItems

\* So does an operation that writes the file that it has loaded.
LEMMA WholeReplace ==
  ASSUME TypeOK, TypeOK', PlanInv, PlanInv', StepInv, OnceInv, FreshInv, NEW r \in Request, Replace(r), ~overlapped',
         \A q \in Request, c \in posted : Carries(q, c)' => Carries(q, c),
         NEW b \in posted, Distinct(b), Whole(b)
  PROVE  Whole(b)'
<1> DEFINE o == Head(plan[r])
<1>0. /\ posted \subseteq Batch /\ sent \subseteq Item /\ b \in Batch /\ file \in File /\ copy \in [Request -> File]
      /\ plan \in [Request -> Seq(Op)] /\ step \in [Request -> {"start", "load", "unlink", "reload", "replace"}]
      /\ Size(b) \in Nat \ {0} /\ Final(b) = 3 * Size(b) + 3
  BY Sizes DEF TypeOK, PlanInv, Final
<1>1. /\ file' = copy[r] /\ step[r] = "replace" /\ r \notin stale /\ ~overlapped /\ UNCHANGED job
      /\ plan'[r] = Tail(plan[r]) /\ step'[r] = "start"
      /\ \A q \in Request : q # r => UNCHANGED <<plan[q], step[q]>>
  BY <1>0 DEF Replace, Turns, world
<1>2. /\ o \in Op /\ o.do \in OnItems \cup OnBatches /\ file' = Changed(file, o) /\ Finds(file, o)
      /\ (o.do \in OnBatches => o.on \in Batch) /\ (o.do = "enter" /\ o.on = b => Carries(r, b))
  BY <1>0, <1>1, InHand DEF FreshInv, Fresh
<1>3. Made(b) /\ Unmade(b) /\ Settled(b) /\ \A q \in Request \ stale : Stranger(q, b)
  BY DEF Whole
<1>4. \A q \in Request : q # r =>
        /\ \A k \in 1 .. Final(b) : StartsAt(q, b, k)' <=> StartsAt(q, b, k)
        /\ \A k \in Ends(b) : UndoesAt(q, b, k)' <=> UndoesAt(q, b, k)
        /\ Carries(q, b)' <=> Carries(q, b)
  BY <1>1 DEF StartsAt, UndoesAt, Carries
<1>5. ASSUME NEW q \in Request \ stale', q # r, step[q] \in {"unlink", "reload", "replace"}
      PROVE  q \notin stale /\ Part(Head(plan[q])) # Part(o)
  BY <1>5 DEF Replace
<1>6. \A i \in Item : <<b, i>> \in stored' <=> <<b, i>> \in stored \/ (Carries(r, b) /\ o = Do("create", i))
  <2>1. b \in BatchOf(r) <=> Carries(r, b)
    <3>1. plan[r] # <<>>
      BY <1>1 DEF StepInv
    <3> QED BY <1>0, <3>1, Carrier, LastTells DEF BatchOf
  <2>2. stored' = IF o.do = "create" THEN stored \cup (BatchOf(r) \X {o.on}) ELSE stored
    BY DEF Replace
  <2>3. \A i \in Item : o = Do("create", i) <=> o.do = "create" /\ o.on = i
    BY <1>2, Kinds
  <2> HIDE DEF o
  <2> QED BY <2>1, <2>2, <2>3
<1>7. o.do # "create" => (First(b)' <=> First(b)) /\ (\A i \in Item : <<b, i>> \in stored' <=> <<b, i>> \in stored)
  <2>1. \A i \in Item : o = Do("create", i) => o.do = "create"
    BY DEF Do
  <2> QED BY <1>6, <2>1 DEF First
<1>8. Stranger(r, b)'
  BY <1>1 DEF Stranger
<1>9. ASSUME o.do \in OnItems
      PROVE  \A q \in Request \ stale' : Stranger(q, b)'
  <2>1. ASSUME NEW q \in Request \ stale', q # r
        PROVE  Stranger(q, b)'
    <3>1. SUFFICES ASSUME step[q] \in {"unlink", "reload", "replace"}
                   PROVE  Head(plan[q]).do \notin OnItems
      <4>1. ASSUME Head(plan[q]).do \notin OnItems
            PROVE  /\ Head(plan[q]) # Do("clear", All)
                   /\ \A i : Head(plan[q]) \notin {Do("create", i), Do("delete", i)}
        BY <4>1 DEF OnItems, Do
      <4> QED BY <1>1, <2>1, <4>1 DEF Stranger
    <3> QED BY <1>5, <1>9, <2>1, <3>1 DEF Part
  <2> QED BY <1>8, <2>1
<1>10. ASSUME o.do \in OnBatches
      PROVE  \A q \in Request \ stale' : Stranger(q, b)'
  <2>1. file'.items = file.items
    BY <1>0, <1>2, <1>10, ChangedBatches
  <2>2. ASSUME NEW q \in Request \ stale', q # r
        PROVE  Stranger(q, b)'
    <3>1. SUFFICES ASSUME step[q] \in {"unlink", "reload", "replace"}
                   PROVE  Stranger(q, b)'
      BY <1>1, <2>2 DEF Stranger
    <3>2. Stranger(q, b)
      BY <1>3, <1>5, <2>2, <3>1
    <3>3. First(b)' <=> First(b)
      BY <1>10, <1>7 DEF OnBatches
    <3> QED BY <1>1, <1>4, <2>1, <2>2, <3>1, <3>2, <3>3 DEF Stranger
  <2> QED BY <1>8, <2>2
<1>11. CASE ~Carries(r, b)
  <2>1. ~Carries(r, b)'
    BY <1>11
  <2>2. \A q \in Request : /\ \A k \in 1 .. Final(b) : StartsAt(q, b, k)' <=> StartsAt(q, b, k)
                           /\ \A k \in Ends(b) : UndoesAt(q, b, k)' <=> UndoesAt(q, b, k)
    BY <1>4, <1>11, <2>1 DEF Carries
  <2>3. file'.batches[b].kept <=> file.batches[b].kept
    <3>1. CASE o.do \in OnItems
      BY <1>0, <1>2, <3>1, ChangedItems
    <3>2. CASE o.do \in OnBatches /\ o.on # b
      BY <1>0, <1>2, <3>2, ChangedBatches
    <3>3. CASE o.do \in OnBatches /\ o.on = b
      BY <1>0, <1>2, <1>11, <3>3, ChangedBatches
    <3> QED BY <1>2, <3>1, <3>2, <3>3
  <2>4. ASSUME NEW i \in ToSet(ItemsOf[b]),
               o \notin {Do("create", i), Do("delete", i)}, o = Do("clear", All) => file.items[i] = Absent
        PROVE  /\ file'.items[i] = Absent <=> file.items[i] = Absent
               /\ file.items[i].status = "submitted" => file'.items[i].status = "submitted"
    <3>1. i \in Item
      BY <1>0, Members
    <3> QED BY <1>0, <1>2, <2>4, <3>1, Untouched
  <2>5. CASE \A i \in ToSet(ItemsOf[b]) :
               o \notin {Do("create", i), Do("delete", i)} /\ (o = Do("clear", All) => file.items[i] = Absent)
    <3>1. Made(b)' /\ Unmade(b)' /\ Settled(b)' /\ (First(b)' <=> First(b))
      <4>1. \A i \in ToSet(ItemsOf[b]) : /\ file'.items[i] = Absent <=> file.items[i] = Absent
                                         /\ file.items[i].status = "submitted" => file'.items[i].status = "submitted"
        BY <2>4, <2>5
      <4> QED BY <1>0, <1>1, <1>3, <1>11, <1>6, <2>2, <2>3, <4>1, WholeFrame
    <3> QED BY <1>2, <1>9, <1>10, <3>1 DEF Whole
  <2>6. CASE ~\A i \in ToSet(ItemsOf[b]) :
                o \notin {Do("create", i), Do("delete", i)} /\ (o = Do("clear", All) => file.items[i] = Absent)
    <3>1. First(b)
      BY <1>1, <1>3, <1>11, <2>6 DEF Stranger
    <3>2. \A j \in 1 .. Size(b) : <<b, ItemsOf[b][j]>> \notin stored /\ <<b, ItemsOf[b][j]>> \notin stored'
      BY <1>0, <1>11, <1>6, <3>1, Sizes DEF First
    <3>3. 1 \in 1 .. Size(b)
      BY <1>0
    <3>5. Made(b)'
      <4>1. ASSUME NEW q \in Request, NEW k \in 1 .. Final(b), StartsAt(q, b, k)
            PROVE  k = 1
        <5>1. ~(1 < k)
          BY <1>3, <3>2, <3>3, <4>1 DEF Made
        <5> QED BY <1>0, <5>1
      <4>2. \A q \in Request : \A k \in 1 .. Final(b) : StartsAt(q, b, k)' => k = 1
        BY <2>2, <4>1
      <4>3. \A j \in 1 .. Size(b) : ~(j < 1) /\ ~(j + 2 * Size(b) + 2 < 1)
        BY <1>0
      <4> QED BY <3>2, <4>2, <4>3 DEF Made
    <3>6. Unmade(b)'
      <4>1. ASSUME NEW k \in Ends(b), Left(b, k)
            PROVE  Left(b, k)'
        <5>1. \A j \in 1 .. Size(b) : j \notin k[1] .. k[2]
          BY <3>2, <4>1 DEF Left
        <5>2. job'[b] = "none"
          BY <1>1, <4>1 DEF Left
        <5> QED BY <3>2, <5>1, <5>2 DEF Left
      <4> QED BY <1>3, <2>2, <4>1 DEF Unmade
    <3>7. Settled(b)'
      <4>1. ASSUME \A q \in Request : ~Carries(q, b)
            PROVE  job[b] = "none" /\ ~file.batches[b].kept
        <5>1. ItemsOf[b][1] \in ToSet(ItemsOf[b])
          BY <1>0, <3>3, Sizes, Members
        <5> QED BY <1>3, <3>2, <3>3, <4>1, <5>1 DEF Settled
      <4>2. \A i \in ToSet(ItemsOf[b]) : <<b, i>> \notin stored'
        BY <1>0, <3>2, Members
      <4>3. \A q \in Request : Carries(q, b)' <=> Carries(q, b)
        BY <2>2 DEF Carries
      <4> QED BY <1>1, <2>3, <4>1, <4>2, <4>3 DEF Settled
    <3>8. o.do \in OnItems
      BY <2>6 DEF OnItems, Do
    <3> QED BY <1>9, <3>5, <3>6, <3>7, <3>8 DEF Whole
  <2> QED BY <2>5, <2>6
<1>12. CASE Carries(r, b)
  <2>1. \A q \in Request : q # r => /\ \A k \in 1 .. Final(b) : ~StartsAt(q, b, k)'
                                    /\ \A k \in Ends(b) : ~UndoesAt(q, b, k)'
                                    /\ ~Carries(q, b)' /\ ~Carries(q, b)
    <3>1. \A q \in Request : q # r => ~Carries(q, b)
      BY <1>0, <1>12 DEF PlanInv
    <3> QED BY <1>4, <3>1 DEF Carries
  <2>2. ASSUME NEW k \in 1 .. Final(b), StartsAt(r, b, k)
        PROVE  Whole(b)'
    <3>1. /\ o.do = "create" => k <= Size(b) /\ o.on = ItemsOf[b][k]
          /\ o.do = "transcribe" => k \in Size(b) + 2 .. 2 * Size(b) + 1
          /\ o.do = "mark" => k \in 2 * Size(b) + 3 .. 3 * Size(b) + 2 /\ o.on = ItemsOf[b][k - 2 * Size(b) - 2]
          /\ o.do = "enter" => k = Final(b) /\ o.on = b
      BY <1>0, <2>2, StartKinds
    <3>2. o.do \in {"create", "transcribe", "mark", "enter"}
      <4>1. o.do \in {"create", "check", "transcribe", "submit", "mark", "enter"}
        BY <1>0, <2>2, StartKinds
      <4> QED BY <1>2, <4>1 DEF OnItems, OnBatches
    <3>3. Tail(plan[r]) = IF k = Final(b) THEN <<>> ELSE SubSeq(StartBatch(b), k + 1, Final(b))
      BY <1>0, <2>2, InStart DEF StartsAt
    <3>4. \A j \in 1 .. Size(b) : /\ <<b, ItemsOf[b][j]>> \in stored <=> j < k
                                  /\ j < k => file.items[ItemsOf[b][j]] # Absent
                                  /\ j + 2 * Size(b) + 2 < k => file.items[ItemsOf[b][j]].status = "submitted"
      BY <1>3, <2>2 DEF Made
    <3>5. CASE o.do # "enter"
      <4>1. o.do \in OnItems /\ o.do \in {"create", "transcribe", "mark"}
        BY <3>2, <3>5 DEF OnItems
      <4>2. k \in 1 .. 3 * Size(b) + 2 /\ k # Final(b) /\ k + 1 \in 1 .. Final(b)
        BY <1>0, <3>1, <4>1
      <4>3. StartsAt(r, b, k + 1)' /\ Carries(r, b)'
        BY <1>1, <3>3, <4>2 DEF StartsAt, Carries
      <4>4. /\ \A l \in 1 .. Final(b) : StartsAt(r, b, l)' => l = k + 1
            /\ \A l \in Ends(b) : ~UndoesAt(r, b, l)'
        <5>1. plan'[r] = SubSeq(StartBatch(b), k + 1, Final(b)) /\ b \in Batch
          BY <1>0, <1>1, <3>3, <4>2
        <5> QED BY <4>2, <5>1, Positions DEF StartsAt, UndoesAt
      <4>5. ASSUME NEW j \in 1 .. Size(b)
            PROVE  /\ j < k + 1 => file'.items[ItemsOf[b][j]] # Absent
                   /\ j + 2 * Size(b) + 2 < k + 1 => file'.items[ItemsOf[b][j]].status = "submitted"
        <5> DEFINE i == ItemsOf[b][j]
        <5>1. i \in Item
          BY <1>0, Sizes
        <5> HIDE DEF i
        <5>2. /\ i # o.on => file'.items[i] = file.items[i]
              /\ i = o.on => file'.items[i] # Absent
              /\ i = o.on /\ o.do = "mark" => file'.items[i].status = "submitted"
              /\ i = o.on /\ o.do = "transcribe" => file'.items[i].status = file.items[i].status
          <6>1. /\ \A x \in Item : x # o.on /\ o.do # "clear" => file'.items[x] = file.items[x]
                /\ o.do = "create" => file'.items[o.on] # Absent
                /\ o.do = "mark" => file'.items[o.on] # Absent /\ file'.items[o.on].status = "submitted"
                /\ o.do = "transcribe" => file'.items[o.on] # Absent /\ file'.items[o.on].status = file.items[o.on].status
            BY <1>0, <1>2, <4>1, ChangedItems
          <6> QED BY <4>1, <5>1, <6>1
        <5>3. /\ j < k => file.items[i] # Absent
              /\ j + 2 * Size(b) + 2 < k => file.items[i].status = "submitted"
          BY <3>4 DEF i
        <5>4. CASE o.do = "create"
          <6>1. /\ k <= Size(b) /\ ~(j + 2 * Size(b) + 2 < k + 1)
                /\ j < k + 1 => j < k \/ j = k
            BY <1>0, <3>1, <5>4
          <6>2. j = k => i = o.on
            BY <3>1, <5>4 DEF i
          <6> QED BY <5>2, <5>3, <6>1, <6>2 DEF i
        <5>5. CASE o.do = "transcribe"
          <6>1. j < k /\ ~(j + 2 * Size(b) + 2 < k + 1)
            BY <1>0, <3>1, <5>5
          <6> QED BY <5>2, <5>3, <6>1 DEF i
        <5>6. CASE o.do = "mark"
          <6>1. j < k /\ (j + 2 * Size(b) + 2 < k + 1 => j + 2 * Size(b) + 2 < k \/ j = k - 2 * Size(b) - 2)
            BY <1>0, <3>1, <5>6
          <6>2. j = k - 2 * Size(b) - 2 => i = o.on
            BY <3>1, <5>6 DEF i
          <6> QED BY <5>2, <5>3, <5>6, <6>1, <6>2 DEF i
        <5> QED BY <4>1, <5>4, <5>5, <5>6
      <4>9. ASSUME NEW j \in 1 .. Size(b)
            PROVE  <<b, ItemsOf[b][j]>> \in stored' <=> j < k + 1
        <5>1. ItemsOf[b][j] \in Item /\ DOMAIN ItemsOf[b] = 1 .. Size(b)
          BY <1>0, Sizes
        <5>2. <<b, ItemsOf[b][j]>> \in stored' <=> j < k \/ o = Do("create", ItemsOf[b][j])
          BY <1>12, <1>6, <3>4, <5>1
        <5>3. CASE o.do = "create"
          <6>1. k \in 1 .. Size(b) /\ o.on = ItemsOf[b][k]
            BY <1>0, <3>1, <5>3
          <6>2. o = Do("create", ItemsOf[b][j]) <=> ItemsOf[b][j] = ItemsOf[b][k]
            BY <1>2, <5>1, <5>3, <6>1, Kinds
          <6>3. ItemsOf[b][j] = ItemsOf[b][k] <=> j = k
            BY <5>1, <6>1 DEF Distinct
          <6>4. j < k + 1 <=> j < k \/ j = k
            BY <1>0
          <6> QED BY <5>2, <6>2, <6>3, <6>4
        <5>4. CASE o.do # "create"
          <6>1. o # Do("create", ItemsOf[b][j])
            BY <5>4 DEF Do
          <6>2. j < k
            <7>1. o.do = "transcribe" \/ o.do = "mark"
              BY <4>1, <5>4
            <7>2. k > Size(b)
              BY <1>0, <3>1, <7>1
            <7> QED BY <1>0, <7>2
          <6>3. j < k + 1
            BY <1>0, <6>2
          <6> QED BY <5>2, <6>1, <6>2, <6>3
        <5> QED BY <5>3, <5>4
      <4>6. Made(b)'
        BY <2>1, <4>4, <4>5, <4>9 DEF Made
      <4>7. Unmade(b)'
        BY <2>1, <4>4 DEF Unmade
      <4>8. Settled(b)'
        BY <4>3 DEF Settled
      <4> QED BY <1>9, <4>1, <4>6, <4>7, <4>8 DEF Whole
    <3>6. CASE o.do = "enter"
      <4>1. k = Final(b) /\ o.on = b /\ plan'[r] = <<>> /\ o.do \in OnBatches
        BY <1>1, <3>1, <3>3, <3>6 DEF OnBatches
      <4>2. /\ \A l \in 1 .. Final(b) : ~StartsAt(r, b, l)'
            /\ \A l \in Ends(b) : ~UndoesAt(r, b, l)'
        <5>1. b \in Batch
          BY <1>0
        <5>2. /\ \A l \in 1 .. Final(b) : SubSeq(StartBatch(b), l, Final(b)) # <<>>
              /\ \A l \in Ends(b) : Rest(b, l) # <<>>
          BY <5>1, InStart, InUndo
        <5> QED BY <4>1, <5>2 DEF StartsAt, UndoesAt
      <4>3. Made(b)' /\ Unmade(b)'
        BY <2>1, <4>2 DEF Made, Unmade
      <4>4. Settled(b)'
        <5>1. job[b] # "none"
          BY <1>0, <2>2, <4>1 DEF PlanInv
        <5>2. file'.items = file.items /\ file'.batches[b].kept
          BY <1>0, <1>2, <4>1, ChangedBatches
        <5>3. ASSUME NEW i \in ToSet(ItemsOf[b])
              PROVE  <<b, i>> \in stored' /\ file.items[i].status = "submitted"
          <6>1. PICK j \in 1 .. Size(b) : i = ItemsOf[b][j]
            BY <1>0, Members
          <6>2. j + 2 * Size(b) + 2 < k /\ j < k
            BY <1>0, <4>1
          <6>3. i \in Item /\ o.do # "create"
            BY <1>0, <3>6, <5>3, Members
          <6> QED BY <1>7, <3>4, <6>1, <6>2, <6>3
        <5> QED BY <1>1, <5>1, <5>2, <5>3 DEF Settled
      <4> QED BY <1>10, <4>1, <4>3, <4>4 DEF Whole
    <3> QED BY <3>5, <3>6
  <2>3. ASSUME \E k \in Ends(b) : UndoesAt(r, b, k)
        PROVE  Whole(b)'
    <3>0. PICK k \in Ends(b) : UndoesAt(r, b, k) /\ Left(b, k)
      BY <1>3, <2>3 DEF Unmade
    <3>1. o.do = "delete" /\ ~Over(k) /\ o.on = ItemsOf[b][k[1]]
      <4>1. /\ o.do \in {"delete", "raise"} /\ (o.do = "delete" <=> ~Over(k))
            /\ o.do = "delete" => o.on = ItemsOf[b][k[1]]
        BY <1>0, <3>0, UndoKinds
      <4>2. o.do = "delete"
        BY <1>2, <4>1 DEF OnItems, OnBatches
      <4> QED BY <4>1, <4>2
    <3>2. /\ o.do \in OnItems /\ After(k) \in Ends(b) /\ k[1] \in 1 .. Size(b) /\ k[2] \in 0 .. Size(b) /\ k[1] <= k[2]
          /\ After(k)[1] = k[1] + 1 /\ After(k)[2] = k[2]
      BY <1>0, <3>1, EndsAre DEF OnItems, After
    <3>3. plan'[r] = Rest(b, After(k))
      BY <1>0, <1>1, <3>0, <3>1, InUndo DEF UndoesAt
    <3>4. UndoesAt(r, b, After(k))' /\ Carries(r, b)'
      BY <3>2, <3>3 DEF Carries, UndoesAt
    <3>5. \A l \in 1 .. Final(b) : ~StartsAt(r, b, l)'
      <4>1. b \in Batch
        BY <1>0
      <4>2. ASSUME NEW p, p = Rest(b, After(k))
            PROVE  \A l \in 1 .. Final(b) : p # SubSeq(StartBatch(b), l, Final(b))
        BY <3>2, <4>1, <4>2, Positions
      <4> QED BY <3>3, <4>2 DEF StartsAt
    <3>6. \A j \in 1 .. Size(b) :
            IF j \in k[1] .. k[2] THEN file.items[ItemsOf[b][j]] # Absent /\ <<b, ItemsOf[b][j]>> \in stored
            ELSE <<b, ItemsOf[b][j]>> \in stored => file.items[ItemsOf[b][j]] = Absent
      BY <3>0 DEF Left
    <3>7. ASSUME NEW j \in 1 .. Size(b)
          PROVE  IF j \in k[1] + 1 .. k[2] THEN file'.items[ItemsOf[b][j]] # Absent /\ <<b, ItemsOf[b][j]>> \in stored'
                 ELSE <<b, ItemsOf[b][j]>> \in stored' => file'.items[ItemsOf[b][j]] = Absent
      <4>1. ItemsOf[b][j] \in Item /\ DOMAIN ItemsOf[b] = 1 .. Size(b)
        BY <1>0, Sizes
      <4>2. CASE j = k[1]
        <5>1. file'.items[o.on] = Absent
          BY <1>0, <1>2, <3>1, <3>2, ChangedItems
        <5>2. j \notin k[1] + 1 .. k[2]
          BY <3>2, <4>2
        <5> QED BY <3>1, <4>2, <5>1, <5>2
      <4>3. CASE j # k[1]
        <5>1. ItemsOf[b][j] # o.on
          BY <3>1, <3>2, <4>1, <4>3 DEF Distinct
        <5>2. file'.items[ItemsOf[b][j]] = file.items[ItemsOf[b][j]]
          BY <1>0, <1>2, <3>1, <3>2, <4>1, <5>1, ChangedItems
        <5>3. j \in k[1] + 1 .. k[2] <=> j \in k[1] .. k[2]
          BY <1>0, <3>2, <4>3
        <5>4. <<b, ItemsOf[b][j]>> \in stored' <=> <<b, ItemsOf[b][j]>> \in stored
          BY <1>7, <3>1, <4>1
        <5> QED BY <3>6, <5>2, <5>3, <5>4
      <4> QED BY <4>2, <4>3
    <3>8. Left(b, After(k))'
      <4>1. job'[b] = "none"
        BY <1>1, <3>0 DEF Left
      <4> QED BY <3>2, <3>7, <4>1 DEF Left
    <3>9. Unmade(b)'
      BY <2>1, <3>2, <3>4, <3>8 DEF Unmade
    <3>10. Made(b)' /\ Settled(b)'
      BY <2>1, <3>4, <3>5 DEF Made, Settled
    <3> QED BY <1>9, <3>2, <3>9, <3>10 DEF Whole
  <2> QED BY <1>12, <2>2, <2>3 DEF Carries
<1> QED BY <1>11, <1>12

\* The invariant is kept.
LEMMA WholeKept ==
  ASSUME TypeOK, TypeOK', PlanInv, StepInv, BrokenInv, OnceInv, FreshInv, WholeInv, [Next]_vars
  PROVE  WholeInv'
<1> SUFFICES ASSUME ~overlapped', ~crashed', NEW b \in posted' \ broken', b \notin disturbed', Distinct(b)
             PROVE  Whole(b)'
  BY DEF WholeInv, Distinct
<1>0. /\ posted \subseteq Batch /\ posted' \subseteq Batch /\ b \in Batch
      /\ plan \in [Request -> Seq(Op)] /\ step \in [Request -> {"start", "load", "unlink", "reload", "replace"}]
  BY DEF TypeOK, PlanInv
<1>1. b \notin disturbed /\ (b \in posted => Whole(b))
  BY StepKinds DEF Lasting, WholeInv
<1>2. PlanInv' /\ \A q \in Request, c \in posted : Carries(q, c)' => Carries(q, c)
  BY PlanKept
<1>3. ASSUME NEW r \in Request, Quiet(r)
      PROVE  Whole(b)'
  BY <1>1, <1>3, WholeQuiet
<1>4. ASSUME NEW r \in Request, StoreMedia(r) \/ Load(r) \/ Unlink(r) \/ Reload(r)
      PROVE  Whole(b)'
  <2>1. posted' = posted
    BY <1>4 DEF StoreMedia, Load, Unlink, Reload
  <2> QED BY <1>1, <1>4, <2>1, WholeWork
<1>5. ASSUME NEW r \in Request, Replace(r)
      PROVE  Whole(b)'
  <2>1. posted' = posted
    BY <1>5 DEF Replace
  <2> QED BY <1>1, <1>2, <1>5, <2>1, WholeReplace
<1>6. CASE Elsewhere
  <2>1. /\ UNCHANGED <<file, stale, stored, plan, step, posted>> /\ Whole(b)
        /\ job'[b] = "none" <=> job[b] = "none"
    BY <1>0, <1>1, <1>6, StepKinds DEF Elsewhere, Lasting
  <2>2. \A q \in Request : /\ \A k \in 1 .. Final(b) : StartsAt(q, b, k)' <=> StartsAt(q, b, k)
                           /\ \A k \in Ends(b) : UndoesAt(q, b, k)' <=> UndoesAt(q, b, k)
                           /\ Carries(q, b)' <=> Carries(q, b)
    BY <2>1 DEF StartsAt, UndoesAt, Carries
  <2>3. Made(b)' /\ Unmade(b)' /\ Settled(b)' /\ (First(b)' <=> First(b))
    BY <1>0, <2>1, <2>2, WholeFrame DEF Whole
  <2>4. ASSUME NEW q \in Request \ stale'
        PROVE  Stranger(q, b)'
    BY <2>1, <2>2, <2>3, <2>4 DEF Whole, Stranger
  <2> QED BY <2>3, <2>4 DEF Whole
<1>7. ~Crash
  BY DEF Crash
<1> QED BY <1>3, <1>4, <1>5, <1>6, <1>7, StepKinds


-----------------------------------------------------------------------------
(* The invariant, and what follows from it.                                 *)

\* At first there is nothing.
LEMMA AtFirst == Init => FeedbackInv
<1> SUFFICES ASSUME Init PROVE FeedbackInv
  OBVIOUS
<1>1. file \in File
  BY Rows DEF Init, File
<1>2. TypeOK
  <2>1. NoBatch \in BatchRow /\ 0 \in 0 .. MaxRequests
    BY Rows, FeedbackAssumption
  <2> QED BY <1>1, <2>1 DEF Init, TypeOK
<1>3. \A r \in Request, b \in Batch : /\ \A k \in 1 .. Final(b) : ~StartsAt(r, b, k)
                                      /\ \A k \in Ends(b) : ~UndoesAt(r, b, k)
                                      /\ ~Carries(r, b)
  <2>1. \A b \in Batch : /\ \A k \in 1 .. Final(b) : SubSeq(StartBatch(b), k, Final(b)) # <<>>
                         /\ \A k \in Ends(b) : Rest(b, k) # <<>>
    BY InStart, InUndo
  <2> QED BY <2>1 DEF Init, StartsAt, UndoesAt, Carries
<1>4. PlanInv
  <2>1. \A r \in Request : Short(plan[r])
    BY DEF Init, Short, ShortOf
  <2> QED BY <1>3, <2>1 DEF Init, PlanInv
<1>5. StepInv
  BY DEF Init, StepInv
<1>6. TruthInv
  <2>1. Truthful(file)
    BY DEF Init, Truthful, TrueOf, Absent, NoBatch
  <2> QED BY <2>1 DEF Init, TruthInv
<1>7. BrokenInv /\ OnceInv
  BY DEF Init, BrokenInv, OnceInv, NoBatch
<1>8. FreshInv /\ KeptInv /\ MediaInv /\ Illustrated /\ WholeInv
  <2>1. FreshInv /\ MediaInv
    BY DEF Init, FreshInv, Fresh, MediaInv, Creating
  <2>2. KeptInv
    BY DEF Init, KeptInv, AcceptedStays, Forgotten
  <2>3. Illustrated
    BY DEF Init, Illustrated
  <2>4. WholeInv
    BY DEF Init, WholeInv
  <2> QED BY <2>1, <2>2, <2>3, <2>4
<1> QED BY <1>2, <1>4, <1>5, <1>6, <1>7, <1>8 DEF FeedbackInv

\* Every step keeps the invariant.
LEMMA Preserved == FeedbackInv /\ [Next]_vars => FeedbackInv'
<1> SUFFICES ASSUME FeedbackInv, [Next]_vars PROVE FeedbackInv'
  OBVIOUS
<1>1. /\ TypeOK /\ PlanInv /\ StepInv /\ TruthInv /\ BrokenInv /\ OnceInv
      /\ FreshInv /\ KeptInv /\ MediaInv /\ Illustrated /\ WholeInv
  BY DEF FeedbackInv
<1>2. TypeOK'
  BY <1>1, TypeKept
<1>3. PlanInv' /\ StepInv'
  BY <1>1, <1>2, PlanKept, StepKept
<1>4. TruthInv'
  BY <1>1, TruthKept
<1>5. BrokenInv' /\ OnceInv'
  BY <1>1, <1>2, BrokenKept, OnceKept
<1>6. FreshInv'
  BY <1>1, FreshKept
<1>7. KeptInv'
  BY <1>1, KeptKept
<1>8. MediaInv'
  BY <1>1, MediaKept
<1>9. Illustrated'
  BY <1>1, IllustratedKept
<1>10. WholeInv'
  BY <1>1, <1>2, WholeKept
<1> QED BY <1>2, <1>3, <1>4, <1>5, <1>6, <1>7, <1>8, <1>9, <1>10 DEF FeedbackInv

\* The invariant holds in every state.
THEOREM FeedbackHolds == Spec => []FeedbackInv
  BY AtFirst, Preserved, PTL DEF Spec

\* Every variable has its type: no operation writes a part of an entry, or what
\* was never in the file.
THEOREM WellTyped == Spec => []TypeOK
<1>1. FeedbackInv => TypeOK
  BY DEF FeedbackInv
<1> QED BY <1>1, FeedbackHolds, PTL

\* However requests write over each other: a submitted item and a recorded batch were
\* given to an agent, a summary says that a job is over, what is read was notified.
THEOREM FileIsTrue == Spec => []FileTruthful
<1>1. FeedbackInv => FileTruthful
  BY DEF FeedbackInv, TruthInv, Truthful, TrueOf, FileTruthful
<1> QED BY <1>1, FeedbackHolds, PTL

\* What was acknowledged stays until somebody deletes it, as long as no operation
\* replaced what another had written since it was loaded.
THEOREM AcknowledgedStays == Spec => []Kept
<1>1. FeedbackInv => Kept
  BY DEF FeedbackInv, KeptInv, Kept
<1> QED BY <1>1, FeedbackHolds, PTL

\* Then an item of the file has its screenshot, while the backend runs, unless an
\* error ended its deletion.
THEOREM ScreenshotsStay == Spec => []Illustrated
<1>1. FeedbackInv => Illustrated
  BY DEF FeedbackInv
<1> QED BY <1>1, FeedbackHolds, PTL

\* Then a batch that names no item twice, and whose items nobody else creates or
\* deletes, is recorded with all its items submitted, or has left nothing that it stored,
\* unless an error of the disk, or after the job was started, has ended it.
THEOREM BatchesWhole == Spec => []BatchWhole
<1>1. FeedbackInv => BatchWhole
  <2> SUFFICES ASSUME FeedbackInv, NEW b \in posted \ disturbed, Distinct(b), ~overlapped, ~crashed, ~Starting(b)
               PROVE  IF file.batches[b].kept
                      THEN job[b] # "none" /\ \A i \in ToSet(ItemsOf[b]) : file.items[i].status = "submitted"
                      ELSE \/ b \in broken
                           \/ job[b] = "none" /\ \A i \in ToSet(ItemsOf[b]) : <<b, i>> \in stored => file.items[i] = Absent
    BY DEF BatchWhole
  <2>1. b \in Batch
    BY DEF FeedbackInv, TypeOK
  <2>2. CASE b \in broken
    BY <2>1, <2>2 DEF FeedbackInv, OnceInv
  <2>3. CASE b \notin broken
    <3>1. Settled(b)
      BY <2>3 DEF FeedbackInv, WholeInv, Whole
    <3>2. \A r \in Request : ~Carries(r, b)
      BY <2>1, LastTells DEF Starting, BatchOf
    <3> QED BY <3>1, <3>2 DEF Settled
  <2> QED BY <2>2, <2>3
<1> QED BY <1>1, FeedbackHolds, PTL
=============================================================================
