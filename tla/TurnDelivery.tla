---------------------------- MODULE TurnDelivery ----------------------------
(***************************************************************************)
(* What the intake queue promises to the phones, without rows, threads,    *)
(* databases or crashes: a turn gets a receipt, is executed once at most   *)
(* and in its place, and the receipt tells the truth.  MessageOutbox       *)
(* implements this specification.                                          *)
(***************************************************************************)
EXTENDS Naturals

CONSTANTS
  Intake,     \* submission ids
  Lane,       \* conversations
  LaneOf      \* the conversation of each submission

VARIABLES
  receipt,    \* what the phone is told: "none", "pending", "accepted", "discarded"
  earlier,    \* the turns of the conversation that were posted before this one
  executed    \* how often a turn was executed

vars == <<receipt, earlier, executed>>

Receipts == {"none", "pending", "accepted", "discarded"}

\* The turn has its place behind the posted ones of its conversation.
Places(i) ==
  earlier' = [earlier EXCEPT ![i] =
                {j \in Intake \ {i} : LaneOf[j] = LaneOf[i] /\ receipt[j] # "none"}]

\* A turn that was executed before it was posted here is acknowledged at once.
Post(i) ==
  /\ receipt[i] = "none"
  /\ receipt' = [receipt EXCEPT ![i] = IF executed[i] = 0 THEN "pending" ELSE "accepted"]
  /\ Places(i)
  /\ UNCHANGED executed

\* Only a pending turn is executed, never twice, and after the older ones of
\* its conversation have ended.
Execute(i) ==
  /\ receipt[i] = "pending"
  /\ executed[i] = 0
  /\ \A j \in earlier[i] : receipt[j] \in {"accepted", "discarded"}
  /\ executed' = [executed EXCEPT ![i] = 1]
  /\ UNCHANGED <<receipt, earlier>>

\* Executed turns are acknowledged, after a restart several at once.
Acknowledge(S) ==
  /\ \A i \in S : receipt[i] = "pending" /\ executed[i] = 1
  /\ receipt' = [i \in Intake |-> IF i \in S THEN "accepted" ELSE receipt[i]]
  /\ UNCHANGED <<earlier, executed>>

\* The user gives a turn up, executed or not.
Discard(i) ==
  /\ receipt[i] = "pending"
  /\ receipt' = [receipt EXCEPT ![i] = "discarded"]
  /\ UNCHANGED <<earlier, executed>>

Init ==
  /\ receipt = [i \in Intake |-> "none"]
  /\ earlier = [i \in Intake |-> {}]
  /\ executed \in [Intake -> {0, 1}]

Next ==
  \/ \E i \in Intake : Post(i) \/ Execute(i) \/ Discard(i)
  \/ \E S \in SUBSET Intake : Acknowledge(S)

Spec == Init /\ [][Next]_vars
=============================================================================
