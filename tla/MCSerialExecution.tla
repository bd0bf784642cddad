------------------------- MODULE MCSerialExecution -------------------------
(* Three turns of one chat, submitted by a person or by the agents.         *)
EXTENDS SerialExecution, TLC

CONSTANTS j1, j2, j3

MCJob == {j1, j2, j3}
MCKey == {"chat"}
OneChat == [j \in MCJob |-> "chat"]
MCGuard == {"maintenance", "recovery"}
HumanTurns == [j \in MCJob |-> "maintenance"]
MixedTurns == (j1 :> "maintenance") @@ (j2 :> "recovery") @@ (j3 :> "maintenance")
Nobody == {}
First == {j1}
Second == {j2}
=============================================================================
