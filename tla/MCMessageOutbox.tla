-------------------------- MODULE MCMessageOutbox --------------------------
(* Three turns, two of them in one conversation.                            *)
EXTENDS MessageOutbox, TLC

CONSTANTS i1, i2, i3, w1, w2

MCIntake == {i1, i2, i3}
MCLane == {"chat", "other"}
MCLaneOf == (i1 :> "chat") @@ (i2 :> "chat") @@ (i3 :> "other")
MCWorker == {w1, w2}
OneWorker == {w1}
MCWorkerSymmetry == Permutations(MCWorker)
=============================================================================
