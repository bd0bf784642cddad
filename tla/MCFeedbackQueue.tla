-------------------------- MODULE MCFeedbackQueue --------------------------
(* A batch of two items, one of them with a recording.                      *)
EXTENDS FeedbackQueue, TLC

CONSTANTS i1, i2, b1, r1, r2

MCItem == {i1, i2}
MCBatch == {b1}
MCItemsOf == b1 :> <<i1, i2>>
MCSpoken == {i2}
MCRequest == {r1, r2}
MCSymmetry == Permutations({r1, r2})
=============================================================================
