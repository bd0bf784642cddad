----------------------------- MODULE MCStageMerge -----------------------------
(* Two stages, with a merge each; the runs are of the first.                *)
EXTENDS StageMerge

CONSTANTS s1, s2, m1, m2

MCStage == {s1, s2}
MCRunOf == [r \in Run |-> s1]
MCMerge == {m1, m2}
MCMergeOf == [m \in MCMerge |-> IF m = m1 THEN s1 ELSE s2]
=============================================================================
