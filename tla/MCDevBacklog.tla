----------------------------- MODULE MCDevBacklog -----------------------------
(* Two handoffs for one stage.                                              *)
EXTENDS DevBacklog, TLC

CONSTANTS h1, h2, s1, auto, human, c1, c2

MCHandoff == {h1, h2}
MCStage == {s1}
MCStageOf == [h \in MCHandoff |-> s1]
MCWorker == {auto, human}
MCChat == {c1, c2}
MCSymmetry == Permutations(MCHandoff) \cup Permutations(MCChat)

\* What can make no difference any more is not told apart.  Who opens the temporary
\* file truncates and names it, so that it counts only while somebody writes; and
\* each ghost counts as long as its property claims something.
MCTemporary == IF \A a \in Actor : phase[a] # "write" THEN "none" ELSE <<tmp, named, fd>>
MCKicks == IF seen = "nothing" THEN <<kickoffs, stray>> ELSE seen
MCGiven == IF seen = "overlap" THEN seen ELSE <<accepted, claimed>>
MCView ==
  <<file, MCTemporary, todo, phase, copy, call, worktree, owner, sent, MCKicks, MCGiven, calls>>
=============================================================================
