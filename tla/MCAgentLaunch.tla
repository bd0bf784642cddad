---------------------------- MODULE MCAgentLaunch ----------------------------
(* Requests of two processes about the launches of two messages.            *)
EXTENDS AgentLaunch, TLC

CONSTANTS l1, l2, q1, q2, t1, t2

MCLaunch == {l1, l2}
MCRequest == {q1, q2}
MCTurn == {t1, t2}
=============================================================================
