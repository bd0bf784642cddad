----------------------------- MODULE MCAgentRun -----------------------------
(* One or two runs of a chat.                                               *)
EXTENDS AgentRun

CONSTANTS p1, r1

MCPoller == {p1}
MCReconciler == {r1}
Nobody == {}
=============================================================================
