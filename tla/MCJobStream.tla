---------------------------- MODULE MCJobStream ----------------------------
(* Clients and threads that watch one job.                                  *)
EXTENDS JobStream, TLC

CONSTANTS c1, p1, k1

MCClient == {c1}
MCPoller == {p1}
MCCanceller == {k1}
=============================================================================
