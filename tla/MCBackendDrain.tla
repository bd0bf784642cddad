--------------------------- MODULE MCBackendDrain ---------------------------
(* One run of a chat, and its drain.                                        *)
EXTENDS BackendDrain

MCPoller == {Asker}
MCReconciler == {Resolver}
=============================================================================
