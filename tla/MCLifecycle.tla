----------------------------- MODULE MCLifecycle -----------------------------
(* Lifecycle on two queues, for TLC. *)
EXTENDS Lifecycle
=============================================================================
