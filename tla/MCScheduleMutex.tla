--------------------------- MODULE MCScheduleMutex ---------------------------
(* ScheduleMutex for TLC. *)
EXTENDS ScheduleMutex
=============================================================================
