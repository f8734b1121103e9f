------------------------------- MODULE MCStream -------------------------------
(***************************************************************************)
(* An instance of Stream for TLC, on SQS: a stream of four jobs, and a     *)
(* call that queues three in chunks of two and one.                        *)
(***************************************************************************)
EXTENDS Stream

MCLength == 4

MCConcurrency == 2
=============================================================================
