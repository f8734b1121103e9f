---------------------------- MODULE MCScheduler ----------------------------
(* Scheduler with one schedule of each kind, for TLC. *)
EXTENDS Scheduler

CONSTANTS Recurring, OneTime

(* Every tick from the second, before the fifth; once at the third. *)
MCWhen ==
    [s \in Schedules |->
        IF s = OneTime THEN [start |-> 3, every |-> 0, end |-> 0]
        ELSE [start |-> 2, every |-> 1, end |-> 5]]

=============================================================================
