----------------------------- MODULE MCRunOnce -----------------------------
(***************************************************************************)
(* Two calls, the schedule's queue and one more.  The schedules: at one    *)
(* time, past or to come; every other moment; and from a start, before or  *)
(* after the clock, until an end that leaves one occurrence.               *)
(***************************************************************************)
EXTENDS RunOnce

CONSTANTS q1, q2, s1, s2, d1, d2

MCQueueOf == [j \in Jobs |-> IF j \in {s1, s2} THEN q1 ELSE q2]

MCMoments == 1 .. 4

MCSchedules == {[start |-> 2, every |-> 0, end |-> 0],
                [start |-> 0, every |-> 2, end |-> 0],
                [start |-> 2, every |-> 1, end |-> 3]}

=============================================================================
