------------------------------ MODULE NextTime ------------------------------
(***************************************************************************)
(* When a schedule is due next: Schedule._getNextSchedule of               *)
(* lib/scheduler.js, in whole units of time.                               *)
(*                                                                         *)
(* As in the code, what is not given is falsy: 0 stands for no start, no   *)
(* interval, no end, and for the null that means "not any more".           *)
(***************************************************************************)
EXTENDS Integers

Larger(a, b) == IF a >= b THEN a ELSE b

RoundDown(n, interval) == n - (n % interval)

(* Variant: the current moment does not count as due. *)
LateNextSchedule(now, start, every, end) ==
    LET grid == start + RoundDown(Larger(now - start, 0) + every, every)
    IN  IF every = 0 THEN (IF start >= now THEN start ELSE 0)
        ELSE IF end = 0 \/ end > grid THEN grid ELSE 0

(* The moment of the interval's grid that comes next: at now or later when the
   grid begins at the start, after now when it begins at midnight. *)
NextOnGrid(now, start, every) ==
    IF start > 0 THEN start + RoundDown(Larger(now - start, 0) + every - 1, every)
    ELSE RoundDown(now + every, every)

(* _getNextSchedule *)
NextSchedule(now, start, every, end) ==
    LET grid == NextOnGrid(now, start, every)
    IN  IF every = 0 THEN (IF start >= now THEN start ELSE 0)
        ELSE IF end = 0 \/ end > grid THEN grid ELSE 0

-----------------------------------------------------------------------------
(* What it is meant to be: t is an occurrence of the schedule, *)
Occurrence(t, start, every, end) ==
    /\ IF every = 0 THEN t = start
       ELSE IF start > 0 THEN t >= start /\ (t - start) % every = 0
       ELSE t % every = 0
    /\ every > 0 /\ end > 0 => t < end

(* which is due at now or later; an interval without a start is always due
   later. *)
Due(t, now, start) == IF start > 0 THEN t >= now ELSE t > now

(* t is the first of the moments at which the schedule is due, or 0 if it is
   due at none of them. *)
IsFirstDue(t, moments, now, start, every, end) ==
    LET due(u) == Occurrence(u, start, every, end) /\ Due(u, now, start)
    IN  /\ t # 0 => due(t)
        /\ \A u \in moments : due(u) => t # 0 /\ t <= u

(* What new Schedule() accepts: a start or an interval, an end only with an
   interval and after the start. *)
ValidSchedule(start, every, end) ==
    /\ start > 0 \/ every > 0
    /\ end > 0 => every > 0 /\ start < end

=============================================================================
