--------------------------- MODULE SchedulerProofs ---------------------------
(***************************************************************************)
(* Proofs about Scheduler: when the jobs of a schedule are queued, for any *)
(* number of schedules, starts, stops and timers, and any interval, start  *)
(* and end.                                                                *)
(***************************************************************************)
EXTENDS Scheduler, NextTimeProofs, FiniteSetTheorems

(* A timer fires in its tick: none is ever in the past. *)
TimersAhead == \A t \in timers : now <= t.at

(* What the constructor computed: the start, if that is yet to come, and
   nothing that the end excludes. *)
NextInBounds ==
    \A s \in scheduled :
        /\ now < When[s].start => next[s] = When[s].start
        /\ When[s].end > 0 => next[s] < When[s].end

(* Only schedules of the map are visited, once for each start() at most. *)
VisitsScheduled ==
    \A s \in Schedules : visits[s] <= starts /\ (visits[s] > 0 => s \in scheduled)

(* The timers of a schedule start and end with it. *)
TimersNotEarly == \A t \in timers : When[t.schedule].start <= t.at

TimersNotLate ==
    \A t \in timers :
        When[t.schedule].end > 0 /\ When[t.schedule].every <= RetryAbove =>
            /\ t.kind # "retry"
            /\ t.kind = "first" => t.at < When[t.schedule].end

(* The invariant that holds whatever the schedules are. *)
SInv ==
    /\ TypeOK
    /\ TimersAhead /\ NextInBounds /\ VisitsScheduled /\ TimersNotLate
    /\ NotAfterEnd /\ ArmedWhileStarted

(* The one that needs the starts to be within the reach of a timer. *)
StartsReachable == \A s \in Schedules : When[s].start <= MaxDelay

-----------------------------------------------------------------------------
LEMMA TimerDelayBounds ==
    ASSUME NEW d \in Int
    PROVE  /\ TimerDelay(d) \in Nat
           /\ TimerDelay(d) = 0 \/ (TimerDelay(d) = d /\ d > 0)
BY SchedulerAssumption DEF TimerDelay

LEMMA WhenTyped ==
    ASSUME NEW s \in Schedules
    PROVE  When[s].start \in Nat /\ When[s].every \in Nat /\ When[s].end \in Nat
BY SchedulerAssumption

(* What the constructor computes. *)
LEMMA NextScheduleInBounds ==
    ASSUME NEW s \in Schedules, NEW time \in Nat \ {0}
    PROVE  LET due == NextSchedule(time, When[s].start, When[s].every, When[s].end) IN
           /\ due \in Nat
           /\ time < When[s].start => due = When[s].start
           /\ When[s].end > 0 => due < When[s].end
<1> DEFINE start == When[s].start
           every == When[s].every
           end   == When[s].end
           due   == NextSchedule(time, start, every, end)
<1>1. start \in Nat /\ every \in Nat /\ end \in Nat
  BY WhenTyped
<1>2. end > 0 => every > 0 /\ start < end
  BY SchedulerAssumption
<1>3. due \in Nat
  BY <1>1, NextScheduleInNat
<1>4. end > 0 => due < end
  BY <1>1, <1>2, <1>3 DEF NextSchedule
<1>5. ASSUME time < start PROVE due = start
  <2>1. CASE every = 0
    BY <1>1, <1>5, <2>1 DEF NextSchedule
  <2>2. CASE every # 0
    <3>1. (start - start) % every = 0
      BY <1>1, <2>2
    <3>2. start \in Nat \ {0} /\ every \in Nat \ {0} /\ time \in Nat
      BY <1>1, <1>5, <2>2
    <3>3. /\ NextOnGrid(time, start, every) \in Nat
          /\ NextOnGrid(time, start, every) >= start
          /\ start >= time /\ start >= start /\ (start - start) % every = 0
                => NextOnGrid(time, start, every) <= start
      BY <3>2, GridFromStart
    <3>4. NextOnGrid(time, start, every) = start
      BY <1>1, <1>5, <3>1, <3>3
    <3> QED
      BY <1>1, <1>2, <2>2, <3>4 DEF NextSchedule
  <2> QED
    BY <2>1, <2>2
<1> QED
  BY <1>3, <1>4, <1>5

(* Setting a timer of a schedule: the others stay as they are, but for the
   reference to it. *)
LEMMA StoreEffect ==
    ASSUME NEW s \in Schedules, NEW kind \in {"first", "interval", "retry"}, NEW at \in Nat,
           NEW ts \in SUBSET Timers
    PROVE  /\ Store(s, kind, at, ts) \subseteq Timers
           /\ Timer(s, kind, at, TRUE) \in Store(s, kind, at, ts)
           /\ \A t \in Store(s, kind, at, ts) :
                 \/ t = Timer(s, kind, at, TRUE)
                 \/ \E u \in ts : t.schedule = u.schedule /\ t.kind = u.kind /\ t.at = u.at
           /\ \A t \in ts : t.schedule # s => t \in Store(s, kind, at, ts)
<1>1. Timer(s, kind, at, TRUE) \in Timers
  BY DEF Timer, Timers
<1>2. ASSUME NEW t \in ts
      PROVE  LET u == [t EXCEPT !.stored = FALSE] IN
             u \in Timers /\ u.schedule = t.schedule /\ u.kind = t.kind /\ u.at = t.at
  BY DEF Timers
<1> QED
  BY <1>1, <1>2 DEF Store

(* The timers that queueing a job leaves, and when it was queued. *)
LEMMA QueueNextEffect ==
    ASSUME TypeOK, NEW s \in Schedules, NEW ts \in SUBSET Timers, QueueNext(s, ts)
    PROVE  /\ posts' \in [Schedules -> SUBSET (1 .. MaxTime)]
           /\ queue' \in [Schedules -> SUBSET (1 .. MaxTime)]
           /\ lost' \in [Schedules -> 0 .. MaxLost]
           /\ timers' \subseteq Timers /\ ts \subseteq timers'
           /\ \A t \in timers' : t \in ts \/ (/\ OneOff(s) \/ When[s].every > RetryAbove
                                              /\ t = Timer(s, "retry", now + RetryDelay, FALSE))
           /\ \A k \in Schedules : \A time \in posts'[k] : time \in posts[k] \/ (k = s /\ time = now)
<1> DEFINE retry == Timer(s, "retry", now + RetryDelay, FALSE)
<1>1. retry \in Timers
  BY SchedulerAssumption DEF TypeOK, Timer, Timers
<1>2. /\ now \in 1 .. MaxTime /\ posts \in [Schedules -> SUBSET (1 .. MaxTime)]
      /\ queue \in [Schedules -> SUBSET (1 .. MaxTime)]
  BY DEF TypeOK
<1>3. /\ timers' = ts \/ (timers' = ts \cup {retry} /\ (OneOff(s) \/ When[s].every > RetryAbove))
      /\ Queued(s) \/ UNCHANGED <<posts, queue>>
  BY DEF QueueNext, TryAgain
<1>4. lost' \in [Schedules -> 0 .. MaxLost]
  <2>1. CASE lost' = lost
    BY <2>1 DEF TypeOK
  <2>2. CASE lost[s] < MaxLost /\ lost' = [lost EXCEPT ![s] = @ + 1]
    <3>1. lost[s] \in 0 .. MaxLost /\ MaxLost \in Nat
      BY SchedulerAssumption DEF TypeOK
    <3>2. lost[s] + 1 \in 0 .. MaxLost
      BY <2>2, <3>1
    <3> QED
      BY <2>2, <3>2 DEF TypeOK
  <2> QED
    BY <2>1, <2>2 DEF QueueNext
<1> HIDE DEF retry
<1>5. timers' \subseteq Timers /\ ts \subseteq timers'
      /\ \A t \in timers' : t \in ts \/ ((OneOff(s) \/ When[s].every > RetryAbove) /\ t = retry)
  BY <1>1, <1>3
<1>6. /\ posts' \in [Schedules -> SUBSET (1 .. MaxTime)]
      /\ queue' \in [Schedules -> SUBSET (1 .. MaxTime)]
      /\ \A k \in Schedules : \A time \in posts'[k] : time \in posts[k] \/ (k = s /\ time = now)
  BY <1>2, <1>3 DEF Queued
<1> QED
  BY <1>4, <1>5, <1>6 DEF retry

-----------------------------------------------------------------------------
LEMMA InitSInv == Init => SInv
<1> SUFFICES ASSUME Init PROVE SInv
  OBVIOUS
<1>1. MaxTime \in Nat \ {0} /\ MaxStarts \in Nat /\ MaxLost \in Nat
  BY SchedulerAssumption
<1>2. 1 \in 1 .. MaxTime /\ 0 \in 0 .. MaxStarts /\ 0 \in 0 .. MaxLost
  BY <1>1
<1>3. TypeOK
  BY <1>2 DEF Init, TypeOK
<1> QED
  BY <1>2, <1>3 DEF Init, SInv, TimersAhead, NextInBounds, VisitsScheduled, TimersNotLate, NotAfterEnd,
              ArmedWhileStarted, Armed

(* A schedule that starts. *)
LEMMA StartScheduleKeeps ==
    ASSUME SInv, NEW s \in Schedules, NEW due \in Nat, StartSchedule(s, due),
           When[s].end > 0 => due < When[s].end
    PROVE  /\ timers' \subseteq Timers
           /\ \A t \in timers' :
                 /\ now <= t.at
                 /\ When[t.schedule].end > 0 /\ When[t.schedule].every <= RetryAbove =>
                      /\ t.kind # "retry"
                      /\ t.kind = "first" => t.at < When[t.schedule].end
           /\ \A t \in timers : t.schedule # s => t \in timers'
           /\ ~Over(s) => \E t \in timers' : t.schedule = s /\ t.kind = "first" /\ t.stored
<1>1. CASE Over(s)
  BY <1>1 DEF StartSchedule, SInv, TypeOK, TimersAhead, TimersNotLate
<1>2. CASE ~Over(s)
  <2> DEFINE at == now + TimerDelay(due - now)
             new == Timer(s, "first", at, TRUE)
  <2>1. now \in Nat /\ timers \in SUBSET Timers
    BY SchedulerAssumption DEF SInv, TypeOK
  <2>2. at \in Nat /\ now <= at /\ (at = now \/ at = due)
    BY <2>1, TimerDelayBounds
  <2>3. timers' = Store(s, "first", at, timers)
    BY <1>2 DEF StartSchedule
  <2>4. When[s].end > 0 => at < When[s].end
    BY <1>2, <2>1, <2>2, WhenTyped DEF Over
  <2>5. new.schedule = s /\ new.kind = "first" /\ new.at = at /\ new.stored
    BY DEF Timer
  <2> HIDE DEF at, new
  <2>6. /\ timers' \subseteq Timers /\ new \in timers'
        /\ \A t \in timers' :
              t = new \/ \E u \in timers : t.schedule = u.schedule /\ t.kind = u.kind /\ t.at = u.at
        /\ \A t \in timers : t.schedule # s => t \in timers'
    BY <2>1, <2>2, <2>3, StoreEffect DEF new
  <2> QED
    BY <2>2, <2>4, <2>5, <2>6 DEF SInv, TimersAhead, TimersNotLate
<1> QED
  BY <1>1, <1>2

LEMMA ScheduleJobStep ==
    ASSUME SInv, NEW s \in Schedules, ScheduleJob(s)
    PROVE  SInv'
<1> DEFINE due == NextSchedule(now, When[s].start, When[s].every, When[s].end)
<1>1. now \in Nat \ {0}
  BY SchedulerAssumption DEF SInv, TypeOK
<1>2. /\ due \in Nat
      /\ now < When[s].start => due = When[s].start
      /\ When[s].end > 0 => due < When[s].end
  BY <1>1, NextScheduleInBounds
<1>3. /\ s \notin scheduled /\ scheduled' = scheduled \cup {s}
      /\ next' = [next EXCEPT ![s] = due]
      /\ IF started THEN StartSchedule(s, due) ELSE UNCHANGED timers
      /\ UNCHANGED <<now, started, starts, visits, posts, queue, lost, skipped>>
  BY DEF ScheduleJob
<1> HIDE DEF due
<1>4. /\ timers' \subseteq Timers
      /\ \A t \in timers' :
            /\ now <= t.at
            /\ When[t.schedule].end > 0 /\ When[t.schedule].every <= RetryAbove =>
                 /\ t.kind # "retry"
                 /\ t.kind = "first" => t.at < When[t.schedule].end
      /\ \A t \in timers : t.schedule # s => t \in timers'
      /\ started /\ ~Over(s) => \E t \in timers' : t.schedule = s /\ t.kind = "first" /\ t.stored
  <2>1. CASE started
    BY <1>2, <1>3, <2>1, StartScheduleKeeps
  <2>2. CASE ~started
    BY <1>3, <2>2 DEF SInv, TypeOK, TimersAhead, TimersNotLate
  <2> QED
    BY <2>1, <2>2
<1>5. TypeOK'
  BY <1>2, <1>3, <1>4 DEF SInv, TypeOK
<1>6. TimersAhead' /\ TimersNotLate'
  BY <1>3, <1>4 DEF TimersAhead, TimersNotLate
<1>7. NextInBounds' /\ VisitsScheduled' /\ NotAfterEnd'
  BY <1>2, <1>3 DEF SInv, TypeOK, NextInBounds, VisitsScheduled, NotAfterEnd
<1>8. ArmedWhileStarted'
  BY <1>3, <1>4 DEF SInv, ArmedWhileStarted, Armed, OneOff, Over
<1> QED
  BY <1>5, <1>6, <1>7, <1>8 DEF SInv

LEMMA StartStep ==
    ASSUME SInv, Start
    PROVE  SInv'
<1>1. starts' \in 0 .. MaxStarts /\ starts' = starts + 1
  BY SchedulerAssumption DEF SInv, TypeOK, Start
<1>2. \A s \in Schedules : visits'[s] \in 0 .. starts'
  BY <1>1 DEF SInv, TypeOK, VisitsScheduled, Start
<1>3. TypeOK'
  <2>1. visits' \in [Schedules -> 0 .. MaxStarts]
    BY <1>1, <1>2, SchedulerAssumption DEF Start
  <2> QED
    BY <1>1, <2>1 DEF SInv, TypeOK, Start
<1> QED
  BY <1>1, <1>2, <1>3 DEF SInv, TypeOK, Start, TimersAhead, NextInBounds, VisitsScheduled, TimersNotLate, NotAfterEnd,
              ArmedWhileStarted, Armed, OneOff, Over

LEMMA VisitStep ==
    ASSUME SInv, NEW s \in Schedules, Visit(s)
    PROVE  SInv'
<1>1. /\ visits[s] > 0 /\ visits' = [visits EXCEPT ![s] = @ - 1]
      /\ IF s \in Startable THEN StartSchedule(s, next[s]) ELSE UNCHANGED timers
      /\ skipped' = IF s \in Startable THEN skipped \ {s} ELSE skipped
      /\ UNCHANGED <<now, started, starts, scheduled, next, posts, queue, lost>>
  BY DEF Visit
<1>2. next[s] \in Nat /\ s \in scheduled /\ (When[s].end > 0 => next[s] < When[s].end)
  BY <1>1 DEF SInv, TypeOK, NextInBounds, VisitsScheduled
<1>3. /\ timers' \subseteq Timers
      /\ \A t \in timers' :
            /\ now <= t.at
            /\ When[t.schedule].end > 0 /\ When[t.schedule].every <= RetryAbove =>
                 /\ t.kind # "retry"
                 /\ t.kind = "first" => t.at < When[t.schedule].end
      /\ \A t \in timers : t.schedule # s => t \in timers'
      /\ s \in Startable /\ ~Over(s) =>
            \E t \in timers' : t.schedule = s /\ t.kind = "first" /\ t.stored
  <2>1. CASE s \in Startable
    BY <1>1, <1>2, <2>1, StartScheduleKeeps
  <2>2. CASE s \notin Startable
    BY <1>1, <2>2 DEF SInv, TypeOK, TimersAhead, TimersNotLate
  <2> QED
    BY <2>1, <2>2
<1>4. /\ visits' \in [Schedules -> 0 .. MaxStarts] /\ visits'[s] < visits[s]
      /\ \A k \in Schedules : k # s => visits'[k] = visits[k]
  BY <1>1, SchedulerAssumption DEF SInv, TypeOK
<1>5. TypeOK'
  BY <1>1, <1>3, <1>4 DEF SInv, TypeOK
<1>6. TimersAhead' /\ TimersNotLate'
  BY <1>1, <1>3 DEF TimersAhead, TimersNotLate
<1>7. NextInBounds' /\ NotAfterEnd'
  BY <1>1, <1>2, <1>4 DEF SInv, NextInBounds, NotAfterEnd
<1>9. VisitsScheduled'
  <2>1. visits[s] \in Int /\ visits'[s] \in Int /\ starts \in Int
    BY <1>4 DEF SInv, TypeOK
  <2> QED
    BY <1>1, <1>2, <1>4, <2>1 DEF SInv, VisitsScheduled
<1>8. ArmedWhileStarted'
  <2>1. SUFFICES ASSUME NEW k \in (scheduled \cap Startable) \ skipped', started, visits'[k] = 0,
                        ~OneOff(k), ~Over(k)
                 PROVE  Armed(k)'
    BY <1>1 DEF ArmedWhileStarted, OneOff, Over
  <2>2. CASE k = s
    BY <1>3, <2>1, <2>2 DEF Armed
  <2>3. CASE k # s
    <3>1. Armed(k)
      BY <1>1, <1>4, <2>1, <2>3 DEF SInv, ArmedWhileStarted
    <3> QED
      BY <1>3, <2>3, <3>1 DEF Armed
  <2> QED
    BY <2>2, <2>3
<1> QED
  BY <1>5, <1>6, <1>7, <1>8, <1>9 DEF SInv

(* A schedule whose visit fails is armed already, or counted as skipped. *)
LEMMA VisitFailsStep ==
    ASSUME SInv, NEW rest \in SUBSET Schedules, VisitFails(rest)
    PROVE  SInv'
<1>1. /\ \A s \in rest : visits[s] > 0
      /\ visits' = [s \in Schedules |-> IF s \in rest THEN visits[s] - 1 ELSE visits[s]]
      /\ skipped' = skipped \cup { s \in rest : ~Armed(s) }
      /\ UNCHANGED <<now, started, starts, scheduled, next, timers, posts, queue, lost>>
  BY DEF VisitFails
<1>2. ASSUME NEW s \in Schedules
      PROVE  /\ visits'[s] \in 0 .. MaxStarts /\ visits'[s] <= visits[s]
             /\ visits'[s] # visits[s] => s \in rest
  BY <1>1, <1>2, SchedulerAssumption DEF SInv, TypeOK
<1>3. TypeOK'
  <2>1. visits' \in [Schedules -> 0 .. MaxStarts] /\ skipped' \subseteq Schedules
    BY <1>1, <1>2 DEF SInv, TypeOK
  <2> QED
    BY <1>1, <2>1 DEF SInv, TypeOK
<1>4. TimersAhead' /\ TimersNotLate' /\ NextInBounds' /\ NotAfterEnd'
  BY <1>1 DEF SInv, TimersAhead, TimersNotLate, NextInBounds, NotAfterEnd
<1>5. VisitsScheduled'
  <2>1. ASSUME NEW s \in Schedules
        PROVE  visits[s] \in Int /\ visits'[s] \in Int /\ starts \in Int
    BY <1>2 DEF SInv, TypeOK
  <2> QED
    BY <1>1, <1>2, <2>1 DEF SInv, VisitsScheduled
<1>6. ArmedWhileStarted'
  <2>1. SUFFICES ASSUME NEW k \in (scheduled \cap Startable) \ skipped', started, visits'[k] = 0,
                        ~OneOff(k), ~Over(k)
                 PROVE  Armed(k)
    BY <1>1 DEF ArmedWhileStarted, OneOff, Over, Armed
  <2>2. CASE k \in rest
    BY <1>1, <2>1, <2>2
  <2>3. CASE k \notin rest
    <3>1. visits[k] = 0 /\ k \notin skipped
      <4>1. k \in Schedules
        BY DEF SInv, TypeOK
      <4> QED
        BY <1>1, <2>1, <2>3, <4>1
    <3> QED
      BY <2>1, <3>1 DEF SInv, ArmedWhileStarted
  <2> QED
    BY <2>2, <2>3
<1> QED
  BY <1>3, <1>4, <1>5, <1>6 DEF SInv

LEMMA StopStep ==
    ASSUME SInv, Stop
    PROVE  SInv'
BY DEF SInv, TypeOK, Stop, TimersAhead, NextInBounds, VisitsScheduled, TimersNotLate, NotAfterEnd,
       ArmedWhileStarted, Armed, OneOff, Over

(* A timer that fires queues its job, unless it is over, and leaves timers
   that are within the bounds. *)
LEMMA QueueNextKeeps ==
    ASSUME SInv, NEW s \in Schedules, NEW ts \in SUBSET Timers, QueueNext(s, ts),
           UNCHANGED <<now, started, starts, scheduled, next, visits, skipped>>,
           When[s].end > 0 /\ When[s].every <= RetryAbove => now < When[s].end,
           \A t \in ts :
              /\ now <= t.at
              /\ When[t.schedule].end > 0 /\ When[t.schedule].every <= RetryAbove =>
                   /\ t.kind # "retry"
                   /\ t.kind = "first" => t.at < When[t.schedule].end,
           \A k \in (scheduled \cap Startable) \ skipped :
              started /\ visits[k] = 0 /\ ~OneOff(k) /\ ~Over(k) =>
                 \E t \in ts : t.schedule = k /\ t.kind \in {"first", "interval"} /\ t.stored
    PROVE  SInv'
<1> DEFINE retry == Timer(s, "retry", now + RetryDelay, FALSE)
<1>1. /\ posts' \in [Schedules -> SUBSET (1 .. MaxTime)]
      /\ queue' \in [Schedules -> SUBSET (1 .. MaxTime)]
      /\ lost' \in [Schedules -> 0 .. MaxLost]
      /\ timers' \subseteq Timers /\ ts \subseteq timers'
      /\ \A t \in timers' : t \in ts \/ (/\ OneOff(s) \/ When[s].every > RetryAbove
                                         /\ t = retry)
      /\ \A k \in Schedules : \A time \in posts'[k] : time \in posts[k] \/ (k = s /\ time = now)
  BY QueueNextEffect DEF SInv
<1>2. /\ retry.schedule = s /\ retry.kind = "retry" /\ retry.at = now + RetryDelay
      /\ now \in Nat /\ RetryDelay \in Nat /\ RetryAbove \in Nat
  BY SchedulerAssumption DEF Timer, SInv, TypeOK
<1>3. OneOff(s) => When[s].end = 0
  BY WhenTyped, SchedulerAssumption DEF OneOff
<1> HIDE DEF retry
<1>4. TypeOK'
  BY <1>1 DEF SInv, TypeOK
<1>5. TimersAhead'
  BY <1>1, <1>2 DEF TimersAhead
<1>6. TimersNotLate'
  BY <1>1, <1>2, <1>3, WhenTyped DEF TimersNotLate
<1>7. NotAfterEnd'
  BY <1>1, <1>2, WhenTyped DEF SInv, NotAfterEnd
<1>8. ArmedWhileStarted'
  BY <1>1 DEF ArmedWhileStarted, Armed, OneOff, Over
<1>9. NextInBounds' /\ VisitsScheduled'
  BY DEF SInv, NextInBounds, VisitsScheduled
<1> QED
  BY <1>4, <1>5, <1>6, <1>7, <1>8, <1>9 DEF SInv

LEMMA FirstInstanceStep ==
    ASSUME SInv, NEW t \in timers, FirstInstance(t)
    PROVE  SInv'
<1> DEFINE s    == t.schedule
           rest == timers \ {t}
           at   == now + TimerDelay(When[s].every)
           ts   == IF OneOff(s) THEN rest ELSE Store(s, "interval", at, rest)
           new  == Timer(s, "interval", at, TRUE)
<1>0. /\ t \in Timers /\ now \in Nat /\ rest \in SUBSET Timers
      /\ t.kind = "first" /\ t.at <= now /\ now <= t.at
  BY SchedulerAssumption DEF SInv, TypeOK, TimersAhead, FirstInstance
<1>1. /\ s \in Schedules /\ rest \in SUBSET Timers /\ now \in Nat /\ t.at \in Nat
      /\ t.kind = "first" /\ t.at = now
  BY <1>0 DEF Timers
<1>2. QueueNext(s, ts) /\ UNCHANGED <<now, started, starts, scheduled, next, visits, skipped>>
  BY DEF FirstInstance
<1>3. at \in Nat /\ now <= at
  BY <1>1, WhenTyped, TimerDelayBounds
<1>4. When[s].end > 0 /\ When[s].every <= RetryAbove => now < When[s].end
  BY <1>1 DEF SInv, TimersNotLate
<1>5. new.schedule = s /\ new.kind = "interval" /\ new.at = at /\ new.stored
  BY DEF Timer
<1>6. \A u \in rest :
         /\ now <= u.at
         /\ When[u.schedule].end > 0 /\ When[u.schedule].every <= RetryAbove =>
              /\ u.kind # "retry"
              /\ u.kind = "first" => u.at < When[u.schedule].end
  BY DEF SInv, TimersAhead, TimersNotLate
<1>7. \A k \in (scheduled \cap Startable) \ skipped : k # s =>
         (started /\ visits[k] = 0 /\ ~OneOff(k) /\ ~Over(k) =>
            \E u \in rest : u.schedule = k /\ u.kind \in {"first", "interval"} /\ u.stored)
  BY DEF SInv, ArmedWhileStarted, Armed
<1> HIDE DEF s, rest, at, new
<1>8. CASE OneOff(s)
  <2>1. ts = rest
    BY <1>8
  <2> HIDE DEF ts
  <2>2. ts \in SUBSET Timers
    BY <1>1, <2>1
  <2> QED
    BY <2>1, <2>2, <1>1, <1>2, <1>4, <1>6, <1>7, <1>8, QueueNextKeeps
<1>9. CASE ~OneOff(s)
  <2>1. ts = Store(s, "interval", at, rest)
    BY <1>9
  <2> HIDE DEF ts
  <2>2. /\ ts \in SUBSET Timers /\ new \in ts
        /\ \A u \in ts :
              u = new \/ \E v \in rest : u.schedule = v.schedule /\ u.kind = v.kind /\ u.at = v.at
        /\ \A u \in rest : u.schedule # s => u \in ts
    BY <1>1, <1>3, <2>1, StoreEffect DEF new
  <2>3. \A u \in ts :
           /\ now <= u.at
           /\ When[u.schedule].end > 0 /\ When[u.schedule].every <= RetryAbove =>
                /\ u.kind # "retry"
                /\ u.kind = "first" => u.at < When[u.schedule].end
    BY <1>3, <1>5, <1>6, <2>2
  <2>4. \A k \in (scheduled \cap Startable) \ skipped :
           started /\ visits[k] = 0 /\ ~OneOff(k) /\ ~Over(k) =>
              \E u \in ts : u.schedule = k /\ u.kind \in {"first", "interval"} /\ u.stored
    BY <1>5, <1>7, <2>2
  <2> QED
    BY <1>1, <1>2, <1>4, <2>2, <2>3, <2>4, QueueNextKeeps
<1> QED
  BY <1>8, <1>9

LEMMA EveryIntervalStep ==
    ASSUME SInv, NEW t \in timers, EveryInterval(t)
    PROVE  SInv'
<1> DEFINE s     == t.schedule
           moved == [t EXCEPT !.at = now + TimerDelay(When[s].every)]
           again == (timers \ {t}) \cup {moved}
<1>1. /\ s \in Schedules /\ now \in Nat /\ t \in Timers /\ t.kind = "interval"
      /\ UNCHANGED <<now, started, starts, scheduled, next, visits, skipped>>
      /\ IF Over(s) THEN timers' = Cleared(s, {"interval"}, again) /\ UNCHANGED <<posts, queue, lost>>
         ELSE QueueNext(s, again)
  BY SchedulerAssumption DEF SInv, TypeOK, Timers, EveryInterval
<1>2. now + TimerDelay(When[s].every) \in Nat /\ now <= now + TimerDelay(When[s].every)
  BY <1>1, WhenTyped, TimerDelayBounds
<1>3. /\ moved \in Timers /\ moved.schedule = s /\ moved.kind = "interval"
      /\ moved.stored = t.stored /\ now <= moved.at
  BY <1>1, <1>2 DEF Timers
<1> HIDE DEF moved
<1>4. again \in SUBSET Timers
  BY <1>3 DEF SInv, TypeOK
<1>5. \A u \in again :
         /\ now <= u.at
         /\ When[u.schedule].end > 0 /\ When[u.schedule].every <= RetryAbove =>
              /\ u.kind # "retry"
              /\ u.kind = "first" => u.at < When[u.schedule].end
  BY <1>3 DEF SInv, TimersAhead, TimersNotLate
<1>6. \A k \in (scheduled \cap Startable) \ skipped :
         started /\ visits[k] = 0 /\ ~OneOff(k) /\ ~Over(k) =>
            \E u \in again : u.schedule = k /\ u.kind \in {"first", "interval"} /\ u.stored
  BY <1>1, <1>3 DEF SInv, ArmedWhileStarted, Armed
<1> HIDE DEF s, again
<1>7. CASE ~Over(s)
  <2>1. When[s].end > 0 => now < When[s].end
    BY <1>1, <1>7, WhenTyped DEF Over
  <2>2. QueueNext(s, again)
    BY <1>1, <1>7
  <2> QED
    BY <1>1, <1>4, <1>5, <1>6, <2>1, <2>2, QueueNextKeeps
<1>8. CASE Over(s)
  <2>1. timers' \subseteq again /\ UNCHANGED <<posts, queue, lost>>
    BY <1>1, <1>8 DEF Cleared
  <2>2. \A u \in again : u.schedule # s => u \in timers'
    BY <1>1, <1>8 DEF Cleared
  <2>3. TypeOK'
    BY <1>1, <1>4, <2>1 DEF SInv, TypeOK
  <2>4. TimersAhead' /\ TimersNotLate'
    BY <1>1, <1>5, <2>1 DEF TimersAhead, TimersNotLate
  <2>5. NextInBounds' /\ VisitsScheduled' /\ NotAfterEnd'
    BY <1>1, <2>1 DEF SInv, NextInBounds, VisitsScheduled, NotAfterEnd
  <2>6. ArmedWhileStarted'
    BY <1>1, <1>6, <1>8, <2>2 DEF ArmedWhileStarted, Armed, OneOff, Over
  <2> QED
    BY <2>3, <2>4, <2>5, <2>6 DEF SInv
<1> QED
  BY <1>7, <1>8

LEMMA RetryStep ==
    ASSUME SInv, NEW t \in timers, Retry(t)
    PROVE  SInv'
<1> DEFINE s    == t.schedule
           rest == timers \ {t}
<1>1. /\ s \in Schedules /\ rest \in SUBSET Timers /\ t.kind = "retry" /\ QueueNext(s, rest)
      /\ UNCHANGED <<now, started, starts, scheduled, next, visits, skipped>>
  BY DEF SInv, TypeOK, Timers, Retry
<1>2. ~(When[s].end > 0 /\ When[s].every <= RetryAbove)
  BY <1>1 DEF SInv, TimersNotLate
<1>3. \A u \in rest :
         /\ now <= u.at
         /\ When[u.schedule].end > 0 /\ When[u.schedule].every <= RetryAbove =>
              /\ u.kind # "retry"
              /\ u.kind = "first" => u.at < When[u.schedule].end
  BY DEF SInv, TimersAhead, TimersNotLate
<1>4. \A k \in (scheduled \cap Startable) \ skipped :
         started /\ visits[k] = 0 /\ ~OneOff(k) /\ ~Over(k) =>
            \E u \in rest : u.schedule = k /\ u.kind \in {"first", "interval"} /\ u.stored
  BY <1>1 DEF SInv, ArmedWhileStarted, Armed
<1> HIDE DEF s, rest
<1> QED
  BY <1>1, <1>2, <1>3, <1>4, QueueNextKeeps

LEMMA PickUpJobStep ==
    ASSUME SInv, NEW s \in Schedules, NEW time \in queue[s], PickUpJob(s, time)
    PROVE  SInv'
BY DEF SInv, TypeOK, PickUpJob, TimersAhead, NextInBounds, VisitsScheduled, TimersNotLate, NotAfterEnd,
       ArmedWhileStarted, Armed, OneOff, Over

LEMMA TickStep ==
    ASSUME SInv, Tick
    PROVE  SInv'
<1>1. /\ now \in Nat /\ now' = now + 1 /\ now' \in 1 .. MaxTime /\ \A t \in timers : t.at > now
      /\ UNCHANGED <<started, starts, scheduled, next, visits, timers, posts, queue, lost, skipped>>
  BY SchedulerAssumption DEF SInv, TypeOK, Tick
<1>2. TypeOK'
  BY <1>1 DEF SInv, TypeOK
<1>3. TimersAhead'
  BY <1>1 DEF SInv, TypeOK, Timers, TimersAhead
<1>4. NextInBounds'
  BY <1>1, WhenTyped DEF SInv, TypeOK, NextInBounds
<1>5. VisitsScheduled' /\ TimersNotLate' /\ NotAfterEnd'
  BY <1>1 DEF SInv, VisitsScheduled, TimersNotLate, NotAfterEnd
<1>6. ArmedWhileStarted'
  <2>1. ASSUME NEW s \in Schedules, ~Over(s)' PROVE ~Over(s)
    BY <1>1, <2>1, WhenTyped DEF Over
  <2> QED
    BY <1>1, <2>1 DEF SInv, TypeOK, ArmedWhileStarted, Armed, OneOff
<1> QED
  BY <1>2, <1>3, <1>4, <1>5, <1>6 DEF SInv

LEMMA StepSInv ==
    ASSUME SInv, [Next]_vars
    PROVE  SInv'
<1>1. CASE UNCHANGED vars
  BY <1>1 DEF vars, SInv, TypeOK, TimersAhead, NextInBounds, VisitsScheduled, TimersNotLate,
              NotAfterEnd, ArmedWhileStarted, Armed, OneOff, Over
<1>2. CASE Next
  BY <1>2, ScheduleJobStep, StartStep, StopStep, VisitStep, VisitFailsStep, FirstInstanceStep,
     EveryIntervalStep, RetryStep, PickUpJobStep, TickStep
  DEF Next
<1> QED
  BY <1>1, <1>2

(* For any schedules, and any order of start(), stop(), scheduleJob(), timers
   and failures, every variable keeps its type and no timer is in the past. *)
THEOREM SchedulerInvariant == Spec => []SInv
BY InitSInv, StepSInv, PTL DEF Spec

(* scheduler.js:14 "end - Do not run after this time": a schedule whose interval is
   too short to be retried queues no job at or after its end. *)
THEOREM NothingAfterEnd == Spec => []NotAfterEnd
BY SchedulerInvariant, PTL DEF SInv

(* A recurring schedule that was started has a timer that stop() can reach, until
   its end (scheduler.js:61-122, 243-255). *)
THEOREM StartedIsArmed == Spec => []ArmedWhileStarted
BY SchedulerInvariant, PTL DEF SInv

-----------------------------------------------------------------------------
(***************************************************************************)
(* A start beyond the reach of a timer runs at once (scheduler.js:69), so  *)
(* that nothing is queued early is proved of the others.                   *)
(***************************************************************************)

NInv == SInv /\ TimersNotEarly /\ NotBeforeStart

LEMMA StartScheduleNotEarly ==
    ASSUME NInv, StartsReachable, NEW s \in Schedules, NEW due \in Nat, StartSchedule(s, due),
           now < When[s].start => due = When[s].start
    PROVE  \A t \in timers' : When[t.schedule].start <= t.at
<1>1. now \in Nat /\ timers \in SUBSET Timers /\ When[s].start \in Nat
  BY SchedulerAssumption, WhenTyped DEF NInv, SInv, TypeOK
<1>2. CASE Over(s)
  BY <1>2 DEF StartSchedule, NInv, TimersNotEarly
<1>3. CASE ~Over(s)
  <2> DEFINE at == now + TimerDelay(due - now)
             new == Timer(s, "first", at, TRUE)
  <2>1. at \in Nat /\ When[s].start <= at
    <3>1. CASE now < When[s].start
      <4>1. due - now \in 1 .. MaxDelay
        BY <1>1, <3>1, SchedulerAssumption DEF StartsReachable
      <4> QED
        BY <1>1, <3>1, <4>1 DEF TimerDelay
    <3>2. CASE ~(now < When[s].start)
      BY <1>1, <3>2, TimerDelayBounds
    <3> QED
      BY <3>1, <3>2
  <2>2. timers' = Store(s, "first", at, timers) /\ new.schedule = s /\ new.at = at
    BY <1>3 DEF StartSchedule, Timer
  <2> HIDE DEF at, new
  <2>3. \A t \in timers' :
           t = new \/ \E u \in timers : t.schedule = u.schedule /\ t.kind = u.kind /\ t.at = u.at
    BY <1>1, <2>1, <2>2, StoreEffect DEF new
  <2>4. When[new.schedule].start <= new.at
    BY <2>1, <2>2
  <2>5. ASSUME NEW t, NEW u \in timers, t.schedule = u.schedule, t.at = u.at
        PROVE  When[t.schedule].start <= t.at
    BY <2>5 DEF NInv, TimersNotEarly
  <2> QED
    BY <2>3, <2>4, <2>5
<1> QED
  BY <1>2, <1>3

(* A timer that fires is not early, so neither is what it does. *)
LEMMA QueueNextNotEarly ==
    ASSUME NInv, NEW s \in Schedules, NEW ts \in SUBSET Timers, QueueNext(s, ts),
           When[s].start <= now, \A t \in ts : When[t.schedule].start <= t.at
    PROVE  TimersNotEarly' /\ NotBeforeStart'
<1> DEFINE retry == Timer(s, "retry", now + RetryDelay, FALSE)
<1>1. now \in Nat /\ RetryDelay \in Nat /\ When[s].start \in Nat
  BY SchedulerAssumption, WhenTyped DEF NInv, SInv, TypeOK
<1>2. retry.schedule = s /\ retry.at = now + RetryDelay
  BY DEF Timer
<1>3. /\ \A t \in timers' : t \in ts \/ t = retry
      /\ \A k \in Schedules : \A time \in posts'[k] : time \in posts[k] \/ (k = s /\ time = now)
  BY QueueNextEffect DEF NInv, SInv
<1> HIDE DEF retry
<1>4. TimersNotEarly'
  BY <1>1, <1>2, <1>3 DEF TimersNotEarly
<1>5. NotBeforeStart'
  BY <1>1, <1>3 DEF NInv, NotBeforeStart
<1> QED
  BY <1>4, <1>5

LEMMA FirstInstanceNotEarly ==
    ASSUME NInv, NEW t \in timers, FirstInstance(t)
    PROVE  TimersNotEarly' /\ NotBeforeStart'
<1> DEFINE s    == t.schedule
           rest == timers \ {t}
           at   == now + TimerDelay(When[s].every)
           ts   == IF OneOff(s) THEN rest ELSE Store(s, "interval", at, rest)
           new  == Timer(s, "interval", at, TRUE)
<1>1. /\ t \in Timers /\ now \in Nat /\ rest \in SUBSET Timers
      /\ t.at <= now /\ When[s].start <= t.at
      /\ \A u \in rest : When[u.schedule].start <= u.at
      /\ QueueNext(s, ts)
  BY SchedulerAssumption DEF NInv, SInv, TypeOK, TimersNotEarly, FirstInstance
<1>2. /\ s \in Schedules /\ When[s].every \in Nat
      /\ When[s].start \in Nat /\ When[s].start <= now
  BY <1>1, WhenTyped DEF Timers
<1>3. at \in Nat /\ now <= at /\ new.schedule = s /\ new.at = at
  BY <1>1, <1>2, TimerDelayBounds DEF Timer
<1> HIDE DEF s, rest, at, new
<1>4. CASE OneOff(s)
  <2>1. ts = rest
    BY <1>4
  <2> HIDE DEF ts
  <2> QED
    BY <1>1, <1>2, <2>1, QueueNextNotEarly
<1>5. CASE ~OneOff(s)
  <2>1. ts = Store(s, "interval", at, rest)
    BY <1>5
  <2> HIDE DEF ts
  <2>2. /\ ts \in SUBSET Timers
        /\ \A u \in ts : 
              u = new \/ \E v \in rest : u.schedule = v.schedule /\ u.kind = v.kind /\ u.at = v.at
    BY <1>1, <1>2, <1>3, <2>1, StoreEffect DEF new
  <2>3. \A u \in ts : When[u.schedule].start <= u.at
    <3>1. When[new.schedule].start <= new.at
      BY <1>1, <1>2, <1>3
    <3> QED
      BY <1>1, <2>2, <3>1
  <2> QED
    BY <1>1, <1>2, <2>2, <2>3, QueueNextNotEarly
<1> QED
  BY <1>4, <1>5

LEMMA EveryIntervalNotEarly ==
    ASSUME NInv, NEW t \in timers, EveryInterval(t)
    PROVE  TimersNotEarly' /\ NotBeforeStart'
<1> DEFINE s     == t.schedule
           moved == [t EXCEPT !.at = now + TimerDelay(When[s].every)]
           again == (timers \ {t}) \cup {moved}
<1>1. /\ t \in Timers /\ now \in Nat /\ timers \in SUBSET Timers
      /\ t.at <= now /\ When[s].start <= t.at
      /\ IF Over(s) THEN timers' = Cleared(s, {"interval"}, again) /\ UNCHANGED <<posts, queue, lost>>
         ELSE QueueNext(s, again)
  BY SchedulerAssumption DEF NInv, SInv, TypeOK, TimersNotEarly, EveryInterval
<1>2. /\ s \in Schedules /\ When[s].every \in Nat
      /\ When[s].start \in Nat /\ When[s].start <= now
  BY <1>1, WhenTyped DEF Timers
<1>3. now + TimerDelay(When[s].every) \in Nat /\ now <= now + TimerDelay(When[s].every)
  BY <1>1, <1>2, TimerDelayBounds
<1>4. moved \in Timers /\ moved.schedule = s /\ now <= moved.at /\ moved.at \in Nat
  BY <1>1, <1>3 DEF Timers
<1> HIDE DEF s, moved
<1>5. /\ again \in SUBSET Timers
      /\ \A u \in again : When[u.schedule].start <= u.at
  BY <1>1, <1>2, <1>4 DEF NInv, TimersNotEarly
<1> HIDE DEF again
<1>6. CASE ~Over(s)
  BY <1>1, <1>2, <1>5, <1>6, QueueNextNotEarly
<1>7. CASE Over(s)
  BY <1>1, <1>5, <1>7 DEF Cleared, TimersNotEarly, NInv, NotBeforeStart
<1> QED
  BY <1>6, <1>7

LEMMA RetryNotEarly ==
    ASSUME NInv, NEW t \in timers, Retry(t)
    PROVE  TimersNotEarly' /\ NotBeforeStart'
<1> DEFINE s    == t.schedule
           rest == timers \ {t}
<1>1. /\ t \in Timers /\ now \in Nat /\ rest \in SUBSET Timers
      /\ t.at <= now /\ When[s].start <= t.at
      /\ \A u \in rest : When[u.schedule].start <= u.at
      /\ QueueNext(s, rest)
  BY SchedulerAssumption DEF NInv, SInv, TypeOK, TimersNotEarly, Retry
<1>2. s \in Schedules /\ When[s].start <= now
  BY <1>1, WhenTyped DEF Timers
<1> HIDE DEF s, rest
<1> QED
  BY <1>1, <1>2, QueueNextNotEarly

LEMMA StepNInv ==
    ASSUME StartsReachable, NInv, [Next]_vars
    PROVE  NInv'
<1>1. SInv'
  BY StepSInv DEF NInv
<1>2. ASSUME NEW s \in Schedules, ScheduleJob(s) PROVE TimersNotEarly' /\ NotBeforeStart'
  <2> DEFINE due == NextSchedule(now, When[s].start, When[s].every, When[s].end)
  <2>1. now \in Nat \ {0}
    BY SchedulerAssumption DEF NInv, SInv, TypeOK
  <2>2. due \in Nat /\ (now < When[s].start => due = When[s].start)
    BY <2>1, NextScheduleInBounds
  <2>3. /\ IF started THEN StartSchedule(s, due) ELSE UNCHANGED timers
        /\ posts' = posts
    BY <1>2 DEF ScheduleJob
  <2> HIDE DEF due
  <2> QED
    BY <2>2, <2>3, StartScheduleNotEarly DEF NInv, TimersNotEarly, NotBeforeStart
<1>3. ASSUME NEW s \in Schedules, Visit(s) PROVE TimersNotEarly' /\ NotBeforeStart'
  <2>1. /\ next[s] \in Nat
        /\ now < When[s].start => next[s] = When[s].start
    BY <1>3 DEF Visit, NInv, SInv, TypeOK, NextInBounds, VisitsScheduled
  <2>2. /\ IF s \in Startable THEN StartSchedule(s, next[s]) ELSE UNCHANGED timers
        /\ posts' = posts
    BY <1>3 DEF Visit
  <2> QED
    BY <2>1, <2>2, StartScheduleNotEarly DEF NInv, TimersNotEarly, NotBeforeStart
<1>4. ASSUME Start \/ Stop \/ Tick \/ UNCHANGED vars PROVE TimersNotEarly' /\ NotBeforeStart'
  <2>1. timers' \subseteq timers /\ posts' = posts
    BY <1>4 DEF Start, Stop, Tick, vars
  <2> QED
    BY <2>1 DEF NInv, TimersNotEarly, NotBeforeStart
<1>5. ASSUME NEW s \in Schedules, NEW time \in queue[s], PickUpJob(s, time)
      PROVE  TimersNotEarly' /\ NotBeforeStart'
  BY <1>5 DEF PickUpJob, NInv, TimersNotEarly, NotBeforeStart
<1>6. ASSUME NEW t \in timers, FirstInstance(t) \/ EveryInterval(t) \/ Retry(t)
      PROVE  TimersNotEarly' /\ NotBeforeStart'
  BY <1>6, FirstInstanceNotEarly, EveryIntervalNotEarly, RetryNotEarly
<1>8. ASSUME NEW rest \in SUBSET Schedules, VisitFails(rest)
      PROVE  TimersNotEarly' /\ NotBeforeStart'
  BY <1>8 DEF VisitFails, NInv, TimersNotEarly, NotBeforeStart
<1>7. TimersNotEarly' /\ NotBeforeStart'
  BY <1>2, <1>3, <1>4, <1>5, <1>6, <1>8 DEF Next
<1> QED
  BY <1>1, <1>7 DEF NInv

(* README.md:296 "If the property start is specified, the job will run once at the
   specified time": a start within the reach of a timer, 2^31 - 1 ms, is kept. *)
THEOREM NothingBeforeStart ==
    ASSUME StartsReachable
    PROVE  Spec => []NotBeforeStart
<1>1. Init => NInv
  BY InitSInv DEF Init, NInv, TimersNotEarly, NotBeforeStart
<1>2. NInv /\ [Next]_vars => NInv'
  BY StepNInv
<1>3. NInv => NotBeforeStart
  BY DEF NInv
<1> QED
  BY <1>1, <1>2, <1>3, PTL DEF Spec

-----------------------------------------------------------------------------
(***************************************************************************)
(* How often: each start() gives a schedule one visit, a visit one timer,  *)
(* and a timer that fires is used up by what it queues or sets.            *)
(***************************************************************************)

TimersIn(s, ts) == { t \in ts : t.schedule = s }

(* Visits, timers and posts of a one-off job are at most the calls of start(), but
   for the posts whose answers were lost. *)
OneOffCounted(s) ==
    OneOff(s) =>
        /\ \A t \in TimersIn(s, timers) : t.kind # "interval"
        /\ IsFiniteSet(TimersIn(s, timers))
        /\ Cardinality(posts[s]) + Cardinality(TimersIn(s, timers)) + visits[s] <= starts + lost[s]

Unvisited(s) == starts = 0 \/ s \notin scheduled \/ visits[s] > 0

(* A recurring job that was started once, and is not retried, has one timer at a
   time, which is an interval after all that was queued. *)
OnceStarted(s) ==
    starts <= 1 /\ ~OneOff(s) /\ When[s].every <= RetryAbove =>
        /\ Unvisited(s) => TimersIn(s, timers) = {} /\ posts[s] = {}
        /\ \A t, u \in TimersIn(s, timers) : t = u
        /\ \A t \in TimersIn(s, timers) :
              /\ t.kind # "retry"
              /\ t.kind = "first" => posts[s] = {}
              /\ t.kind = "interval" => \A p \in posts[s] : p + When[s].every <= t.at
        /\ \A p \in posts[s] : p <= now
        /\ \A p, q \in posts[s] : p < q => p + When[s].every <= q
        /\ queue[s] \subseteq posts[s]

BInv ==
    /\ SInv
    /\ started => starts > 0
    /\ \A s \in Schedules :
          /\ s \notin scheduled => TimersIn(s, timers) = {} /\ posts[s] = {}
          /\ OneOffCounted(s)
          /\ OnceStarted(s)

(* All that these say of a schedule, when other schedules have their turn. *)
Untouched(s) ==
    /\ TimersIn(s, timers)' = TimersIn(s, timers)
    /\ posts'[s] = posts[s] /\ queue'[s] = queue[s]
    /\ visits'[s] = visits[s] /\ lost'[s] = lost[s] /\ (s \in scheduled' <=> s \in scheduled)

LEMMA UntouchedKept ==
    ASSUME BInv, NEW s \in Schedules, Untouched(s), now' = now, starts' = starts
    PROVE  /\ s \notin scheduled' => TimersIn(s, timers)' = {} /\ posts'[s] = {}
           /\ OneOffCounted(s)' /\ OnceStarted(s)'
BY DEF BInv, Untouched, OneOffCounted, OnceStarted, Unvisited, OneOff

(* us are the timers ts with one more of the schedule. *)
OneMore(s, kind, at, ts, us) ==
    /\ \A k \in Schedules : k # s => TimersIn(k, us) = TimersIn(k, ts)
    /\ \A t \in TimersIn(s, us) : t.kind = kind \/ \E u \in TimersIn(s, ts) : t.kind = u.kind
    /\ TimersIn(s, ts) = {} => TimersIn(s, us) = {Timer(s, kind, at, TRUE)}
    /\ IsFiniteSet(TimersIn(s, ts)) =>
          /\ IsFiniteSet(TimersIn(s, us))
          /\ Cardinality(TimersIn(s, us)) <= Cardinality(TimersIn(s, ts)) + 1

(* Setting a timer adds one to the schedule. *)
LEMMA StoreAddsOne ==
    ASSUME NEW s \in Schedules, NEW kind \in {"first", "interval", "retry"}, NEW at \in Nat,
           NEW ts \in SUBSET Timers
    PROVE  OneMore(s, kind, at, ts, Store(s, kind, at, ts))
<1> DEFINE new == Timer(s, kind, at, TRUE)
           forget(t) == IF t.schedule = s /\ t.kind = kind THEN [t EXCEPT !.stored = FALSE] ELSE t
           mine  == TimersIn(s, ts)
           kept  == { forget(t) : t \in mine }
<1>1. new.schedule = s /\ new.kind = kind
  BY DEF Timer
<1>2. \A t \in ts : forget(t).schedule = t.schedule /\ forget(t).kind = t.kind
  BY DEF Timers
<1>3. \A t \in ts : t.schedule # s => forget(t) = t
  OBVIOUS
<1>4. Store(s, kind, at, ts) = { forget(t) : t \in ts } \cup {new}
  BY DEF Store
<1> HIDE DEF forget, new
<1>5. \A k \in Schedules : k # s => TimersIn(k, Store(s, kind, at, ts)) = TimersIn(k, ts)
  BY <1>1, <1>2, <1>3, <1>4 DEF TimersIn
<1>6. TimersIn(s, Store(s, kind, at, ts)) = kept \cup {new}
  BY <1>1, <1>2, <1>4 DEF TimersIn
<1>7. ASSUME IsFiniteSet(mine)
      PROVE  IsFiniteSet(kept) /\ Cardinality(kept) <= Cardinality(mine)
  <2> DEFINE f == [t \in mine |-> forget(t)]
  <2>1. f \in Surjection(mine, kept)
    BY DEF Surjection
  <2> QED
    BY <1>7, <2>1, FS_Surjection
<1>8. \A t \in kept : \E u \in mine : t.kind = u.kind
  BY <1>2 DEF TimersIn
<1> HIDE DEF mine, kept
<1>9. ASSUME IsFiniteSet(mine)
      PROVE  /\ IsFiniteSet(kept \cup {new})
             /\ Cardinality(kept \cup {new}) <= Cardinality(mine) + 1
  <2>1. IsFiniteSet(kept) /\ Cardinality(kept) <= Cardinality(mine)
    BY <1>7, <1>9
  <2>2. Cardinality(kept) \in Nat /\ Cardinality(mine) \in Nat
    BY <1>9, <2>1, FS_CardinalityType
  <2>3. IsFiniteSet(kept \cup {new})
    BY <2>1, FS_AddElement
  <2>4. \/ Cardinality(kept \cup {new}) = Cardinality(kept)
        \/ Cardinality(kept \cup {new}) = Cardinality(kept) + 1
    BY <2>1, FS_AddElement
  <2> QED
    BY <2>1, <2>2, <2>3, <2>4
<1> QED
  BY <1>1, <1>5, <1>6, <1>8, <1>9 DEF mine, kept, new, OneMore

(* A timer that fires queues the job or leaves a retry, and no other schedule
   notices. *)
LEMMA QueueNextUses ==
    ASSUME TypeOK, NEW s \in Schedules, NEW ts \in SUBSET Timers, QueueNext(s, ts)
    PROVE  /\ \A k \in Schedules : k # s =>
                 /\ TimersIn(k, timers)' = TimersIn(k, ts)
                 /\ posts'[k] = posts[k] /\ queue'[k] = queue[k] /\ lost'[k] = lost[k]
           /\ \/ posts'[s] = posts[s] \cup {now} /\ queue'[s] = queue[s] \cup {now}
              \/ posts'[s] = posts[s] /\ queue'[s] = queue[s]
           /\ \/ TimersIn(s, timers)' = TimersIn(s, ts)
              \/ /\ TimersIn(s, timers)'
                       = TimersIn(s, ts) \cup {Timer(s, "retry", now + RetryDelay, FALSE)}
                 /\ OneOff(s) \/ When[s].every > RetryAbove
           /\ \/ /\ lost'[s] = lost[s]
                 /\ TimersIn(s, timers)' = TimersIn(s, ts) \/ posts'[s] = posts[s]
              \/ lost'[s] = lost[s] + 1
<1> DEFINE retry == Timer(s, "retry", now + RetryDelay, FALSE)
<1>1. retry.schedule = s
  BY DEF Timer
<1>2. /\ posts \in [Schedules -> SUBSET (1 .. MaxTime)]
      /\ queue \in [Schedules -> SUBSET (1 .. MaxTime)]
      /\ lost \in [Schedules -> 0 .. MaxLost]
  BY DEF TypeOK
<1>3. /\ timers' = ts \/ (timers' = ts \cup {retry} /\ (OneOff(s) \/ When[s].every > RetryAbove))
      /\ \/ /\ posts' = [posts EXCEPT ![s] = @ \cup {now}]
            /\ queue' = [queue EXCEPT ![s] = @ \cup {now}]
         \/ UNCHANGED <<posts, queue>>
      /\ \/ lost' = lost /\ (timers' = ts \/ posts' = posts)
         \/ lost' = [lost EXCEPT ![s] = @ + 1]
  BY DEF QueueNext, TryAgain, Queued
<1> HIDE DEF retry
<1>4. /\ \A k \in Schedules : k # s => TimersIn(k, timers)' = TimersIn(k, ts)
      /\ timers' = ts => TimersIn(s, timers)' = TimersIn(s, ts)
      /\ timers' = ts \cup {retry} => TimersIn(s, timers)' = TimersIn(s, ts) \cup {retry}
  BY <1>1, <1>3 DEF TimersIn
<1>5. /\ \A k \in Schedules : k # s =>
            posts'[k] = posts[k] /\ queue'[k] = queue[k] /\ lost'[k] = lost[k]
      /\ \/ posts'[s] = posts[s] \cup {now} /\ queue'[s] = queue[s] \cup {now}
         \/ posts'[s] = posts[s] /\ queue'[s] = queue[s]
      /\ lost'[s] = lost[s] \/ lost'[s] = lost[s] + 1
  BY <1>2, <1>3
<1>6. \/ lost'[s] = lost[s] /\ (timers' = ts \/ posts'[s] = posts[s])
      \/ lost'[s] = lost[s] + 1
  BY <1>2, <1>3
<1> QED
  BY <1>3, <1>4, <1>5, <1>6 DEF retry

LEMMA PostsCount ==
    ASSUME TypeOK, NEW s \in Schedules
    PROVE  /\ IsFiniteSet(posts[s]) /\ Cardinality(posts[s]) \in Nat
           /\ Cardinality(posts[s] \cup {now}) <= Cardinality(posts[s]) + 1
           /\ posts[s] = {} => Cardinality(posts[s]) = 0
<1>1. posts[s] \subseteq 1 .. MaxTime /\ MaxTime \in Int
  BY SchedulerAssumption DEF TypeOK
<1>2. IsFiniteSet(posts[s])
  <2>1. IsFiniteSet(1 .. MaxTime)
    BY <1>1, FS_Interval
  <2> QED
    BY <1>1, <2>1, FS_Subset
<1>3. Cardinality(posts[s]) \in Nat
  BY <1>2, FS_CardinalityType
<1>4. \/ Cardinality(posts[s] \cup {now}) = Cardinality(posts[s])
      \/ Cardinality(posts[s] \cup {now}) = Cardinality(posts[s]) + 1
  BY <1>2, FS_AddElement
<1>5. posts[s] = {} => Cardinality(posts[s]) = 0
  BY FS_EmptySet
<1> QED
  BY <1>2, <1>3, <1>4, <1>5

LEMMA LostTyped ==
    ASSUME TypeOK, NEW s \in Schedules
    PROVE  lost[s] \in Nat
<1>1. MaxLost \in Nat /\ lost[s] \in 0 .. MaxLost
  BY SchedulerAssumption DEF TypeOK
<1> QED
  BY <1>1

LEMMA InitBInv == Init => BInv
<1> SUFFICES ASSUME Init PROVE BInv
  OBVIOUS
<1>1. SInv /\ ~started /\ starts = 0
  BY InitSInv DEF Init
<1>2. ASSUME NEW s \in Schedules
      PROVE  /\ TimersIn(s, timers) = {} /\ posts[s] = {} /\ queue[s] = {} /\ visits[s] = 0
             /\ lost[s] = 0
  BY DEF Init, TimersIn
<1>3. ASSUME NEW s \in Schedules
      PROVE  /\ IsFiniteSet(TimersIn(s, timers)) /\ Cardinality(TimersIn(s, timers)) = 0
             /\ Cardinality(posts[s]) = 0
  BY <1>2, FS_EmptySet
<1>4. ASSUME NEW s \in Schedules
      PROVE  OneOffCounted(s)
  BY <1>1, <1>2, <1>3 DEF OneOffCounted
<1>5. ASSUME NEW s \in Schedules
      PROVE  OnceStarted(s)
  BY <1>2 DEF OnceStarted
<1> QED
  BY <1>1, <1>2, <1>4, <1>5 DEF BInv

(* A schedule that starts: the visit becomes a timer. *)
LEMMA StartScheduleCounts ==
    ASSUME BInv, NEW s \in Schedules, NEW due \in Nat, StartSchedule(s, due)
    PROVE  /\ \A k \in Schedules : k # s => TimersIn(k, timers)' = TimersIn(k, timers)
           /\ IsFiniteSet(TimersIn(s, timers)) =>
                 /\ IsFiniteSet(TimersIn(s, timers)')
                 /\ Cardinality(TimersIn(s, timers)') <= Cardinality(TimersIn(s, timers)) + 1
           /\ \A t \in TimersIn(s, timers)' :
                 t.kind = "first" \/ \E u \in TimersIn(s, timers) : t.kind = u.kind
           /\ TimersIn(s, timers) = {} =>
                 \A t, u \in TimersIn(s, timers)' : t = u /\ t.kind = "first"
<1>1. CASE Over(s)
  <2>1. timers' = timers
    BY <1>1 DEF StartSchedule
  <2>2. IsFiniteSet(TimersIn(s, timers)) => Cardinality(TimersIn(s, timers)) \in Nat
    BY FS_CardinalityType
  <2> QED
    BY <2>1, <2>2 DEF TimersIn
<1>2. CASE ~Over(s)
  <2> DEFINE at == now + TimerDelay(due - now)
  <2>1. now \in Nat /\ timers \in SUBSET Timers
    BY SchedulerAssumption DEF BInv, SInv, TypeOK
  <2>2. at \in Nat
    BY <2>1, TimerDelayBounds
  <2>3. timers' = Store(s, "first", at, timers)
    BY <1>2 DEF StartSchedule
  <2>4. Timer(s, "first", at, TRUE).kind = "first"
    BY DEF Timer
  <2> HIDE DEF at
  <2>0. "first" \in {"first", "interval", "retry"}
    OBVIOUS
  <2>5. OneMore(s, "first", at, timers, timers')
    BY <2>0, <2>1, <2>2, <2>3, StoreAddsOne
  <2>6. \A k \in Schedules : TimersIn(k, timers)' = TimersIn(k, timers')
    BY DEF TimersIn
  <2>7. TimersIn(s, timers)' = TimersIn(s, timers')
    BY <2>6
  <2>8. TimersIn(s, timers) = {} =>
           \A t, u \in TimersIn(s, timers)' : t = u /\ t.kind = "first"
    BY <2>4, <2>5, <2>7 DEF OneMore
  <2>9. /\ \A k \in Schedules : k # s => TimersIn(k, timers)' = TimersIn(k, timers)
        /\ \A t \in TimersIn(s, timers)' :
              t.kind = "first" \/ \E u \in TimersIn(s, timers) : t.kind = u.kind
    BY <2>5, <2>6, <2>7 DEF OneMore
  <2>10. IsFiniteSet(TimersIn(s, timers)) =>
            /\ IsFiniteSet(TimersIn(s, timers)')
            /\ Cardinality(TimersIn(s, timers)') <= Cardinality(TimersIn(s, timers)) + 1
    BY <2>5, <2>7 DEF OneMore
  <2> QED
    BY <2>8, <2>9, <2>10
<1> QED
  BY <1>1, <1>2

LEMMA ScheduleJobCounts ==
    ASSUME BInv, SInv', NEW s \in Schedules, ScheduleJob(s)
    PROVE  BInv'
<1> DEFINE due == NextSchedule(now, When[s].start, When[s].every, When[s].end)
<1>1. now \in Nat \ {0}
  BY SchedulerAssumption DEF BInv, SInv, TypeOK
<1>2. due \in Nat
  BY <1>1, NextScheduleInBounds
<1>3. /\ s \notin scheduled /\ scheduled' = scheduled \cup {s}
      /\ IF started THEN StartSchedule(s, due) ELSE UNCHANGED timers
      /\ UNCHANGED <<now, started, starts, visits, posts, queue, lost, skipped>>
  BY DEF ScheduleJob
<1> HIDE DEF due
<1>4. TimersIn(s, timers) = {} /\ posts[s] = {} /\ visits[s] = 0 /\ starts \in Nat
  <2>1. visits[s] \in Nat /\ starts \in Nat
    BY SchedulerAssumption DEF BInv, SInv, TypeOK
  <2> QED
    BY <1>3, <2>1 DEF BInv, SInv, VisitsScheduled
<1>5. /\ \A k \in Schedules : k # s => TimersIn(k, timers)' = TimersIn(k, timers)
      /\ \A t, u \in TimersIn(s, timers)' : t = u /\ t.kind = "first"
      /\ ~started => TimersIn(s, timers)' = {}
      /\ IsFiniteSet(TimersIn(s, timers)') /\ Cardinality(TimersIn(s, timers)') \in {0, 1}
      /\ ~started => Cardinality(TimersIn(s, timers)') = 0
  <2>1. CASE started
    <3>1. IsFiniteSet(TimersIn(s, timers)) /\ Cardinality(TimersIn(s, timers)) = 0
      BY <1>4, FS_EmptySet
    <3>2. IsFiniteSet(TimersIn(s, timers)') /\ Cardinality(TimersIn(s, timers)') <= 1
      BY <1>2, <1>3, <1>4, <2>1, <3>1, StartScheduleCounts
    <3>3. Cardinality(TimersIn(s, timers)') \in Nat
      BY <3>2, FS_CardinalityType
    <3> QED
      BY <1>2, <1>3, <1>4, <2>1, <3>2, <3>3, StartScheduleCounts
  <2>2. CASE ~started
    <3>1. \A k \in Schedules : TimersIn(k, timers)' = TimersIn(k, timers)
      BY <1>3, <2>2 DEF TimersIn
    <3> QED
      BY <1>4, <2>2, <3>1, FS_EmptySet
  <2> QED
    BY <2>1, <2>2
<1>6. ASSUME NEW k \in Schedules, k # s
      PROVE  /\ k \notin scheduled' => TimersIn(k, timers)' = {} /\ posts'[k] = {}
             /\ OneOffCounted(k)' /\ OnceStarted(k)'
  <2>1. Untouched(k)
    BY <1>3, <1>5, <1>6 DEF Untouched
  <2> QED
    BY <1>3, <2>1, UntouchedKept
<1>7. OneOffCounted(s)'
  <2>1. Cardinality(posts'[s]) = 0
    BY <1>3, <1>4, FS_EmptySet
  <2>2. Cardinality(TimersIn(s, timers)') <= starts
    BY <1>4, <1>5 DEF BInv
  <2>3. visits'[s] = 0 /\ starts' = starts /\ lost'[s] = lost[s] /\ lost[s] \in Nat
    BY <1>3, <1>4, LostTyped DEF BInv, SInv
  <2>4. Cardinality(TimersIn(s, timers)') \in Nat
    BY <1>5
  <2> QED
    BY <1>4, <1>5, <2>1, <2>2, <2>3, <2>4 DEF OneOffCounted
<1>8. OnceStarted(s)'
  <2>1. queue'[s] = {} \/ ~(starts <= 1 /\ ~OneOff(s) /\ When[s].every <= RetryAbove)
    BY <1>3, <1>4 DEF BInv, OnceStarted
  <2>2. Unvisited(s)' => ~started
    BY <1>3, <1>4 DEF BInv, Unvisited
  <2> QED
    BY <1>3, <1>4, <1>5, <2>1, <2>2 DEF OnceStarted, OneOff
<1> QED
  BY <1>3, <1>6, <1>7, <1>8 DEF BInv

LEMMA StartCounts ==
    ASSUME BInv, SInv', Start
    PROVE  BInv'
<1>1. /\ starts' = starts + 1 /\ started' = TRUE /\ starts \in Nat
      /\ visits' = [s \in Schedules |-> IF s \in scheduled THEN visits[s] + 1 ELSE visits[s]]
      /\ UNCHANGED <<now, scheduled, next, timers, posts, queue, lost>>
  BY SchedulerAssumption DEF Start, BInv, SInv, TypeOK
<1>2. ASSUME NEW s \in Schedules
      PROVE  /\ s \notin scheduled' => TimersIn(s, timers)' = {} /\ posts'[s] = {}
             /\ OneOffCounted(s)' /\ OnceStarted(s)'
  <2>1. /\ TimersIn(s, timers)' = TimersIn(s, timers)
        /\ visits[s] \in Nat /\ visits'[s] \in Nat /\ visits'[s] <= visits[s] + 1
    BY <1>1, SchedulerAssumption DEF TimersIn, BInv, SInv, TypeOK
  <2>2. OneOffCounted(s)'
    <3>1. Cardinality(posts[s]) \in Nat
      BY PostsCount DEF BInv, SInv
    <3>2. IsFiniteSet(TimersIn(s, timers)) => Cardinality(TimersIn(s, timers)) \in Nat
      BY FS_CardinalityType
    <3>3. lost[s] \in Nat
      BY LostTyped DEF BInv, SInv
    <3> QED
      BY <1>1, <2>1, <3>1, <3>2, <3>3 DEF OneOffCounted, OneOff, BInv
  <2>3. OnceStarted(s)'
    <3>1. SUFFICES ASSUME starts' <= 1, ~OneOff(s), When[s].every <= RetryAbove
                   PROVE  OnceStarted(s)'
      BY DEF OnceStarted, OneOff
    <3>2. starts = 0
      BY <1>1, <3>1
    <3>3. TimersIn(s, timers) = {} /\ posts[s] = {} /\ queue[s] \subseteq posts[s]
      BY <3>1, <3>2 DEF BInv, OnceStarted, Unvisited
    <3> QED
      BY <1>1, <2>1, <3>3 DEF OnceStarted
  <2> QED
    BY <1>1, <2>1, <2>2, <2>3 DEF BInv
<1> QED
  BY <1>1, <1>2 DEF BInv

LEMMA VisitCounts ==
    ASSUME BInv, SInv', NEW s \in Schedules, Visit(s)
    PROVE  BInv'
<1>1. /\ visits[s] > 0 /\ visits' = [visits EXCEPT ![s] = @ - 1]
      /\ IF s \in Startable THEN StartSchedule(s, next[s]) ELSE UNCHANGED timers
      /\ skipped' = IF s \in Startable THEN skipped \ {s} ELSE skipped
      /\ UNCHANGED <<now, started, starts, scheduled, next, posts, queue, lost>>
  BY DEF Visit
<1>2. /\ visits[s] \in Nat /\ visits'[s] = visits[s] - 1 /\ starts \in Nat
      /\ \A k \in Schedules : k # s => visits'[k] = visits[k]
      /\ visits[s] <= starts /\ s \in scheduled /\ next[s] \in Nat
  BY <1>1, SchedulerAssumption DEF BInv, SInv, TypeOK, VisitsScheduled
<1>3. /\ \A k \in Schedules : k # s => TimersIn(k, timers)' = TimersIn(k, timers)
      /\ IsFiniteSet(TimersIn(s, timers)) =>
            /\ IsFiniteSet(TimersIn(s, timers)')
            /\ Cardinality(TimersIn(s, timers)') <= Cardinality(TimersIn(s, timers)) + 1
      /\ \A t \in TimersIn(s, timers)' :
            t.kind = "first" \/ \E u \in TimersIn(s, timers) : t.kind = u.kind
      /\ TimersIn(s, timers) = {} =>
            \A t, u \in TimersIn(s, timers)' : t = u /\ t.kind = "first"
  <2>1. CASE s \in Startable
    BY <1>1, <1>2, <2>1, StartScheduleCounts
  <2>2. CASE s \notin Startable
    <3>1. timers' = timers
      BY <1>1, <2>2
    <3>2. IsFiniteSet(TimersIn(s, timers)) => Cardinality(TimersIn(s, timers)) \in Nat
      BY FS_CardinalityType
    <3> QED
      BY <3>1, <3>2 DEF TimersIn
  <2> QED
    BY <2>1, <2>2
<1>4. ASSUME NEW k \in Schedules, k # s
      PROVE  /\ k \notin scheduled' => TimersIn(k, timers)' = {} /\ posts'[k] = {}
             /\ OneOffCounted(k)' /\ OnceStarted(k)'
  <2>1. Untouched(k)
    BY <1>1, <1>2, <1>3, <1>4 DEF Untouched
  <2> QED
    BY <1>1, <2>1, UntouchedKept
<1>5. OneOffCounted(s)'
  <2>1. SUFFICES ASSUME OneOff(s) PROVE OneOffCounted(s)'
    BY DEF OneOffCounted, OneOff
  <2>2. Cardinality(posts[s]) \in Nat
    BY PostsCount DEF BInv, SInv
  <2>3. /\ \A t \in TimersIn(s, timers) : t.kind # "interval"
        /\ IsFiniteSet(TimersIn(s, timers))
        /\ Cardinality(posts[s]) + Cardinality(TimersIn(s, timers)) + visits[s] <= starts + lost[s]
    BY <2>1 DEF BInv, OneOffCounted
  <2>4. Cardinality(TimersIn(s, timers)) \in Nat /\ Cardinality(TimersIn(s, timers)') \in Nat
    BY <1>3, <2>3, FS_CardinalityType
  <2>5. \A t \in TimersIn(s, timers)' : t.kind # "interval"
    BY <1>3, <2>3
  <2>6. Cardinality(posts'[s]) + Cardinality(TimersIn(s, timers)') + visits'[s] <= starts' + lost'[s]
    <3>1. posts' = posts /\ starts' = starts /\ lost' = lost /\ lost[s] \in Nat
      BY <1>1, LostTyped DEF BInv, SInv
    <3> QED
      BY <1>2, <1>3, <2>2, <2>3, <2>4, <3>1
  <2> QED
    BY <1>3, <2>3, <2>5, <2>6 DEF OneOffCounted
<1>6. OnceStarted(s)'
  <2>1. SUFFICES ASSUME starts <= 1, ~OneOff(s), When[s].every <= RetryAbove
                 PROVE  OnceStarted(s)'
    BY <1>1 DEF OnceStarted, OneOff
  <2>2. TimersIn(s, timers) = {} /\ posts[s] = {} /\ queue[s] \subseteq posts[s]
    BY <1>1, <2>1 DEF BInv, OnceStarted, Unvisited
  <2>3. ~Unvisited(s)'
    BY <1>1, <1>2, <2>1 DEF Unvisited
  <2> QED
    BY <1>1, <1>3, <2>2, <2>3 DEF OnceStarted
<1> QED
  BY <1>1, <1>2, <1>4, <1>5, <1>6 DEF BInv

LEMMA VisitFailsCounts ==
    ASSUME BInv, SInv', NEW rest \in SUBSET Schedules, VisitFails(rest)
    PROVE  BInv'
<1>1. /\ \A s \in rest : visits[s] > 0
      /\ visits' = [s \in Schedules |-> IF s \in rest THEN visits[s] - 1 ELSE visits[s]]
      /\ UNCHANGED <<now, started, starts, scheduled, next, timers, posts, queue, lost>>
  BY DEF VisitFails
<1>2. ASSUME NEW s \in Schedules
      PROVE  /\ s \notin scheduled' => TimersIn(s, timers)' = {} /\ posts'[s] = {}
             /\ OneOffCounted(s)' /\ OnceStarted(s)'
  <2>1. TimersIn(s, timers)' = TimersIn(s, timers)
    BY <1>1 DEF TimersIn
  <2>2. /\ visits[s] \in Nat /\ visits'[s] \in Nat /\ visits'[s] <= visits[s]
        /\ visits'[s] # visits[s] => visits[s] > 0
        /\ starts \in Nat /\ lost[s] \in Nat
    BY <1>1, LostTyped, SchedulerAssumption DEF BInv, SInv, TypeOK
  <2>3. OneOffCounted(s)'
    <3>1. Cardinality(posts[s]) \in Nat
      BY PostsCount DEF BInv, SInv
    <3>2. IsFiniteSet(TimersIn(s, timers)) => Cardinality(TimersIn(s, timers)) \in Nat
      BY FS_CardinalityType
    <3> QED
      BY <1>1, <2>1, <2>2, <3>1, <3>2 DEF OneOffCounted, OneOff, BInv
  <2>4. OnceStarted(s)'
    <3>1. Unvisited(s)' => Unvisited(s)
      BY <1>1, <2>2 DEF Unvisited
    <3> QED
      BY <1>1, <2>1, <3>1 DEF BInv, OnceStarted, OneOff
  <2> QED
    BY <1>1, <2>1, <2>3, <2>4 DEF BInv
<1> QED
  BY <1>1, <1>2 DEF BInv

LEMMA StopCounts ==
    ASSUME BInv, SInv', Stop
    PROVE  BInv'
<1>1. /\ timers' \subseteq timers /\ ~started'
      /\ UNCHANGED <<now, starts, scheduled, next, visits, posts, queue, lost>>
  BY DEF Stop, SInv, TypeOK
<1>2. ASSUME NEW s \in Schedules
      PROVE  /\ s \notin scheduled' => TimersIn(s, timers)' = {} /\ posts'[s] = {}
             /\ OneOffCounted(s)' /\ OnceStarted(s)'
  <2>1. TimersIn(s, timers)' \subseteq TimersIn(s, timers)
    BY <1>1 DEF TimersIn
  <2>2. OneOffCounted(s)'
    <3>1. SUFFICES ASSUME OneOff(s) PROVE OneOffCounted(s)'
      BY DEF OneOffCounted, OneOff
    <3>2. /\ \A t \in TimersIn(s, timers) : t.kind # "interval"
          /\ IsFiniteSet(TimersIn(s, timers))
          /\ Cardinality(posts[s]) + Cardinality(TimersIn(s, timers)) + visits[s] <= starts + lost[s]
      BY <3>1 DEF BInv, OneOffCounted
    <3>3. /\ IsFiniteSet(TimersIn(s, timers)')
          /\ Cardinality(TimersIn(s, timers)') <= Cardinality(TimersIn(s, timers))
      BY <2>1, <3>2, FS_Subset
    <3>4. /\ Cardinality(TimersIn(s, timers)') \in Nat /\ Cardinality(TimersIn(s, timers)) \in Nat
          /\ Cardinality(posts[s]) \in Nat /\ visits[s] \in Nat /\ starts \in Nat
          /\ lost[s] \in Nat
      <4>1. TypeOK /\ MaxStarts \in Nat
        BY SchedulerAssumption DEF BInv, SInv
      <4>2. visits[s] \in Nat /\ starts \in Nat
        BY <4>1 DEF TypeOK
      <4> QED
        BY <3>2, <3>3, <4>1, <4>2, FS_CardinalityType, PostsCount, LostTyped
    <3>5. Cardinality(posts'[s]) + Cardinality(TimersIn(s, timers)') + visits'[s] <= starts' + lost'[s]
      <4>1. posts' = posts /\ visits' = visits /\ starts' = starts /\ lost' = lost
        BY <1>1
      <4> QED
        BY <3>2, <3>3, <3>4, <4>1
    <3> QED
      BY <2>1, <3>2, <3>3, <3>5 DEF OneOffCounted
  <2>3. OnceStarted(s)'
    BY <1>1, <2>1 DEF BInv, OnceStarted, Unvisited, OneOff
  <2> QED
    BY <1>1, <2>1, <2>2, <2>3 DEF BInv
<1> QED
  BY <1>1, <1>2 DEF BInv

(* A one-off timer that fires is used up. *)
LEMMA OneOffUses ==
    ASSUME BInv, NEW s \in Schedules, OneOff(s), NEW ts \in SUBSET Timers, QueueNext(s, ts),
           UNCHANGED <<starts, visits>>,
           NEW t \in TimersIn(s, timers), TimersIn(s, ts) = TimersIn(s, timers) \ {t}
    PROVE  OneOffCounted(s)'
<1> DEFINE mine  == TimersIn(s, timers)
           rest  == TimersIn(s, ts)
           retry == Timer(s, "retry", now + RetryDelay, FALSE)
           after == TimersIn(s, timers)'
<1>1. /\ \A u \in mine : u.kind # "interval"
      /\ IsFiniteSet(mine)
      /\ Cardinality(posts[s]) + Cardinality(mine) + visits[s] <= starts + lost[s]
  BY DEF BInv, OneOffCounted
<1>2. /\ Cardinality(posts[s]) \in Nat /\ visits[s] \in Nat /\ starts \in Nat
      /\ Cardinality(posts[s] \cup {now}) <= Cardinality(posts[s]) + 1
      /\ Cardinality(posts[s] \cup {now}) \in Nat
  <2>1. /\ Cardinality(posts[s]) \in Nat /\ IsFiniteSet(posts[s])
        /\ Cardinality(posts[s] \cup {now}) <= Cardinality(posts[s]) + 1
    BY PostsCount DEF BInv, SInv
  <2>2. Cardinality(posts[s] \cup {now}) \in Nat
    BY <2>1, FS_AddElement, FS_CardinalityType
  <2> QED
    BY <2>1, <2>2, SchedulerAssumption DEF BInv, SInv, TypeOK
<1>3. retry.kind = "retry"
  BY DEF Timer
<1>4. TypeOK
  BY DEF BInv, SInv
<1>5. /\ after = rest \/ after = rest \cup {retry}
      /\ posts'[s] = posts[s] \cup {now} \/ posts'[s] = posts[s]
      /\ \/ lost'[s] = lost[s] /\ (after = rest \/ posts'[s] = posts[s])
         \/ lost'[s] = lost[s] + 1
      /\ lost[s] \in Nat
  <2>1. \/ TimersIn(s, timers)' = TimersIn(s, ts)
        \/ TimersIn(s, timers)'
              = TimersIn(s, ts) \cup {Timer(s, "retry", now + RetryDelay, FALSE)}
    BY <1>4, QueueNextUses
  <2>2. posts'[s] = posts[s] \cup {now} \/ posts'[s] = posts[s]
    BY <1>4, QueueNextUses
  <2>3. \/ lost'[s] = lost[s] /\ (TimersIn(s, timers)' = TimersIn(s, ts) \/ posts'[s] = posts[s])
        \/ lost'[s] = lost[s] + 1
    BY <1>4, QueueNextUses
  <2> QED
    BY <1>4, <2>1, <2>2, <2>3, LostTyped
<1> HIDE DEF mine, retry, after
<1>6. /\ IsFiniteSet(rest) /\ Cardinality(rest) = Cardinality(mine) - 1
      /\ Cardinality(mine) \in Nat /\ Cardinality(rest) \in Nat
  BY <1>1, FS_RemoveElement, FS_CardinalityType DEF mine
<1>7. /\ IsFiniteSet(rest \cup {retry}) /\ Cardinality(rest \cup {retry}) \in Nat
      /\ Cardinality(rest \cup {retry}) <= Cardinality(rest) + 1
  <2>1. /\ IsFiniteSet(rest \cup {retry})
        /\ \/ Cardinality(rest \cup {retry}) = Cardinality(rest)
           \/ Cardinality(rest \cup {retry}) = Cardinality(rest) + 1
    BY <1>6, FS_AddElement
  <2> QED
    BY <1>6, <2>1
<1>8. \A u \in rest : u.kind # "interval"
  BY <1>1 DEF mine
<1> HIDE DEF rest
<1>9. Cardinality(posts'[s]) + Cardinality(after) + visits[s] <= starts + lost'[s]
  <2> DEFINE before == Cardinality(posts[s])
             less   == Cardinality(rest)
             posted == Cardinality(posts'[s])
             left   == Cardinality(after)
  <2>1. /\ posted \in Nat /\ left \in Nat /\ before \in Nat /\ less \in Nat
        /\ posted <= before + 1 /\ left <= less + 1
        /\ posts'[s] = posts[s] => posted = before
        /\ after = rest => left = less
        /\ before + less + 1 + visits[s] <= starts + lost[s]
    <3>1. posted \in Nat /\ posted <= before + 1 /\ before \in Nat
      <4>1. CASE posts'[s] = posts[s]
        BY <1>2, <4>1
      <4>2. CASE posts'[s] = posts[s] \cup {now}
        BY <1>2, <4>2
      <4> QED
        BY <1>5, <4>1, <4>2
    <3>2. left \in Nat /\ left <= less + 1 /\ less \in Nat
      <4>1. CASE after = rest
        BY <1>6, <4>1
      <4>2. CASE after = rest \cup {retry}
        BY <1>6, <1>7, <4>2
      <4> QED
        BY <1>5, <4>1, <4>2
    <3>3. before + less + 1 + visits[s] <= starts + lost[s]
      BY <1>1, <1>2, <1>5, <1>6
    <3> QED
      BY <3>1, <3>2, <3>3
  <2> HIDE DEF before, less, posted, left
  <2>2. \/ lost'[s] = lost[s] /\ posted + left <= before + less + 1
        \/ lost'[s] = lost[s] + 1 /\ posted + left <= before + less + 2
    BY <1>5, <2>1
  <2>3. posted + left + visits[s] <= starts + lost'[s]
    BY <1>2, <1>5, <2>1, <2>2
  <2> QED
    BY <2>3 DEF posted, left
<1>10. IsFiniteSet(after) /\ \A u \in after : u.kind # "interval"
  BY <1>3, <1>5, <1>6, <1>7, <1>8
<1> QED
  BY <1>9, <1>10 DEF after, OneOffCounted

(* An interval that fires finds its last post an interval ago. *)
LEMMA OnceStartedUses ==
    ASSUME BInv, NEW s \in Schedules, ~OneOff(s), NEW ts \in SUBSET Timers, QueueNext(s, ts),
           UNCHANGED <<now, starts, visits, scheduled>>,
           starts <= 1 /\ When[s].every <= RetryAbove =>
              /\ ~Unvisited(s)
              /\ \A t, u \in TimersIn(s, ts) : t = u
              /\ \A t \in TimersIn(s, ts) : t.kind = "interval" /\ t.at = now + When[s].every
              /\ \A p \in posts[s] : p + When[s].every <= now
    PROVE  OnceStarted(s)'
<1>1. SUFFICES ASSUME starts <= 1, When[s].every <= RetryAbove PROVE OnceStarted(s)'
  BY DEF OnceStarted
<1>2. /\ \A p \in posts[s] : p <= now /\ p + When[s].every <= now
      /\ \A p, q \in posts[s] : p < q => p + When[s].every <= q
      /\ queue[s] \subseteq posts[s]
  BY <1>1 DEF BInv, OnceStarted
<1>3. /\ TypeOK /\ now \in Nat /\ When[s].every \in Nat /\ RetryAbove \in Nat
      /\ posts[s] \subseteq Nat
  BY WhenTyped, SchedulerAssumption DEF BInv, SInv, TypeOK
<1>4. /\ TimersIn(s, timers)' = TimersIn(s, ts)
      /\ \/ posts'[s] = posts[s] \cup {now} /\ queue'[s] = queue[s] \cup {now}
         \/ posts'[s] = posts[s] /\ queue'[s] = queue[s]
  <2>1. ~(OneOff(s) \/ When[s].every > RetryAbove)
    BY <1>1, <1>3
  <2> QED
    BY <1>3, <2>1, QueueNextUses
<1>5. \A p \in posts'[s] : p \in Nat /\ p <= now
  BY <1>2, <1>3, <1>4
<1>6. \A p, q \in posts'[s] : p < q => p + When[s].every <= q
  <2>1. ASSUME NEW p \in posts'[s], NEW q \in posts'[s], p < q
        PROVE  p + When[s].every <= q
    <3>1. p \in Nat /\ q \in Nat /\ q <= now /\ p # now
      BY <1>3, <1>5, <2>1
    <3>2. p \in posts[s] /\ (q = now \/ q \in posts[s])
      BY <1>4, <3>1
    <3> QED
      BY <1>2, <2>1, <3>2
  <2> QED
    BY <2>1
<1>7. queue'[s] \subseteq posts'[s]
  BY <1>2, <1>4
<1>8. \A t \in TimersIn(s, timers)' :
         /\ t.kind = "interval"
         /\ \A p \in posts'[s] : p + When[s].every <= t.at
  BY <1>1, <1>3, <1>4, <1>5
<1>9. ~Unvisited(s)' /\ now' = now
  BY <1>1 DEF Unvisited
<1> QED
  BY <1>1, <1>4, <1>5, <1>6, <1>7, <1>8, <1>9 DEF OnceStarted

LEMMA QueueNextCounts ==
    ASSUME BInv, SInv', NEW s \in Schedules, NEW ts \in SUBSET Timers, QueueNext(s, ts),
           UNCHANGED <<now, started, starts, scheduled, next, visits, skipped>>,
           s \in scheduled,
           \A k \in Schedules : k # s => TimersIn(k, ts) = TimersIn(k, timers),
           OneOff(s) => OneOffCounted(s)',
           ~OneOff(s) => OnceStarted(s)'
    PROVE  BInv'
<1>1. ASSUME NEW k \in Schedules, k # s
      PROVE  /\ k \notin scheduled' => TimersIn(k, timers)' = {} /\ posts'[k] = {}
             /\ OneOffCounted(k)' /\ OnceStarted(k)'
  <2>1. TypeOK
    BY DEF BInv, SInv
  <2>2. Untouched(k)
    BY <1>1, <2>1, QueueNextUses DEF Untouched
  <2> QED
    BY <2>2, UntouchedKept
<1>2. OneOffCounted(s)' /\ OnceStarted(s)'
  BY DEF OneOffCounted, OnceStarted, OneOff
<1> QED
  BY <1>1, <1>2 DEF BInv

LEMMA FirstInstanceCounts ==
    ASSUME BInv, SInv', NEW t \in timers, FirstInstance(t)
    PROVE  BInv'
<1> DEFINE s    == t.schedule
           rest == timers \ {t}
           at   == now + TimerDelay(When[s].every)
           ts   == IF OneOff(s) THEN rest ELSE Store(s, "interval", at, rest)
<1>1. /\ t \in Timers /\ s \in Schedules /\ now \in Nat /\ rest \in SUBSET Timers
      /\ t.kind = "first" /\ t \in TimersIn(s, timers)
      /\ QueueNext(s, ts) /\ UNCHANGED <<now, started, starts, scheduled, next, visits, skipped>>
  BY SchedulerAssumption DEF BInv, SInv, TypeOK, Timers, FirstInstance, TimersIn
<1>2. at \in Nat
  BY <1>1, WhenTyped, TimerDelayBounds
<1>3. s \in scheduled /\ s \in Schedules
  BY <1>1 DEF BInv
<1>4. /\ \A k \in Schedules : k # s => TimersIn(k, rest) = TimersIn(k, timers)
      /\ TimersIn(s, rest) = TimersIn(s, timers) \ {t}
  BY <1>1 DEF TimersIn
<1>5. starts <= 1 /\ ~OneOff(s) /\ When[s].every <= RetryAbove =>
         /\ ~Unvisited(s) /\ posts[s] = {} /\ TimersIn(s, rest) = {}
         /\ at = now + When[s].every
  <2>1. SUFFICES ASSUME starts <= 1, ~OneOff(s), When[s].every <= RetryAbove
                 PROVE  /\ ~Unvisited(s) /\ posts[s] = {} /\ TimersIn(s, rest) = {}
                        /\ at = now + When[s].every
    OBVIOUS
  <2>2. When[s].every \in 1 .. MaxDelay
    BY <1>1, <2>1, WhenTyped, SchedulerAssumption DEF OneOff
  <2>3. at = now + When[s].every
    BY <2>2 DEF TimerDelay
  <2>4. OnceStarted(s) /\ t \in TimersIn(s, timers)
    BY <1>1 DEF BInv
  <2> HIDE DEF s, rest, at
  <2>5. ~Unvisited(s)
    BY <2>1, <2>4 DEF OnceStarted
  <2>6. posts[s] = {}
    BY <1>1, <2>1, <2>4 DEF OnceStarted
  <2>7. \A u \in TimersIn(s, timers) : u = t
    BY <2>1, <2>4 DEF OnceStarted
  <2> QED
    BY <1>4, <2>3, <2>5, <2>6, <2>7
<1> HIDE DEF s, rest, at
<1>6. CASE OneOff(s)
  <2>1. ts = rest
    BY <1>6
  <2>2. OneOffCounted(s)'
    BY <1>1, <1>4, <1>6, <2>1, OneOffUses
  <2> HIDE DEF ts
  <2> QED
    BY <1>1, <1>3, <1>4, <1>6, <2>1, <2>2, QueueNextCounts
<1>7. CASE ~OneOff(s)
  <2>1. ts = Store(s, "interval", at, rest)
    BY <1>7
  <2> HIDE DEF ts
  <2>2. "interval" \in {"first", "interval", "retry"}
    OBVIOUS
  <2>3. OneMore(s, "interval", at, rest, ts)
    BY <1>1, <1>2, <2>1, <2>2, StoreAddsOne
  <2>4. ts \in SUBSET Timers
    BY <1>1, <1>2, <2>1, <2>2, StoreEffect
  <2>5. /\ Timer(s, "interval", at, TRUE).kind = "interval"
        /\ Timer(s, "interval", at, TRUE).at = at
    BY DEF Timer
  <2>6. OnceStarted(s)'
    <3>1. starts <= 1 /\ When[s].every <= RetryAbove =>
             /\ ~Unvisited(s)
             /\ TimersIn(s, ts) = {Timer(s, "interval", at, TRUE)}
             /\ posts[s] = {} /\ at = now + When[s].every
      BY <1>5, <1>7, <2>3 DEF OneMore
    <3> QED
      BY <1>1, <1>3, <1>7, <2>4, <2>5, <3>1, OnceStartedUses
  <2>7. \A k \in Schedules : k # s => TimersIn(k, ts) = TimersIn(k, timers)
    BY <1>4, <2>3 DEF OneMore
  <2> QED
    BY <1>1, <1>3, <1>7, <2>4, <2>6, <2>7, QueueNextCounts
<1> QED
  BY <1>6, <1>7

LEMMA EveryIntervalCounts ==
    ASSUME BInv, SInv', NEW t \in timers, EveryInterval(t)
    PROVE  BInv'
<1> DEFINE s     == t.schedule
           rest  == timers \ {t}
           at    == now + TimerDelay(When[s].every)
           moved == [t EXCEPT !.at = at]
           again == rest \cup {moved}
<1>1. /\ t \in Timers /\ s \in Schedules /\ now \in Nat /\ rest \in SUBSET Timers
      /\ t.kind = "interval" /\ t \in TimersIn(s, timers) /\ t.at = now
      /\ UNCHANGED <<now, started, starts, scheduled, next, visits, skipped>>
  <2>1. /\ TypeOK /\ TimersAhead /\ t.kind = "interval" /\ t.at <= now
        /\ UNCHANGED <<now, started, starts, scheduled, next, visits, skipped>>
    BY DEF BInv, SInv, EveryInterval
  <2>2. /\ t \in Timers /\ s \in Schedules /\ now \in Nat /\ t.at \in Nat
        /\ rest \in SUBSET Timers /\ t \in TimersIn(s, timers)
    BY <2>1, SchedulerAssumption DEF TypeOK, Timers, TimersIn
  <2>3. now <= t.at
    BY <2>1 DEF TimersAhead
  <2> QED
    BY <2>1, <2>2, <2>3
<1>2. at \in Nat
  BY <1>1, WhenTyped, TimerDelayBounds
<1>3. moved \in Timers /\ moved.schedule = s /\ moved.kind = "interval" /\ moved.at = at
  BY <1>1, <1>2 DEF Timers
<1>4. IF Over(s)
      THEN timers' = Cleared(s, {"interval"}, again) /\ UNCHANGED <<posts, queue, lost>>
      ELSE QueueNext(s, again)
  BY DEF EveryInterval
<1>5. ~OneOff(s)
  BY <1>1 DEF BInv, OneOffCounted
<1>6. s \in scheduled
  BY <1>1 DEF BInv
<1>7. /\ \A k \in Schedules : k # s => TimersIn(k, again) = TimersIn(k, timers)
      /\ TimersIn(s, again) = (TimersIn(s, timers) \ {t}) \cup {moved}
  BY <1>1, <1>3 DEF TimersIn
<1> HIDE DEF moved
<1>8. starts <= 1 /\ When[s].every <= RetryAbove =>
         /\ ~Unvisited(s) /\ TimersIn(s, again) = {moved}
         /\ moved.at = now + When[s].every
         /\ \A p \in posts[s] : p + When[s].every <= now
  <2>1. SUFFICES ASSUME starts <= 1, When[s].every <= RetryAbove
                 PROVE  /\ ~Unvisited(s) /\ TimersIn(s, again) = {moved}
                        /\ moved.at = now + When[s].every
                        /\ \A p \in posts[s] : p + When[s].every <= now
    OBVIOUS
  <2>2. When[s].every \in 1 .. MaxDelay
    BY <1>1, <1>5, <2>1, WhenTyped, SchedulerAssumption DEF OneOff
  <2>3. moved.at = now + When[s].every
    BY <1>3, <2>2 DEF TimerDelay
  <2>4. OnceStarted(s) /\ t \in TimersIn(s, timers)
    BY <1>1 DEF BInv
  <2> HIDE DEF s, rest, at, again
  <2>5. ~Unvisited(s)
    BY <1>5, <2>1, <2>4 DEF OnceStarted
  <2>6. \A p \in posts[s] : p + When[s].every <= now
    BY <1>1, <1>5, <2>1, <2>4 DEF OnceStarted
  <2>7. \A u \in TimersIn(s, timers) : u = t
    BY <1>5, <2>1, <2>4 DEF OnceStarted
  <2>8. TimersIn(s, again) = {moved}
    BY <1>7, <2>7
  <2> QED
    BY <2>3, <2>5, <2>6, <2>8
<1>9. CASE Over(s)
  <2>1. timers' = Cleared(s, {"interval"}, again) /\ UNCHANGED <<posts, queue, lost>>
    BY <1>4, <1>9
  <2>2. /\ \A k \in Schedules : k # s => TimersIn(k, timers)' = TimersIn(k, timers)
        /\ TimersIn(s, timers)' \subseteq TimersIn(s, again)
    BY <1>7, <2>1 DEF TimersIn, Cleared
  <2> HIDE DEF s, rest, at, again
  <2>3. ASSUME NEW k \in Schedules, k # s
        PROVE  /\ k \notin scheduled' => TimersIn(k, timers)' = {} /\ posts'[k] = {}
               /\ OneOffCounted(k)' /\ OnceStarted(k)'
    <3>1. Untouched(k)
      BY <1>1, <2>1, <2>2, <2>3 DEF Untouched
    <3> QED
      BY <1>1, <3>1, UntouchedKept
  <2>4. OnceStarted(s)'
    <3>1. SUFFICES ASSUME starts <= 1, When[s].every <= RetryAbove PROVE OnceStarted(s)'
      BY <1>1 DEF OnceStarted
    <3>2. ~Unvisited(s)'
      BY <1>1, <1>8, <3>1 DEF Unvisited
    <3>3. When[s].every \in Nat /\ posts[s] \subseteq Nat
      BY <1>1, WhenTyped, SchedulerAssumption DEF BInv, SInv, TypeOK
    <3>4. /\ \A p \in posts[s] : p <= now
          /\ \A p, q \in posts[s] : p < q => p + When[s].every <= q
          /\ queue[s] \subseteq posts[s]
      BY <1>1, <1>5, <3>1 DEF BInv, OnceStarted
    <3>5. \A u \in TimersIn(s, timers)' :
             /\ u = moved /\ u.kind = "interval"
             /\ \A p \in posts'[s] : p + When[s].every <= u.at
      BY <1>1, <1>3, <1>8, <2>1, <2>2, <3>1, <3>3
    <3> QED
      BY <1>1, <2>1, <3>2, <3>4, <3>5 DEF OnceStarted
  <2>5. OneOffCounted(s)'
    BY <1>5 DEF OneOffCounted, OneOff
  <2> QED
    BY <1>1, <1>6, <2>3, <2>4, <2>5 DEF BInv
<1>10. CASE ~Over(s)
  <2>1. QueueNext(s, again) /\ again \in SUBSET Timers
    BY <1>1, <1>3, <1>4, <1>10
  <2> HIDE DEF s, rest, at, again
  <2>2. OnceStarted(s)'
    <3>1. starts <= 1 /\ When[s].every <= RetryAbove =>
             /\ ~Unvisited(s)
             /\ \A u, v \in TimersIn(s, again) : u = v
             /\ \A u \in TimersIn(s, again) : u.kind = "interval" /\ u.at = now + When[s].every
             /\ \A p \in posts[s] : p + When[s].every <= now
      BY <1>3, <1>8
    <3> QED
      BY <1>1, <1>5, <2>1, <3>1, OnceStartedUses
  <2> QED
    BY <1>1, <1>5, <1>6, <1>7, <2>1, <2>2, QueueNextCounts
<1> QED
  BY <1>9, <1>10

LEMMA RetryCounts ==
    ASSUME BInv, SInv', NEW t \in timers, Retry(t)
    PROVE  BInv'
<1> DEFINE s    == t.schedule
           rest == timers \ {t}
<1>1. /\ t \in Timers /\ s \in Schedules /\ rest \in SUBSET Timers
      /\ t.kind = "retry" /\ t \in TimersIn(s, timers)
      /\ QueueNext(s, rest) /\ UNCHANGED <<now, started, starts, scheduled, next, visits, skipped>>
  BY DEF BInv, SInv, TypeOK, Timers, Retry, TimersIn
<1>2. s \in scheduled
  BY <1>1 DEF BInv
<1>3. /\ \A k \in Schedules : k # s => TimersIn(k, rest) = TimersIn(k, timers)
      /\ TimersIn(s, rest) = TimersIn(s, timers) \ {t}
  BY <1>1 DEF TimersIn
<1> HIDE DEF s, rest
<1>4. OneOff(s) => OneOffCounted(s)'
  BY <1>1, <1>3, OneOffUses
<1>5. ~OneOff(s) => OnceStarted(s)'
  <2>1. ~OneOff(s) => ~(starts <= 1 /\ When[s].every <= RetryAbove)
    BY <1>1 DEF BInv, OnceStarted
  <2> QED
    BY <1>1, <2>1 DEF OnceStarted
<1> QED
  BY <1>1, <1>2, <1>3, <1>4, <1>5, QueueNextCounts

LEMMA PickUpJobCounts ==
    ASSUME BInv, SInv', NEW s \in Schedules, NEW time \in queue[s], PickUpJob(s, time)
    PROVE  BInv'
<1>1. /\ queue' = [queue EXCEPT ![s] = @ \ {time}]
      /\ UNCHANGED <<now, started, starts, scheduled, next, visits, timers, posts, lost>>
  BY DEF PickUpJob
<1>2. ASSUME NEW k \in Schedules
      PROVE  /\ k \notin scheduled' => TimersIn(k, timers)' = {} /\ posts'[k] = {}
             /\ OneOffCounted(k)' /\ OnceStarted(k)'
  <2>1. queue'[k] \subseteq queue[k]
    BY <1>1 DEF BInv, SInv, TypeOK
  <2>2. TimersIn(k, timers)' = TimersIn(k, timers)
    BY <1>1 DEF TimersIn
  <2> QED
    BY <1>1, <2>1, <2>2 DEF BInv, OneOffCounted, OnceStarted, Unvisited, OneOff
<1> QED
  BY <1>1, <1>2 DEF BInv

LEMMA TickCounts ==
    ASSUME BInv, SInv', Tick
    PROVE  BInv'
<1>1. /\ now' = now + 1 /\ now \in Nat
      /\ UNCHANGED <<started, starts, scheduled, next, visits, timers, posts, queue, lost, skipped>>
  BY SchedulerAssumption DEF Tick, BInv, SInv, TypeOK
<1>2. ASSUME NEW k \in Schedules
      PROVE  /\ k \notin scheduled' => TimersIn(k, timers)' = {} /\ posts'[k] = {}
             /\ OneOffCounted(k)' /\ OnceStarted(k)'
  <2>1. TimersIn(k, timers)' = TimersIn(k, timers)
    BY <1>1 DEF TimersIn
  <2>2. OneOffCounted(k)'
    BY <1>1, <2>1 DEF BInv, OneOffCounted, OneOff
  <2>3. posts[k] \subseteq Nat
    BY SchedulerAssumption DEF BInv, SInv, TypeOK
  <2>4. \A p \in posts[k] : p <= now => p <= now'
    BY <1>1, <2>3
  <2>5. OnceStarted(k)'
    BY <1>1, <2>1, <2>4 DEF BInv, OnceStarted, Unvisited, OneOff
  <2> QED
    BY <1>1, <2>1, <2>2, <2>5 DEF BInv
<1> QED
  BY <1>1, <1>2 DEF BInv

LEMMA StepBInv == BInv /\ [Next]_vars => BInv'
<1> SUFFICES ASSUME BInv, [Next]_vars PROVE BInv'
  OBVIOUS
<1>1. SInv'
  BY StepSInv DEF BInv
<1>2. ASSUME NEW s \in Schedules, ScheduleJob(s) PROVE BInv'
  BY <1>1, <1>2, ScheduleJobCounts
<1>3. CASE Start
  BY <1>1, <1>3, StartCounts
<1>4. CASE Stop
  BY <1>1, <1>4, StopCounts
<1>5. ASSUME NEW s \in Schedules, Visit(s) PROVE BInv'
  BY <1>1, <1>5, VisitCounts
<1>6. ASSUME NEW t \in timers, FirstInstance(t) PROVE BInv'
  BY <1>1, <1>6, FirstInstanceCounts
<1>7. ASSUME NEW t \in timers, EveryInterval(t) PROVE BInv'
  BY <1>1, <1>7, EveryIntervalCounts
<1>8. ASSUME NEW t \in timers, Retry(t) PROVE BInv'
  BY <1>1, <1>8, RetryCounts
<1>9. ASSUME NEW s \in Schedules, NEW time \in queue[s], PickUpJob(s, time) PROVE BInv'
  BY <1>1, <1>9, PickUpJobCounts
<1>12. ASSUME NEW rest \in SUBSET Schedules, VisitFails(rest) PROVE BInv'
  BY <1>1, <1>12, VisitFailsCounts
<1>10. CASE Tick
  BY <1>1, <1>10, TickCounts
<1>11. CASE UNCHANGED vars
  BY <1>1, <1>11 DEF vars, BInv, TimersIn, OneOffCounted, OnceStarted, Unvisited, OneOff
<1> QED
  BY <1>2, <1>3, <1>4, <1>5, <1>6, <1>7, <1>8, <1>9, <1>10, <1>11, <1>12 DEF Next

THEOREM StartsAreCounted == Spec => []BInv
BY InitBInv, StepBInv, PTL DEF Spec

-----------------------------------------------------------------------------
(* A one-off job is queued once for each start() and each lost answer at most,
   however its timers, its retries and stop() interleave: each visit, timer and
   post stands for a call of start(), or a lost answer, of its own. *)
THEOREM OneOffQueuedPerStart == Spec => []OneOffOncePerStart
<1>1. BInv => OneOffOncePerStart
  <2>1. SUFFICES ASSUME BInv, NEW s \in Schedules, OneOff(s)
                 PROVE  Cardinality(posts[s]) <= starts + lost[s]
    BY DEF OneOffOncePerStart
  <2>2. /\ IsFiniteSet(TimersIn(s, timers))
        /\ Cardinality(posts[s]) + Cardinality(TimersIn(s, timers)) + visits[s] <= starts + lost[s]
    BY <2>1 DEF BInv, OneOffCounted
  <2>3. TypeOK /\ MaxStarts \in Nat
    BY <2>1, SchedulerAssumption DEF BInv, SInv
  <2>4. Cardinality(TimersIn(s, timers)) \in Nat /\ Cardinality(posts[s]) \in Nat
    BY <2>2, <2>3, FS_CardinalityType, PostsCount
  <2>5. visits[s] \in Nat /\ starts \in Nat /\ lost[s] \in Nat
    BY <2>3, LostTyped DEF TypeOK
  <2> QED
    BY <2>2, <2>4, <2>5
<1> QED
  BY <1>1, StartsAreCounted, PTL

(* Started once, a recurring job that is not retried leaves at most two jobs in
   the queue that are not yet too old to run: what was posted is an interval
   apart, and what was posted more than an interval ago has expired. *)
THEOREM BacklogIsBounded == Spec => []BacklogBoundedUnlessRetried
<1>1. BInv => BacklogBoundedUnlessRetried
  <2>1. SUFFICES ASSUME BInv, starts <= 1, NEW s \in Schedules, ~OneOff(s),
                        ~(When[s].every > RetryAbove)
                 PROVE  Cardinality({ time \in queue[s] : ~Expired(s, time) }) <= 2
    BY DEF BacklogBoundedUnlessRetried
  <2> DEFINE fresh == { time \in queue[s] : ~Expired(s, time) }
  <2>2. /\ When[s].every \in Nat \ {0} /\ RetryAbove \in Nat /\ now \in Nat
        /\ posts[s] \subseteq Nat
    BY <2>1, WhenTyped, SchedulerAssumption DEF OneOff, BInv, SInv, TypeOK
  <2>3. /\ \A p \in posts[s] : p <= now
        /\ \A p, q \in posts[s] : p < q => p + When[s].every <= q
        /\ queue[s] \subseteq posts[s]
    BY <2>1, <2>2 DEF BInv, OnceStarted
  <2>4. \A p \in fresh : p \in posts[s] /\ p \in Nat /\ p <= now /\ now <= p + When[s].every
    BY <2>1, <2>2, <2>3 DEF Expired
  <2>5. \A p, q, r \in fresh : p = q \/ p = r \/ q = r
    <3>1. SUFFICES ASSUME NEW p \in fresh, NEW q \in fresh, NEW r \in fresh, p < q, q < r
                   PROVE  FALSE
      BY <2>4
    <3>2. p + When[s].every <= q /\ q + When[s].every <= r
      BY <2>3, <2>4, <3>1
    <3> QED
      BY <2>2, <2>4, <3>1, <3>2
  <2> HIDE DEF fresh
  <2>6. PICK p, q : fresh \subseteq {p, q}
    <3>1. CASE fresh = {}
      BY <3>1
    <3>2. CASE \E p \in fresh : TRUE
      <4>1. PICK p \in fresh : TRUE
        BY <3>2
      <4>2. CASE \A r \in fresh : r = p
        BY <4>2
      <4>3. CASE \E q \in fresh : q # p
        BY <2>5, <4>3
      <4> QED
        BY <4>2, <4>3
    <3> QED
      BY <3>1, <3>2
  <2>7. IsFiniteSet({p, q}) /\ Cardinality({p, q}) <= 2
    <3>1. IsFiniteSet({p}) /\ Cardinality({p}) = 1
      BY FS_Singleton
    <3>2. /\ IsFiniteSet({p} \cup {q})
          /\ Cardinality({p} \cup {q}) = 1 \/ Cardinality({p} \cup {q}) = 2
      BY <3>1, FS_AddElement
    <3>3. {p, q} = {p} \cup {q}
      OBVIOUS
    <3> QED
      BY <3>2, <3>3
  <2>8. IsFiniteSet(fresh) /\ Cardinality(fresh) <= Cardinality({p, q})
    BY <2>6, <2>7, FS_Subset
  <2>9. Cardinality(fresh) \in Nat /\ Cardinality({p, q}) \in Nat
    BY <2>7, <2>8, FS_CardinalityType
  <2> QED
    BY <2>7, <2>8, <2>9 DEF fresh
<1> QED
  BY <1>1, StartsAreCounted, PTL

-----------------------------------------------------------------------------
(***************************************************************************)
(* What a single start() sets, stop() can reach: a schedule has at most    *)
(* one timer that is not a retry's, once it is started, and it is stored.  *)
(***************************************************************************)

Kept == { t \in timers : t.kind # "retry" }

OneStored ==
    starts <= 1 =>
        /\ \A t \in Kept : t.stored /\ ~Unvisited(t.schedule)
        /\ \A t, u \in Kept : t.schedule = u.schedule => t = u

RInv == BInv /\ OneStored

(* A step that takes timers away, or adds some that are retries'. *)
LEMMA FewerKept ==
    ASSUME OneStored, starts' = starts, Kept' \subseteq Kept,
           \A t \in Kept : Unvisited(t.schedule)' => Unvisited(t.schedule)
    PROVE  OneStored'
BY DEF OneStored

(* A step that sets a timer of a schedule that has no other left. *)
LEMMA OneMoreKept ==
    ASSUME OneStored, starts' = starts, NEW s, NEW new, new.schedule = s,
           starts <= 1 =>
               /\ new.stored /\ ~Unvisited(s)'
               /\ \A t \in Kept' : t = new \/ (t \in Kept /\ t.schedule # s),
           \A t \in Kept : t.schedule # s =>
               (Unvisited(t.schedule)' => Unvisited(t.schedule))
    PROVE  OneStored'
BY DEF OneStored

(* Setting a timer of which the schedule has none of the kind. *)
LEMMA StoreAdds ==
    ASSUME NEW s, NEW kind, NEW at, NEW ts,
           \A t \in ts : ~(t.schedule = s /\ t.kind = kind)
    PROVE  Store(s, kind, at, ts) = ts \cup {Timer(s, kind, at, TRUE)}
BY DEF Store

LEMMA TimerFields ==
    ASSUME NEW s, NEW kind, NEW at
    PROVE  /\ Timer(s, kind, at, TRUE).schedule = s
           /\ Timer(s, kind, at, TRUE).stored
BY DEF Timer

(* A schedule without such a timer is started. *)
LEMMA StartScheduleStores ==
    ASSUME OneStored, starts' = starts, NEW s, NEW due, StartSchedule(s, due),
           starts <= 1 => ~Unvisited(s)' /\ \A t \in Kept : t.schedule # s,
           \A t \in Kept : t.schedule # s =>
               (Unvisited(t.schedule)' => Unvisited(t.schedule))
    PROVE  OneStored'
<1>1. CASE Over(s)
  <2>1. Kept' = Kept
    BY <1>1 DEF StartSchedule, Kept
  <2> QED
    BY <2>1 DEF OneStored
<1>2. CASE ~Over(s)
  <2> DEFINE at  == now + TimerDelay(due - now)
             new == Timer(s, "first", at, TRUE)
  <2>1. timers' = Store(s, "first", at, timers)
    BY <1>2 DEF StartSchedule
  <2>2. new.schedule = s /\ new.stored
    BY TimerFields
  <2> HIDE DEF at
  <2>3. ASSUME starts <= 1
        PROVE  \A t \in Kept' : t = new \/ (t \in Kept /\ t.schedule # s)
    <3>1. \A t \in timers : ~(t.schedule = s /\ t.kind = "first")
      BY <2>3 DEF Kept
    <3>2. timers' = timers \cup {new}
      BY <2>1, <3>1, StoreAdds
    <3> QED
      BY <2>3, <3>2 DEF Kept
  <2> HIDE DEF new
  <2> QED
    BY <2>2, <2>3, OneMoreKept
<1> QED
  BY <1>1, <1>2

(* What queueing a job leaves of the timers, and what it adds. *)
LEMMA QueueNextAdds ==
    ASSUME NEW s, NEW ts, QueueNext(s, ts)
    PROVE  \A t \in timers' : t \in ts \/ t.kind = "retry"
BY DEF QueueNext, TryAgain, Timer

LEMMA FirstInstanceStored ==
    ASSUME RInv, NEW t \in timers, FirstInstance(t)
    PROVE  OneStored'
<1> DEFINE s    == t.schedule
           at   == now + TimerDelay(When[s].every)
           new  == Timer(s, "interval", at, TRUE)
           rest == timers \ {t}
           ts   == IF OneOff(s) THEN rest ELSE Store(s, "interval", at, rest)
<1>1. /\ t.kind = "first" /\ QueueNext(s, ts)
      /\ starts' = starts /\ scheduled' = scheduled /\ visits' = visits
  BY DEF FirstInstance
<1>2. \A u \in timers' : u \in ts \/ u.kind = "retry"
  BY <1>1, QueueNextAdds
<1>3. t \in Kept /\ \A u \in Kept : Unvisited(u.schedule)' => Unvisited(u.schedule)
  BY <1>1 DEF Kept, Unvisited
<1>4. CASE OneOff(s)
  <2>1. Kept' \subseteq Kept
    BY <1>2, <1>4 DEF Kept
  <2> QED
    BY <1>1, <1>3, <2>1, FewerKept DEF RInv
<1>5. CASE ~OneOff(s)
  <2>1. new.schedule = s /\ new.stored
    BY TimerFields
  <2>2. ASSUME starts <= 1
        PROVE  /\ ~Unvisited(s)'
               /\ \A u \in Kept' : u = new \/ (u \in Kept /\ u.schedule # s)
    <3>1. ~Unvisited(s) /\ \A u \in Kept : u.schedule = s => u = t
      BY <1>3, <2>2 DEF RInv, OneStored
    <3>2. \A u \in rest : ~(u.schedule = s /\ u.kind = "interval")
      BY <3>1 DEF Kept
    <3>3. ts = rest \cup {new}
      BY <1>5, <3>2, StoreAdds
    <3>4. ~Unvisited(s)'
      BY <1>1, <3>1 DEF Unvisited
    <3> QED
      BY <1>2, <3>1, <3>3, <3>4 DEF Kept
  <2> HIDE DEF new, ts
  <2> QED
    BY <1>1, <1>3, <2>1, <2>2, OneMoreKept DEF RInv
<1> QED
  BY <1>4, <1>5

LEMMA EveryIntervalStored ==
    ASSUME RInv, NEW t \in timers, EveryInterval(t)
    PROVE  OneStored'
<1> DEFINE s     == t.schedule
           new   == [t EXCEPT !.at = now + TimerDelay(When[s].every)]
           again == (timers \ {t}) \cup {new}
<1>1. /\ t.kind = "interval"
      /\ \/ timers' = Cleared(s, {"interval"}, again)
         \/ QueueNext(s, again)
      /\ starts' = starts /\ scheduled' = scheduled /\ visits' = visits
  BY DEF EveryInterval
<1>2. \A u \in timers' : u \in again \/ u.kind = "retry"
  BY <1>1, QueueNextAdds DEF Cleared
<1>3. t \in Kept /\ \A u \in Kept : Unvisited(u.schedule)' => Unvisited(u.schedule)
  BY <1>1 DEF Kept, Unvisited
<1>4. new.schedule = s /\ new.stored = t.stored
  BY DEF RInv, BInv, SInv, TypeOK, Timers
<1>5. ASSUME starts <= 1
      PROVE  /\ new.stored /\ ~Unvisited(s)'
             /\ \A u \in Kept' : u = new \/ (u \in Kept /\ u.schedule # s)
  <2>1. t.stored /\ ~Unvisited(s) /\ \A u \in Kept : u.schedule = s => u = t
    BY <1>3, <1>5 DEF RInv, OneStored
  <2>2. ~Unvisited(s)'
    BY <1>1, <2>1 DEF Unvisited
  <2> QED
    BY <1>2, <1>4, <2>1, <2>2 DEF Kept
<1> HIDE DEF new
<1> QED
  BY <1>1, <1>3, <1>4, <1>5, OneMoreKept DEF RInv

LEMMA StepOneStored == RInv /\ [Next]_vars => OneStored'
<1> SUFFICES ASSUME RInv, [Next]_vars PROVE OneStored'
  OBVIOUS
<1>0. /\ starts \in Nat /\ (started => starts > 0)
      /\ \A k \in Schedules : /\ visits[k] \in Nat /\ visits[k] <= starts
                              /\ visits[k] > 0 => k \in scheduled
                              /\ k \notin scheduled => TimersIn(k, timers) = {}
      /\ visits \in [Schedules -> Nat]
      /\ \A t \in timers : t.schedule \in Schedules
  BY SchedulerAssumption DEF RInv, BInv, SInv, TypeOK, VisitsScheduled, Timers
<1>1. ASSUME NEW s \in Schedules, ScheduleJob(s) PROVE OneStored'
  <2>1. /\ s \notin scheduled /\ scheduled' = scheduled \cup {s}
        /\ starts' = starts /\ visits' = visits
        /\ \/ started /\ \E due : StartSchedule(s, due)
           \/ timers' = timers
    BY <1>1 DEF ScheduleJob
  <2>2. \A t \in timers : t.schedule # s
    BY <1>0, <2>1 DEF TimersIn
  <2>3. \A k \in Schedules : k # s => (Unvisited(k)' => Unvisited(k))
    BY <2>1 DEF Unvisited
  <2>4. CASE started /\ \E due : StartSchedule(s, due)
    <3>1. PICK due : StartSchedule(s, due)
      BY <2>4
    <3>2. ~Unvisited(s)'
      BY <1>0, <2>1, <2>4 DEF Unvisited
    <3> QED
      BY <1>0, <2>1, <2>2, <2>3, <3>1, <3>2, StartScheduleStores DEF RInv, Kept
  <2>5. CASE timers' = timers
    BY <1>0, <2>1, <2>2, <2>3, <2>5, FewerKept DEF RInv, Kept
  <2> QED
    BY <2>1, <2>4, <2>5
<1>2. CASE Start
  <2>1. starts' = starts + 1 /\ timers' = timers
    BY <1>2 DEF Start
  <2>2. starts' <= 1 => Kept = {}
    BY <1>0, <2>1 DEF RInv, OneStored, Unvisited
  <2> QED
    BY <2>1, <2>2 DEF OneStored, Kept
<1>3. CASE Stop
  <2>1. timers' \subseteq timers /\ starts' = starts /\ scheduled' = scheduled /\ visits' = visits
    BY <1>3 DEF Stop
  <2> QED
    BY <2>1, FewerKept DEF RInv, Kept, Unvisited
<1>4. ASSUME NEW s \in Schedules, Visit(s) PROVE OneStored'
  <2>1. /\ visits[s] > 0 /\ visits' = [visits EXCEPT ![s] = @ - 1]
        /\ StartSchedule(s, next[s]) \/ timers' = timers
        /\ starts' = starts /\ scheduled' = scheduled
    BY <1>4 DEF Visit
  <2>2. \A k \in Schedules : k # s => (Unvisited(k)' => Unvisited(k))
    BY <1>0, <2>1 DEF Unvisited
  <2>3. starts <= 1 => ~Unvisited(s)' /\ \A t \in Kept : t.schedule # s
    BY <1>0, <2>1 DEF RInv, OneStored, Unvisited
  <2>4. CASE StartSchedule(s, next[s])
    BY <1>0, <2>1, <2>2, <2>3, <2>4, StartScheduleStores DEF RInv, Kept
  <2>5. CASE timers' = timers
    BY <1>0, <2>1, <2>2, <2>3, <2>5 DEF RInv, OneStored, Kept
  <2> QED
    BY <2>1, <2>4, <2>5
<1>5. ASSUME NEW rest \in SUBSET Schedules, VisitFails(rest) PROVE OneStored'
  <2>1. /\ visits' = [s \in Schedules |-> IF s \in rest THEN visits[s] - 1 ELSE visits[s]]
        /\ \A s \in rest : visits[s] > 0
        /\ timers' = timers /\ starts' = starts /\ scheduled' = scheduled
    BY <1>5 DEF VisitFails
  <2>2. \A k \in Schedules : Unvisited(k)' => Unvisited(k)
    BY <1>0, <2>1 DEF Unvisited
  <2> QED
    BY <1>0, <2>1, <2>2, FewerKept DEF RInv, Kept
<1>6. ASSUME NEW t \in timers, FirstInstance(t) PROVE OneStored'
  BY <1>6, FirstInstanceStored
<1>7. ASSUME NEW t \in timers, EveryInterval(t) PROVE OneStored'
  BY <1>7, EveryIntervalStored
<1>8. ASSUME NEW t \in timers, Retry(t) PROVE OneStored'
  <2>1. /\ QueueNext(t.schedule, timers \ {t})
        /\ starts' = starts /\ scheduled' = scheduled /\ visits' = visits
    BY <1>8 DEF Retry
  <2>2. Kept' \subseteq Kept
    BY <2>1, QueueNextAdds DEF Kept
  <2> QED
    BY <2>1, <2>2, FewerKept DEF RInv, Unvisited
<1>9. ASSUME NEW s \in Schedules, NEW when \in queue[s], PickUpJob(s, when) PROVE OneStored'
  BY <1>9 DEF PickUpJob, RInv, OneStored, Kept, Unvisited
<1>10. CASE Tick
  BY <1>10 DEF Tick, RInv, OneStored, Kept, Unvisited
<1>11. CASE UNCHANGED vars
  BY <1>11 DEF vars, RInv, OneStored, Kept, Unvisited
<1> QED
  BY <1>1, <1>2, <1>3, <1>4, <1>5, <1>6, <1>7, <1>8, <1>9, <1>10, <1>11 DEF Next

(* README.md:341 "You can call this method to stop the workers": of what a single
   start() and any scheduleJob() set, the timers of retries excepted, none is out of
   the reach of stop(), for any schedules, failures and order of the timers. *)
THEOREM StopAlwaysReaches == Spec => []StopReachesTimers
<1>1. Init => RInv
  <2>1. Init => OneStored
    BY DEF Init, OneStored, Kept
  <2> QED
    BY <2>1, InitBInv DEF RInv
<1>2. RInv /\ [Next]_vars => RInv'
  BY StepOneStored, StepBInv DEF RInv
<1>3. RInv => StopReachesTimers
  BY DEF RInv, OneStored, Kept, StopReachesTimers
<1> QED
  BY <1>1, <1>2, <1>3, PTL DEF Spec

=============================================================================
