----------------------------- MODULE Scheduler -----------------------------
(***************************************************************************)
(* The scheduled jobs of one process and their timers (lib/scheduler.js).  *)
(*                                                                         *)
(* A schedule that is started sets a timer for its first occurrence; when  *)
(* that fires the job is queued and, if the schedule has an interval, a    *)
(* second timer repeats it.  start() visits the schedules known at the     *)
(* time and asks the configuration about each; scheduleJob() after start() *)
(* starts its schedule at once.  A job that could not be queued, or of     *)
(* which that is not known, is queued again after RetryDelay.              *)
(*                                                                         *)
(* Timers are those of Node.js: a delay that is not within 1 .. MaxDelay   *)
(* milliseconds is one of a millisecond.  A tick is far longer: such a     *)
(* timer fires within the tick, the others are on time, and promises do    *)
(* not take as long as a tick.                                             *)
(***************************************************************************)
EXTENDS NextTime, FiniteSets

CONSTANTS
    Schedules,      (* the names of the scheduled jobs                        *)
    When,           (* name -> [start, every, end], 0 for what is not given   *)
    Startable,      (* the schedules config.canStartQueue() accepts           *)
    RetryDelay,     (* five seconds                                           *)
    RetryAbove,     (* ten minutes: shorter intervals are not retried         *)
    MaxDelay,       (* the longest delay of a Node.js timer, 2^31 - 1         *)
    MaxTime,        (* where this model stops the clock (bound)               *)
    MaxStarts,      (* how often start() is called (bound)                    *)
    MaxLost,        (* how many answers of a schedule's posts are lost (bound) *)
    LateSchedules   (* those scheduleJob() may name after start()             *)

ASSUME SchedulerAssumption ==
    /\ When \in [Schedules -> [start : Nat, every : Nat, end : Nat]]
    /\ \A s \in Schedules : When[s].start > 0 \/ When[s].every > 0
    /\ \A s \in Schedules : When[s].end > 0 => When[s].every > 0 /\ When[s].start < When[s].end
    /\ Startable \subseteq Schedules
    /\ {RetryDelay, MaxDelay, MaxTime, MaxStarts} \subseteq Nat \ {0}
    /\ MaxLost \in Nat
    /\ RetryAbove \in 0 .. MaxDelay
    /\ LateSchedules \subseteq Schedules

VARIABLES
    now,
    started,    (* Scheduler.started                                          *)
    starts,     (* how often start() was called                               *)
    scheduled,  (* the names in Scheduler._schedules                          *)
    next,       (* name -> Schedule._next                                     *)
    visits,     (* name -> visits of start() yet to come                      *)
    timers,     (* the timers of the process                                  *)
    posts,      (* name -> the moments at which its job was queued            *)
    queue,      (* name -> those that no worker picked up yet                 *)
    lost,       (* history: name -> posts that were stored and whose answer
                   was lost                                                   *)
    skipped     (* history: those a visit that failed left without a timer    *)

vars == <<now, started, starts, scheduled, next, visits, timers, posts, queue, lost, skipped>>

(* "stored": the timer is the one _timeout or _interval refers to. *)
Timers == [schedule : Schedules, kind : {"first", "interval", "retry"},
           at : Nat, stored : BOOLEAN]

Timer(s, kind, at, stored) ==
    [schedule |-> s, kind |-> kind, at |-> at, stored |-> stored]

OneOff(s) == When[s].every = 0

Over(s) == When[s].end > 0 /\ now >= When[s].end

TimerDelay(delay) == IF delay \in 1 .. MaxDelay THEN delay ELSE 0

(* Setting this._timeout or this._interval: the reference to an earlier timer
   of the kind is lost, the timer is not. *)
Store(s, kind, at, ts) ==
    { IF t.schedule = s /\ t.kind = kind THEN [t EXCEPT !.stored = FALSE] ELSE t : t \in ts }
        \cup {Timer(s, kind, at, TRUE)}

(* s has a timer that stop() can reach. *)
Armed(s) == \E t \in timers : t.schedule = s /\ t.kind \in {"first", "interval"} /\ t.stored

Cleared(s, kinds, ts) ==
    { t \in ts : ~(t.schedule = s /\ t.kind \in kinds /\ t.stored) }

Init ==
    /\ now = 1
    /\ started = FALSE
    /\ starts = 0
    /\ scheduled = {}
    /\ next = [s \in Schedules |-> 0]
    /\ visits = [s \in Schedules |-> 0]
    /\ timers = {}
    /\ posts = [s \in Schedules |-> {}]
    /\ queue = [s \in Schedules |-> {}]
    /\ lost = [s \in Schedules |-> 0]
    /\ skipped = {}

(* Variant: the timer is set for the interval, whatever the next time is. *)
EarlyStartSchedule(s, due) ==
    timers' = IF Over(s) THEN timers
              ELSE Store(s, "first", now + TimerDelay(When[s].every), timers)

(* Schedule.start, for a schedule that is due next at the given time. *)
StartSchedule(s, due) ==
    timers' = IF Over(s) THEN timers
              ELSE Store(s, "first", now + TimerDelay(due - now), timers)

(* Scheduler.scheduleJob: the constructor, and start() if it was called. *)
ScheduleJob(s) ==
    /\ s \notin scheduled
    /\ starts > 0 => s \in LateSchedules
    /\ scheduled' = scheduled \cup {s}
    /\ LET due == NextSchedule(now, When[s].start, When[s].every, When[s].end)
       IN  /\ next' = [next EXCEPT ![s] = due]
           /\ IF started THEN StartSchedule(s, due) ELSE UNCHANGED timers
    /\ UNCHANGED <<now, started, starts, visits, posts, queue, lost, skipped>>

Start ==
    /\ starts < MaxStarts
    /\ starts' = starts + 1
    /\ started' = TRUE
    /\ visits' = [s \in Schedules |-> IF s \in scheduled THEN visits[s] + 1 ELSE visits[s]]
    /\ UNCHANGED <<now, scheduled, next, timers, posts, queue, lost, skipped>>

(* _canStartQueue(schedule._queue).then(...): no second look at started. *)
Visit(s) ==
    /\ visits[s] > 0
    /\ visits' = [visits EXCEPT ![s] = @ - 1]
    /\ IF s \in Startable THEN StartSchedule(s, next[s]) ELSE UNCHANGED timers
    /\ skipped' = IF s \in Startable THEN skipped \ {s} ELSE skipped
    /\ UNCHANGED <<now, started, starts, scheduled, next, posts, queue, lost>>

(* The configuration rejects, or canStartQueue throws: the visits of this start()
   end, with the schedule it has come to and those after it.  (Which these are is
   left open; the order of the map is not kept.) *)
VisitFails(rest) ==
    /\ rest # {}
    /\ \A s \in rest : visits[s] > 0
    /\ visits' = [s \in Schedules |-> IF s \in rest THEN visits[s] - 1 ELSE visits[s]]
    /\ skipped' = skipped \cup { s \in rest : ~Armed(s) }
    /\ UNCHANGED <<now, started, starts, scheduled, next, timers, posts, queue, lost>>

(* Timers that are not stored, those of retries among them, go on. *)
Stop ==
    /\ started
    /\ started' = FALSE
    /\ timers' = { t \in timers : ~t.stored }
    /\ UNCHANGED <<now, starts, scheduled, next, visits, posts, queue, lost, skipped>>

-----------------------------------------------------------------------------
Queued(s) ==
    /\ posts' = [posts EXCEPT ![s] = @ \cup {now}]
    /\ queue' = [queue EXCEPT ![s] = @ \cup {now}]

(* The timers with one to try again, if the job is not due soon anyway. *)
TryAgain(s, ts) ==
    IF OneOff(s) \/ When[s].every > RetryAbove
    THEN ts \cup {Timer(s, "retry", now + RetryDelay, FALSE)} ELSE ts

(* Variant: tried again whether the job was queued or not. *)
RepeatingQueueNext(s, ts) ==
    /\ Queued(s) \/ UNCHANGED <<posts, queue>>
    /\ timers' = TryAgain(s, ts)
    /\ UNCHANGED lost

(* _queueNext: the job is queued, or left to another process (ScheduleMutex), or
   it fails: before the job is stored or, the answer being lost, after.  ts is what
   the timers are otherwise. *)
QueueNext(s, ts) ==
    \/ Queued(s) /\ timers' = ts /\ UNCHANGED lost
    \/ timers' = ts /\ UNCHANGED <<posts, queue, lost>>
    \/ timers' = TryAgain(s, ts) /\ UNCHANGED <<posts, queue, lost>>
    \/ /\ lost[s] < MaxLost
       /\ Queued(s)
       /\ timers' = TryAgain(s, ts)
       /\ lost' = [lost EXCEPT ![s] = @ + 1]

(* Variant: the interval is set, and the reference to it not kept. *)
ForgetfulFirstInstance(t) ==
    /\ t \in timers /\ t.kind = "first" /\ t.at <= now
    /\ LET s    == t.schedule
           rest == timers \ {t}
       IN  QueueNext(s, IF OneOff(s) THEN rest
                        ELSE rest \cup {Timer(s, "interval", now + TimerDelay(When[s].every), FALSE)})
    /\ UNCHANGED <<now, started, starts, scheduled, next, visits, skipped>>

(* Variant: the interval is not set. *)
OneTimeFirstInstance(t) ==
    /\ t \in timers /\ t.kind = "first" /\ t.at <= now
    /\ QueueNext(t.schedule, timers \ {t})
    /\ UNCHANGED <<now, started, starts, scheduled, next, visits, skipped>>

FirstInstance(t) ==
    /\ t \in timers /\ t.kind = "first" /\ t.at <= now
    /\ LET s    == t.schedule
           rest == timers \ {t}
       IN  QueueNext(s, IF OneOff(s) THEN rest
                        ELSE Store(s, "interval", now + TimerDelay(When[s].every), rest))
    /\ UNCHANGED <<now, started, starts, scheduled, next, visits, skipped>>

(* Variant: the interval does not look at the end. *)
EndlessEveryInterval(t) ==
    /\ t \in timers /\ t.kind = "interval" /\ t.at <= now
    /\ QueueNext(t.schedule, (timers \ {t})
                    \cup {[t EXCEPT !.at = now + TimerDelay(When[t.schedule].every)]})
    /\ UNCHANGED <<now, started, starts, scheduled, next, visits, skipped>>

(* clearInterval ends the interval that is stored, which need not be the one
   that fired. *)
EveryInterval(t) ==
    /\ t \in timers /\ t.kind = "interval" /\ t.at <= now
    /\ LET s     == t.schedule
           again == (timers \ {t})
                       \cup {[t EXCEPT !.at = now + TimerDelay(When[s].every)]}
       IN  IF Over(s)
           THEN /\ timers' = Cleared(s, {"interval"}, again)
                /\ UNCHANGED <<posts, queue, lost>>
           ELSE QueueNext(s, again)
    /\ UNCHANGED <<now, started, starts, scheduled, next, visits, skipped>>

Retry(t) ==
    /\ t \in timers /\ t.kind = "retry" /\ t.at <= now
    /\ QueueNext(t.schedule, timers \ {t})
    /\ UNCHANGED <<now, started, starts, scheduled, next, visits, skipped>>

(* Variant: a recurring job never expires. *)
NeverExpired(s, time) == FALSE

(* shouldRunJob *)
Expired(s, time) == ~OneOff(s) /\ now > time + When[s].every

(* _runJobIfNecessary in some worker: the job is run or ignored, and deleted
   from the queue; a job that fails is back in it and is not a step here. *)
PickUpJob(s, time) ==
    /\ time \in queue[s]
    /\ queue' = [queue EXCEPT ![s] = @ \ {time}]
    /\ UNCHANGED <<now, started, starts, scheduled, next, visits, timers, posts, lost, skipped>>

Tick ==
    /\ now < MaxTime
    /\ \A t \in timers : t.at > now
    /\ \A s \in Schedules : visits[s] = 0
    /\ now' = now + 1
    /\ UNCHANGED <<started, starts, scheduled, next, visits, timers, posts, queue, lost, skipped>>

Next ==
    \/ \E s \in Schedules : ScheduleJob(s)
    \/ Start
    \/ Stop
    \/ \E s \in Schedules : Visit(s)
    \/ \E rest \in SUBSET Schedules : VisitFails(rest)
    \/ \E t \in timers : FirstInstance(t)
    \/ \E t \in timers : EveryInterval(t)
    \/ \E t \in timers : Retry(t)
    \/ \E s \in Schedules : \E time \in queue[s] : PickUpJob(s, time)
    \/ Tick

Spec == Init /\ [][Next]_vars

-----------------------------------------------------------------------------
TypeOK ==
    /\ now \in 1 .. MaxTime
    /\ started \in BOOLEAN
    /\ starts \in 0 .. MaxStarts
    /\ scheduled \subseteq Schedules
    /\ next \in [Schedules -> Nat]
    /\ visits \in [Schedules -> 0 .. MaxStarts]
    /\ timers \subseteq Timers
    /\ posts \in [Schedules -> SUBSET (1 .. MaxTime)]
    /\ queue \in [Schedules -> SUBSET (1 .. MaxTime)]
    /\ lost \in [Schedules -> 0 .. MaxLost]
    /\ skipped \subseteq Schedules

(* README.md:296 "If the property start is specified, the job will run once at
   the specified time": however start(), stop() and scheduleJob() are called,
   it is not queued before. *)
NotBeforeStart ==
    \A s \in Schedules : \A time \in posts[s] : time >= When[s].start

(* A recurring schedule that was started always has a timer that stop() can
   reach, until its end: no order of start(), stop(), scheduleJob() and the timers
   loses it.  The exception is a schedule that has none when its visit fails, or
   one before it (scheduler.js:237-243): nothing but start() arms it then. *)
ArmedWhileStarted ==
    \A s \in (scheduled \cap Startable) \ skipped :
        started /\ visits[s] = 0 /\ ~OneOff(s) /\ ~Over(s) => Armed(s)

(* README.md:341 "You can call this method to stop the workers": of what a single
   start() and any scheduleJob() set, stop() can reach every timer but those of
   retries, whenever it comes.  (A second start() loses references, and a visit on
   its way when stop() is called sets its timer after.) *)
StopReachesTimers ==
    starts <= 1 => \A t \in timers : t.kind = "retry" \/ t.stored

(* scheduler.js:301 "For recurring jobs, we don't want to run duplicate jobs
   once the error condition is resolved": however long no worker picked up the
   jobs of a schedule, at most two of them are run after.  So it is if start() was
   called once and the interval is too short to be retried; retries add more. *)
BacklogBoundedUnlessRetried ==
    starts <= 1 =>
        \A s \in Schedules :
            \/ OneOff(s) \/ When[s].every > RetryAbove
            \/ Cardinality({ time \in queue[s] : ~Expired(s, time) }) <= 2

(* scheduler.js:14 "end - Do not run after this time": no job is queued at or
   after the end, by no order of start(), stop() and the timers, if its interval
   is too short to be retried. *)
NotAfterEnd ==
    \A s \in Schedules : \A time \in posts[s] :
        When[s].end = 0 \/ When[s].every > RetryAbove \/ time < When[s].end

(* README.md:296 "the job will run once at the specified time": a one-off job,
   however often its post is retried, is queued no more often than start() is
   called, and once more for each post of which the answer was lost: that one is
   taken for a failure.  (Each start() does queue it again, once its time is over:
   the timer is set from the next time the constructor computed.) *)
OneOffOncePerStart ==
    \A s \in Schedules : OneOff(s) => Cardinality(posts[s]) <= starts + lost[s]

=============================================================================
