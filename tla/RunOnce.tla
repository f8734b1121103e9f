------------------------------ MODULE RunOnce ------------------------------
(***************************************************************************)
(* Ironium.runOnce() and the time travel around it: what tests use in      *)
(* place of start() and stop() (lib/index.js, lib/scheduler.js,            *)
(* lib/queues.js), on Beanstalk, the service that can kick a delayed job.  *)
(*                                                                         *)
(* A call first queues the job of the schedule, if its time has come, and  *)
(* then makes rounds: in each a chain per queue kicks the delayed jobs     *)
(* whose time has come, and reserves and runs one job after the other      *)
(* until there is none.  A round in which some chain ran a job is followed *)
(* by another.  The first chain that fails rejects the call; the others go *)
(* on in the background, where they meet those of the test's next call.    *)
(*                                                                         *)
(* The chains of a queue reserve, delete and release on one session.  When *)
(* its connection is lost the broker puts back what was reserved on it;    *)
(* the handlers run on, and what becomes of their jobs is then decided by  *)
(* whichever request comes first on the next connection.                   *)
(*                                                                         *)
(* The delays of the broker run in real time and are taken not to end      *)
(* while the test runs: only the test's clock, which goes where the test   *)
(* sets it, makes a delayed job ready.                                     *)
(***************************************************************************)
EXTENDS NextTime, FiniteSets

CONSTANTS Calls,          \* the calls of the test, made one after the other
          Queues,         \* the queues, all with a handler
          Jobs,           \* every job that can be queued
          QueueOf,        \* the queue of each job
          ScheduleQueue,  \* the queue named after the schedule
          Schedules,      \* what the schedule may be: records of start, every, end
          Moments,        \* where the clock can be
          Delays,         \* the delays a job can be queued with
          MaxFailures,    \* how many requests fail and connections are lost (bound)
          NoJob

ASSUME RunOnceAssumption ==
    /\ QueueOf \in [Jobs -> Queues] /\ ScheduleQueue \in Queues
    /\ Moments \subseteq Nat \ {0} /\ Moments # {}
    /\ Schedules \subseteq [start : Nat, every : Nat, end : Nat]
    /\ \A s \in Schedules : ValidSchedule(s.start, s.every, s.end)
    /\ Delays \subseteq Nat \ {0} /\ MaxFailures \in Nat
    /\ NoJob \notin Jobs

VARIABLES when,       \* the schedule: startTime, every, endTime
          clock,      \* Date.now()
          since,      \* the clock when the next time was last computed
          next,       \* _next
          status,     \* the broker's state of each job
          readyTime,  \* _delayedJobs of all queues, 0 for a job that is not in it
          call,       \* the promise of each call
          chain,      \* the chain of each queue in the last round of each call
          alone,      \* no chain of another call was left when the round began
          cut,        \* history: the chains whose job is not reserved for them any more
          unlisted,   \* history: the delayed jobs that were stored by a post that failed
          failures

vars == <<when, clock, since, next, status, readyTime, call, chain, alone, cut, unlisted, failures>>
time == <<when, clock, since, next>>

NextFor(now) == NextSchedule(now, when.start, when.every, when.end)

-----------------------------------------------------------------------------
Idle == [at |-> "idle", kicks |-> {}, job |-> NoJob, ran |-> FALSE]

UnderWay(c, q) == chain[c][q].at \in {"kicking", "reserving", "running"}

(* The test goes on when its last call has settled, and ends with the last of
   them. *)
Waiting(c) == call[c] \in {"scheduling", "running"}
TestRuns == (\A c \in Calls : ~Waiting(c)) /\ (\E c \in Calls : call[c] = "none")

(* Bound: the jobs of the schedule's queue are left to the schedule. *)
CanQueue(j) == status[j] = "none" /\ QueueOf[j] # ScheduleQueue
CanSchedule(j) == status[j] = "none" /\ QueueOf[j] = ScheduleQueue

Init ==
    /\ when \in Schedules
    /\ clock \in Moments /\ since = clock /\ next = NextFor(clock)
    /\ status = [j \in Jobs |-> "none"]
    /\ readyTime = [j \in Jobs |-> 0]
    /\ call = [c \in Calls |-> "none"]
    /\ chain = [c \in Calls |-> [q \in Queues |-> Idle]]
    /\ alone = TRUE
    /\ cut = {} /\ unlisted = {}
    /\ failures = 0

-----------------------------------------------------------------------------
(* What the test does between its calls. *)

(* TimeKeeper.travel(), forward or back. *)
Travel ==
    /\ TestRuns
    /\ clock' \in Moments \ {clock}
    /\ UNCHANGED <<when, since, next, status, readyTime, call, chain, alone, cut, unlisted, failures>>

ResetSchedule ==
    /\ TestRuns
    /\ since' = clock /\ next' = NextFor(clock)
    /\ UNCHANGED <<when, clock, status, readyTime, call, chain, alone, cut, unlisted, failures>>

(* queueJob(), and delayJob() in test mode, awaited by the test.  A job that was
   stored by a queueJob() that fails is like one of a queueJob() that does not. *)
QueueJob(j) ==
    /\ TestRuns /\ CanQueue(j)
    /\ status' = [status EXCEPT ![j] = "ready"]
    /\ UNCHANGED <<time, readyTime, call, chain, alone, cut, unlisted, failures>>

DelayJob(j) ==
    /\ TestRuns /\ CanQueue(j)
    /\ status' = [status EXCEPT ![j] = "delayed"]
    /\ \E d \in Delays : readyTime' = [readyTime EXCEPT ![j] = clock + d]
    /\ UNCHANGED <<time, call, chain, alone, cut, unlisted, failures>>

(* The post of a delayed job fails, its answer is lost, or those of other jobs of
   the call are: the job is stored and not listed. *)
DelayJobFails(j) ==
    /\ TestRuns /\ CanQueue(j)
    /\ failures < MaxFailures /\ failures' = failures + 1
    /\ status' = [status EXCEPT ![j] = "delayed"]
    /\ unlisted' = unlisted \cup {j}
    /\ UNCHANGED <<time, readyTime, call, chain, alone, cut>>

(* purgeQueues(), once nothing runs in the background: what is delayed goes on
   being listed. *)
PurgeQueues ==
    /\ TestRuns /\ \A c \in Calls, q \in Queues : ~UnderWay(c, q)
    /\ status' = [j \in Jobs |-> IF status[j] \in {"ready", "delayed"} THEN "deleted"
                                 ELSE status[j]]
    /\ status' # status
    /\ UNCHANGED <<time, readyTime, call, chain, alone, cut, unlisted, failures>>

-----------------------------------------------------------------------------
(* _getReadyDelayedJobIDs *)
ReadyDelayedJobs(q) == {j \in Jobs : QueueOf[j] = q /\ readyTime[j] \in 1 .. clock}

(* Queues.runOnce(): the lists of all queues are made at once, before the first
   kick is sent. *)
Round(c) ==
    /\ chain' = [chain EXCEPT ![c] = [q \in Queues |->
                    [at    |-> IF ReadyDelayedJobs(q) = {} THEN "reserving" ELSE "kicking",
                     kicks |-> ReadyDelayedJobs(q), job |-> NoJob, ran |-> FALSE]]]
    /\ call' = [call EXCEPT ![c] = "running"]
    /\ alone' = \A d \in Calls \ {c}, q \in Queues : ~UnderWay(d, q)

(* Variant: the schedule is reset before it is looked at. *)
LateRunOnSchedule == NextFor(clock) > 0 /\ clock >= NextFor(clock)

(* runOnSchedule *)
RunOnSchedule == next > 0 /\ clock >= next

(* Ironium.runOnce(), down to the post of the schedule's job. *)
Call(c) ==
    /\ TestRuns /\ call[c] = "none"
    /\ since' = clock /\ next' = NextFor(clock)
    /\ RunOnSchedule => \E j \in Jobs : CanSchedule(j)
    /\ IF RunOnSchedule
       THEN call' = [call EXCEPT ![c] = "scheduling"] /\ UNCHANGED <<chain, alone>>
       ELSE Round(c)
    /\ UNCHANGED <<when, clock, status, readyTime, cut, unlisted, failures>>

(* The job of the schedule is queued. *)
SchedulePosted(c) ==
    /\ call[c] = "scheduling"
    /\ status' = [status EXCEPT ![CHOOSE j \in Jobs : CanSchedule(j)] = "ready"]
    /\ Round(c)
    /\ UNCHANGED <<time, readyTime, cut, unlisted, failures>>

(* The post fails, or its answer is lost, and the call is rejected. *)
SchedulePostFails(c) ==
    /\ call[c] = "scheduling" /\ failures < MaxFailures
    /\ failures' = failures + 1
    /\ \/ UNCHANGED status
       \/ status' = [status EXCEPT ![CHOOSE j \in Jobs : CanSchedule(j)] = "ready"]
    /\ call' = [call EXCEPT ![c] = "rejected"]
    /\ UNCHANGED <<time, readyTime, chain, alone, cut, unlisted>>

(* Variant: a round that ran jobs is the last one all the same. *)
OneRound(c) ==
    /\ call[c] = "running" /\ \A q \in Queues : chain[c][q].at = "done"
    /\ call' = [call EXCEPT ![c] = "resolved"]
    /\ UNCHANGED <<time, status, readyTime, chain, alone, cut, unlisted, failures>>

(* All chains of the round resolved. *)
EndRound(c) ==
    /\ call[c] = "running" /\ \A q \in Queues : chain[c][q].at = "done"
    /\ IF \E q \in Queues : chain[c][q].ran
       THEN Round(c)
       ELSE call' = [call EXCEPT ![c] = "resolved"] /\ UNCHANGED <<chain, alone>>
    /\ UNCHANGED <<time, status, readyTime, cut, unlisted, failures>>

-----------------------------------------------------------------------------
(* The chain of a queue. *)

Becomes(c, q, link) == chain' = [chain EXCEPT ![c][q] = link]

(* The chain fails, and with it the call, unless another chain failed before. *)
Fails(c, q) ==
    /\ Becomes(c, q, [Idle EXCEPT !.at = "failed"])
    /\ call' = [call EXCEPT ![c] = "rejected"]

AfterKick(link, j) ==
    LET left == link.kicks \ {j}
    IN  [link EXCEPT !.kicks = left, !.at = IF left = {} THEN "reserving" ELSE "kicking"]

(* Variant: a kick of a job that is not delayed any more is not answered. *)
UnansweredKick(c, q, j) ==
    /\ j \in chain[c][q].kicks /\ status[j] = "delayed"
    /\ status' = [status EXCEPT ![j] = "ready"]
    /\ readyTime' = [readyTime EXCEPT ![j] = 0]
    /\ Becomes(c, q, AfterKick(chain[c][q], j))
    /\ UNCHANGED <<time, call, alone, cut, unlisted, failures>>

(* kickJob() moves a delayed job to the ready ones and takes it off the list;
   NOT_FOUND is ignored, and leaves it there. *)
Kick(c, q, j) ==
    /\ chain[c][q].at = "kicking" /\ j \in chain[c][q].kicks
    /\ IF status[j] = "delayed"
       THEN /\ status' = [status EXCEPT ![j] = "ready"]
            /\ readyTime' = [readyTime EXCEPT ![j] = 0]
       ELSE UNCHANGED <<status, readyTime>>
    /\ Becomes(c, q, AfterKick(chain[c][q], j))
    /\ UNCHANGED <<time, call, alone, cut, unlisted, failures>>

(* Variant: the list forgets the jobs before they were kicked. *)
ForgetfulKicksFail(c, q) ==
    /\ chain[c][q].at = "kicking" /\ failures < MaxFailures
    /\ failures' = failures + 1
    /\ readyTime' = [j \in Jobs |-> IF j \in chain[c][q].kicks THEN 0 ELSE readyTime[j]]
    /\ Fails(c, q)
    /\ UNCHANGED <<time, status, alone, cut, unlisted>>

(* The connection is lost: some of the kicks arrived, and no answer does. *)
KicksFail(c, q) ==
    /\ chain[c][q].at = "kicking" /\ failures < MaxFailures
    /\ failures' = failures + 1
    /\ \E arrived \in SUBSET chain[c][q].kicks :
        status' = [j \in Jobs |-> IF j \in arrived /\ status[j] = "delayed" THEN "ready"
                                  ELSE status[j]]
    /\ Fails(c, q)
    /\ UNCHANGED <<time, readyTime, alone, cut, unlisted>>

(* _reserveAndProcess *)
Reserve(c, q) ==
    /\ chain[c][q].at = "reserving"
    /\ LET ready == {j \in Jobs : QueueOf[j] = q /\ status[j] = "ready"}
       IN  IF ready = {}
           THEN Becomes(c, q, [chain[c][q] EXCEPT !.at = "done"]) /\ UNCHANGED status
           ELSE \E j \in ready :
                   /\ status' = [status EXCEPT ![j] = "reserved"]
                   /\ Becomes(c, q, [chain[c][q] EXCEPT !.at = "running", !.job = j])
    /\ UNCHANGED <<time, readyTime, call, alone, cut, unlisted, failures>>

(* The connection on which the chains of a queue reserve is lost, and the broker
   puts their jobs back. *)
ConnectionLost(q) ==
    /\ failures < MaxFailures /\ failures' = failures + 1
    /\ \E c \in Calls : chain[c][q].at = "running"
    /\ status' = [j \in Jobs |-> IF QueueOf[j] = q /\ status[j] = "reserved" THEN "ready"
                                 ELSE status[j]]
    /\ cut' = cut \cup {<<c, q>> : c \in {d \in Calls : chain[d][q].at = "running"}}
    /\ UNCHANGED <<time, readyTime, call, chain, alone, unlisted>>

(* The connection is not made, or was lost with the request or its answer: no
   chain of the queue has a job that is still reserved. *)
ReserveFails(c, q) ==
    /\ chain[c][q].at = "reserving"
    /\ \A d \in Calls : chain[d][q].at = "running" => <<d, q>> \in cut
    /\ \/ failures < MaxFailures /\ failures' = failures + 1
       \/ (\E d \in Calls : <<d, q>> \in cut) /\ UNCHANGED failures
    /\ Fails(c, q)
    /\ UNCHANGED <<time, status, readyTime, alone, cut, unlisted>>

Ran(c, q) ==
    Becomes(c, q, [chain[c][q] EXCEPT !.at = "reserving", !.job = NoJob, !.ran = TRUE])

(* Who runs a job, and who also has it reserved. *)
Runners(j) == {p \in Calls \X Queues : chain[p[1]][p[2]].job = j}
Holders(j) == Runners(j) \ cut

(* A delete or release of its job takes it from whoever else runs it. *)
TakesJob(c, q) == cut' = (cut \cup Runners(chain[c][q].job)) \ {<<c, q>>}

(* A handler queues a job. *)
HandlerQueues(c, q, j) ==
    /\ chain[c][q].at = "running" /\ CanQueue(j)
    /\ status' = [status EXCEPT ![j] = "ready"]
    /\ UNCHANGED <<time, readyTime, call, chain, alone, cut, unlisted, failures>>

(* The handlers resolve and the job is deleted, also if it was put back and even
   if another chain has reserved it since, on the same session. *)
JobSucceeds(c, q) ==
    /\ chain[c][q].at = "running"
    /\ status' = [status EXCEPT ![chain[c][q].job] = "deleted"]
    /\ TakesJob(c, q)
    /\ Ran(c, q)
    /\ UNCHANGED <<time, readyTime, call, alone, unlisted, failures>>

(* The delete is lost with the connection, which is ignored. *)
DeleteFails(c, q) ==
    /\ chain[c][q].at = "running" /\ <<c, q>> \in cut
    /\ cut' = cut \ {<<c, q>>}
    /\ Ran(c, q)
    /\ UNCHANGED <<time, status, readyTime, call, alone, unlisted, failures>>

(* Variant: the job that failed is left reserved. *)
KeepingJobFails(c, q) ==
    /\ chain[c][q].at = "running"
    /\ TakesJob(c, q)
    /\ Fails(c, q)
    /\ UNCHANGED <<time, status, readyTime, alone, unlisted, failures>>

(* A handler fails: the job is released without a delay, if it is still reserved
   on the session, and the error passed on. *)
JobFails(c, q) ==
    /\ chain[c][q].at = "running"
    /\ status' = [status EXCEPT ![chain[c][q].job] = IF @ = "reserved" THEN "ready" ELSE @]
    /\ TakesJob(c, q)
    /\ Fails(c, q)
    /\ UNCHANGED <<time, readyTime, alone, unlisted, failures>>

-----------------------------------------------------------------------------
CallStep(c) == SchedulePosted(c) \/ SchedulePostFails(c) \/ EndRound(c)

ChainStep(c, q) ==
    \/ \E j \in Jobs : Kick(c, q, j)
    \/ KicksFail(c, q)
    \/ Reserve(c, q) \/ ReserveFails(c, q)
    \/ \E j \in Jobs : HandlerQueues(c, q, j)
    \/ JobSucceeds(c, q) \/ DeleteFails(c, q) \/ JobFails(c, q)

Next ==
    \/ Travel \/ ResetSchedule \/ PurgeQueues
    \/ \E j \in Jobs : QueueJob(j) \/ DelayJob(j) \/ DelayJobFails(j)
    \/ \E c \in Calls : Call(c) \/ CallStep(c)
    \/ \E c \in Calls, q \in Queues : ChainStep(c, q)
    \/ \E q \in Queues : ConnectionLost(q)

Spec == Init /\ [][Next]_vars

(* Requests are answered or fail, and handlers end or time out. *)
Fairness ==
    /\ \A c \in Calls : WF_vars(CallStep(c))
    /\ \A c \in Calls, q \in Queues : WF_vars(ChainStep(c, q))

FairSpec == Spec /\ Fairness

-----------------------------------------------------------------------------
(* Every variable has its type.  A reserved job is run by exactly one chain whose
   connection was not lost since, and no other job is, although any number may
   still run it: of those whose connection was lost each deletes or releases it
   under the others (queues.js:349-359, 485-511, 548-552). *)
TypeOK ==
    /\ when \in Schedules /\ clock \in Moments /\ since \in Moments /\ next \in Nat
    /\ status \in [Jobs -> {"none", "ready", "delayed", "reserved", "deleted"}]
    /\ readyTime \in [Jobs -> Nat]
    /\ call \in [Calls -> {"none", "scheduling", "running", "resolved", "rejected"}]
    /\ \A c \in Calls, q \in Queues :
        /\ chain[c][q].at \in {"idle", "kicking", "reserving", "running", "done", "failed"}
        /\ (chain[c][q].at = "kicking") = (chain[c][q].kicks # {})
        /\ (chain[c][q].at = "running") = (chain[c][q].job # NoJob)
    /\ alone \in BOOLEAN /\ failures \in 0 .. MaxFailures
    /\ cut \in SUBSET (Calls \X Queues) /\ unlisted \in SUBSET Jobs
    /\ \A j \in Jobs :
        Cardinality(Holders(j)) = IF status[j] = "reserved" THEN 1 ELSE 0

(* The next time of the schedule is its first occurrence that was due when it
   was last computed, whatever the clock did since (scheduler.js:96-144). *)
NextIsFirstDue ==
    IsFirstDue(next, Moments, since, when.start, when.every, when.end)

(* A call queues a job for the schedule exactly when one of its occurrences
   came between the moment it was last reset and now (scheduler.js:96-105). *)
QueuesWhatIsDue(c) ==
    (call[c] = "none" /\ call'[c] # "none") =>
        (call'[c] = "scheduling" <=>
            \E t \in 1 .. clock : /\ Occurrence(t, when.start, when.every, when.end)
                                  /\ Due(t, since, when.start))
RunsWhenDue == [][\A c \in Calls : QueuesWhatIsDue(c)]_vars

(* When a call resolves no job is left that a handler could run: none is ready,
   and none delayed whose time has come; not even one that a job of another
   queue queued, or that an earlier call put back.  Chains of an earlier call
   that were left when the last round began may still queue or release one, and
   a delayed job of which the post failed is not known
   (queues.js:698-709, 278-292, 349-359; index.js:156-163). *)
Drained ==
    \A j \in Jobs :
        /\ status[j] \notin {"ready", "reserved"}
        /\ status[j] = "delayed" => readyTime[j] > clock \/ j \in unlisted
ResolvedMeansDrained ==
    [][\A c \in Calls : Waiting(c) /\ call'[c] = "resolved" /\ alone => Drained']_vars

(* A delayed job stays on the list until it was kicked, whichever kick failed: no
   time travel would make it ready if it were not.  The exception is one that was
   stored although its post failed (queues.js:195-220, 309-326). *)
DelayedJobsListed ==
    \A j \in Jobs : status[j] = "delayed" => readyTime[j] > 0 \/ j \in unlisted

(* Every call settles (index.js:156-163). *)
CallsSettle == \A c \in Calls : Waiting(c) ~> call[c] \in {"resolved", "rejected"}

=============================================================================
