# A formal model of Ironium

TLA+ modules, model-checking configurations and machine-checked proofs for the
job queue and scheduler in `src/lib`. Line numbers below refer to the files of
`src/lib` unless another file is named.

## The system

Ironium is a library that a worker process loads. The process names queues and
registers handlers (`eachJob`), schedules jobs (`scheduleJob`), and calls
`start()`; jobs live in a broker (Beanstalk, IronMQ or SQS) which other
processes use too. JavaScript runs one callback at a time, so that there are no
data races in the usual sense; but every `.then()` is a point where any other
chain of promises may run, and nearly everything here is a chain of promises
over shared counters, flags and lists.

| Component | State | Operations | Talks to |
|---|---|---|---|
| Queue processing, `queues.js` class `Queue` 362-525 and `Queues` 722-775 | `_processing`, `_handlers`, `_getSessionPromise` per queue; `_activeJobs`, `_waitingForReserve` for the process | `_processContinuously`, `getReserveCapacity`, `allocateCapacity`, `freeCapacity`, `_runAndDestroy` | broker clients; configuration (a promise) |
| Queue life cycle, `queues.js` 239-273, 639-688, `index.js` 140-150 | `Queues.started`, `_queues` | `getQueue`, `eachJob`, `start`, `stop` | starts and stops processing; asks `canStartQueue` |
| Job delivery, `queues.js` 437-525, `run_job.js`, `sqs.js`, `beanstalk.js`, `iron_mq.js` | the broker's record of the job; a timer per handler call | reserve, run handlers, delete, release with a delay | handlers; broker |
| Schedule times, `scheduler.js` 115-144 | none | `_getNextSchedule` | |
| Scheduler, `scheduler.js` | `started`, `_schedules`, per schedule `_next`, `_timeout`, `_interval` | `scheduleJob`, `start`, `stop`, timers, `_queueNext` and its retry, `shouldRunJob` | timers of Node.js; its queue; a mutex |
| Running once, `queues.js` 278-326, 349-359, 698-709, `scheduler.js` 96-112 | `_delayedJobs`, `_next` | `runOnce`, `resetSchedule` | put and get sessions |
| Queueing and streams, `queues.js` 57-129, 162-227, 338-343 | `_queuing` of the queue and of the stream, `_lastError` | `delayJobs`, `_throttle`, `QueuingTransform` | put session |
| Beanstalk sessions, `beanstalk.js` | `_connectPromise` | `connect`, `request` | Fivebeans |
| Schedule mutexes, `iron_cache_mutex.js`, `redis_mutex.js` | a key per schedule, for 59 s | `canScheduleJob` | cache server |
| SQS batches, `sqs.js` 16-71 | `queueURL` | `post` | SQS |
| Topics, `topics.js`, `sns.js` | `subscribers`, `_snsClient` | `publish`, `subscribe` | SNS |
| Configuration, `configuration.js`, `index.js` 130-183 | `_configPromise` | `configure` | environment |

What is hard in each, and what makes it correct:

* **Queue processing.** All loops share one counter, read it in one
  continuation and act on it in later ones. Correct is: the counter counts the
  jobs that hold capacity; those never exceed the limit; every reservation is
  run or released, once; a loop that waits for capacity gets it; a stopped queue
  drains.
* **Life cycle.** `start()` is a sequence of promises over a map that grows
  while it runs, and `stop()` may come at any point of it. Correct is: exactly
  the queues that may be started are processing, each with a loop.
* **Job delivery.** Requests are lost, workers die, and two clocks (the broker's
  and the worker's) run on the same attempt. Correct is: at-least-once delivery
  with a backoff, and no deletion without success.
* **Scheduler.** Timers overlap with `start()`, `stop()`, late `scheduleJob()`
  and the retries of failed posts. Correct is: no occurrence too early, too late
  or twice, and no schedule that loses its timer.
* **Streams.** Posts succeed and fail in any order while the stream is open, held
  back or flushing. Correct is: bounded posts, no job without an answer, nothing
  queued after an error, an end.
* **Running once.** Chains that failed go on in the background and meet those of
  the next call, around a clock that the test sets. Correct is: what is due is
  queued, no delayed job is forgotten, a call that resolves leaves nothing to run.
* **Sessions.** A connection may be refused, time out, fail in its setup, end or
  break with requests at every point of the way. Correct is: one connection at a
  time, no request forgotten, and another connection after a failure.
* **Mutexes.** Processes fire late, fail, retry and restart around a key that
  expires. Correct is: an occurrence is queued once.
* **Batches.** Chunks are answered in any order and refused in part. Correct is: a
  call that resolves has stored all jobs, each ID in its place.

`PROJECT.json` lists each hazard at its line with the properties that cover it.

## Modules

### Processing

Every action is one continuation: what the code runs from one `.then()` to the
next. A processing loop has a program counter `pc[l]` whose values name the
continuation that runs next, in the order of `_processContinuously`; a reserved
job has its place `run[r]` in `_runAndDestroy(...).catch().then(freeCapacity)`.
Any enabled continuation may run next. This allows more orders than a given
version of Node.js and Bluebird produces; it is justified because handlers,
brokers and the configuration are promises of the caller's making, which put
any number of ticks between two continuations, and because queues of native
promises, Bluebird promises, timers and I/O drain in an order that differs
between the versions `package.json` admits.

| Model | Code |
|---|---|
| `config`, `Configure` | `_configPromise`: a limit, or `Rejected` (index.js 130-133, 179-183) |
| `Ask`, `Answer`, `asked`, `wakeAsked` | `this.configPromise.then(...)` (742, 768): the callback gets the configuration of the turn in which it was asked for, whatever `configure()` does until it runs |
| `activeJobs`, `waitingForReserve` | `_activeJobs`; the resolve functions of `_waitingForReserve`, by their loop |
| `StartProcessing`, `EachJob`, `Start`, `StopQueues` | 239-273, 363-369; `session` is the cached promise of the getter 548-552 |
| `CalculateReserveCapacity`, `GetReserveCapacity` | the two continuations of 724-735 |
| `ReserveJobs`, `ReserveFails` | the broker's answer to `reserve`; at most what was asked for |
| `CheckProcessing`, `AllocateCapacity`, `Dispatch` | 384-392, 741-749, 393-409 with both `slice` calls on a negative count |
| `JobSucceeds`, `DeleteJob`, `JobFails` | the ends of `_runAndDestroy`; a delete is waited for, a release is not |
| `FreeCapacity`, `WakeCalculate`, `WakeWaiting` | 752-765, again two continuations and the synchronous head |

`agreed` is history that no guard reads: the limit that was set last, as long as the
whole process can agree on it (`CanAgree`), and `Rejected` for good once
`configure()` set one below what runs, or one that differs from what a loop is about
to allocate with. The next allocation is then negative in the code, and so is what
it adds to the counter; `CapacityAccounting`, `ConcurrencyLimit` and `RefinesPool`
speak of the limit agreed on. `config` may be set to anything at any time.

A release returns the reservation at once: what becomes of a release that is
late or lost is the subject of JobDelivery. `stop()` also drops the put session,
which no loop uses. A rejected client promise starts no loop, as in the code.

`WorkerPool` is what the process promises: items are taken within a limit and
freed. `Pool` in Processing is the refinement mapping: the busy items are the
reservations that hold capacity.

### Lifecycle

Extends Processing with `Queues`: `started`, the map of queues in the order they
were named, and sweeps. A sweep is the chain of promises of one call of
`start()` (`Bluebird.each` over the queues then known), or of one queue named
after `start()`. `Visit` asks the configuration of its turn (`visit`), and `SweepStep`
is the continuation of `_canStartQueue`, which runs if that one resolved: it starts
its queue without another look at `started`, and what it starts reads the
configuration of this later turn. `SweepFails` is a configuration that rejected or a `canStartQueue()` that throws: the rest of the sweep is not visited.
`skipped` remembers which queues that may be started were missed so since the last
`start()`; it is history that no guard reads. `configure()` is `Reconfigure` of
Processing, at any point between these. A queue whose session is made while the
configuration rejects keeps the rejection (`session`, `StartProcessing`): it counts
as processing and has no loop, until `stop()` forgets the session.
`ProcessingHasLoop` says that this is the only way to such a queue. What
`canStartQueue()` answers is the same in all configurations.

### JobDelivery

One job, its record at the broker, and workers that reserve it. A worker goes
from the reply on its way to the handlers running to the delete or release. The
timer of `runJob` and the broker's own are counted in ticks. The three brokers
differ in how long they wait, in whether their reply carries the number of
receives, and in whether a receipt that was replaced may still be obeyed; the
broker is chosen in the initial state. Lost and refused requests are
`ReleaseFails` and `DeleteFails`; the code treats both alike. `ReleaseUnrun` is
the other release, of a job that got no capacity (queues.js 408).

A reservation on Beanstalk is the connection's (`bound`). `ConnectionLost` is the
loss of that connection: the job is ready at once, while the handlers run on and send
what they end in on the next connection (444-448, 485-511), where it is obeyed if
any attempt of the queue has the job reserved, or, for a delete, if none has.
`cut` is history: the attempts that lost their reservation so, or to the request of
one that did. `WorkerDies` is the end of a process, whose connection the broker may
or may not see closed at once.

The broker is not in `src/lib`: what it does with reserve, delete, release and
its timeouts is modelled from the requests of the clients and marked external.

### NextTime, Scheduler

`NextTime` has `_getNextSchedule` as an operator, and what it should be: the
first occurrence that is due. `Scheduler` has the timers: the first one of a
schedule, its interval, and those of retries, with `stored` telling whether
`_timeout` or `_interval` still refers to it, which decides whether `stop()`
reaches it. `VisitFails` ends the visits of a `start()`, and `skipped` remembers which
schedules it left without a timer. A post has four ends (`QueueNext`): it is stored,
refused by the mutex, not stored, or stored with its answer lost (`lost`), and the last two are
retried. A delay out of the range of a Node.js timer fires at once. Within a
tick everything that is due happens before the clock goes on.

### RunOnce

`runOnce()` of a test on Beanstalk: `Call` looks at the schedule (96-105 of
scheduler.js) and, if its time has come, queues its job first; then rounds of one
chain per queue. A chain kicks the delayed jobs whose time has come, then reserves
and runs one job after the other until the queue is empty (`ChainStep`), and
`EndRound` begins another round if some chain ran a job (queues.js 698-709). The
first chain that fails rejects the call; the others stay where they are in
`chain`, and go on while the test makes its next call. `Travel` sets the clock,
`ResetSchedule` and `PurgeQueues` are the other calls of a test. `next` is
computed with `NextSchedule` of NextTime. The chains of a queue share its get session:
`ConnectionLost` puts back all that they have reserved, and leaves them running
(`cut`); each of them then deletes or releases its job under whoever has it by then
(`TakesJob`). `DelayJobFails` is a delayed job that was stored by a call that failed,
which is never listed (queues.js 195-220, `unlisted`). `alone` is history: no chain of another
call was left when the round began.

### Stream, JobBatches

`JobBatches` is a call of `queueJobs()` or `delayJobs()` with several jobs on each
of the three services: `ChunkSize` is ten on SQS, one on Beanstalk and the size of
the call on IronMQ, and `PartialRefusals` says whether a request may store some of
its jobs (SQS). `ChunkStored` takes the answer's entries in any order, and
`OrderedJobIDs` finds the ID of each job in them, as sqs.js 61-64 does.

`Stream` extends it: a stream that queues the jobs written to it, while other
callers of its queue queue batches. Each job has its place between `_transform`
and the end of its promise: `post[p]`. The answer of the broker sets off two
continuations in either order: `DecrementQueuingCount`, the immediate that takes
the job off the queue's count and lets a job in that the throttle holds back (the
`ready` listener runs in the same turn), and `JobQueued` or `JobFails`, the
stream's own. A job that is null or false throws out of `_transform` after the stream
counted it (`thrown`, queues.js 101, 181), and the stream is `broken`. `BatchCounted` is the immediate of a batch, which takes off all of
its jobs at once. The stream machinery of Node.js is external: `_transform` for
one job at a time, `_flush` once after the callback of the last.

### BeanstalkSession

| Model | Code (beanstalk.js) |
|---|---|
| `connectPromise`, `promise`, `made` | `_connectPromise`: which connection's promise it is, and how far that is; connections are numbered |
| `Request`, `Connect`, `line` | `request` and `connect`: the requests that wait for the promise, and those that were sent, in the order of the connection |
| `Connected`, `ConnectFails`, `ConnectTimesOut` | the race between the events of the socket and `CONNECT_TIMEOUT` |
| `SetupSucceeds`, `SetupFails` | `use` or `watch` before the promise resolves |
| `Answer` | the server's answer to the first request in line |
| `End`, `Close`, `Break`, `OnClose` | the listeners on `end`, `close` and `error`: a connection discards its own promise only, requests that were sent listen themselves |

Sockets, Fivebeans and the server are external. `failures` counts and bounds what
goes wrong.

### ScheduleMutex

One scheduled job in several processes. Each process has, for each occurrence, a
stage from the timer (`Fire`) over the request for the key (`Ask`) to the post
(`Post`), with `Fail` and `Retry` as `_queueNext` (scheduler.js 148-169) has them:
five seconds later, if the job runs once or at an interval above ten minutes.
`Restart` is a process that ends and is started again; what it had on its way may have
arrived. `StartAgain` is a job that runs once and is started after its time, by a
process that was started again or by its `start()`: the delay is negative, and it
fires at once (62-70). The key carries the name of
the job only, expires after `Ttl`, and nobody deletes it. `left` counts the time
of what is under way; `Tick` lets no timer be later than `MaxSkew` and no request
take longer than `MaxDelay`. The key has no owner: what an occurrence can lose to one
is stated by time, as `LastAsk`, after which no request for it is made. The cache
servers are external.

### Proofs and instances

The theorems about a module M are in MProofs, those about Lifecycle in
ProcessingProofs, those about JobBatches in StreamProofs; see below. The modules whose names
begin with MC give the constants values for TLC.

An operator introduced by a comment "Variant:" is a plausible fault in the code,
kept beside the definition it would replace to show which property notices it.

## Runs

| Run | Instance | Shows |
|---|---|---|
| ProcessingSafety | one queue, two loops (stop and start while a loop is in flight), three reservations, limits 1 and 2, a limit that changes or is lost while loops wait for the old one | `TypeOK`, `CapacityAccounting`, `ConcurrencyLimit`, `OneOwner`, `WaitersParked`; `RefinesPool` |
| ProcessingLiveness | two queues, limits 1 and 2, fixed | `ReservationsReturn`, `StopDrains`, `WaitingLoopWoken` |
| Lifecycle | two queues of which one may be started, two sweeps, two loops, visits that fail, a configuration that rejects | `OnlyStartable`, `ProcessingHasLoop`, `StartedQueuesProcess`; `StartReachesQueues` |
| Delivery | two workers, two handlers, three brokers, connections that are lost | `DeletedOnlyIfSucceeded`, `OneAttemptRunsInTime`; `ComesBack`, `TriedUntilDeleted`, `BackoffGrows` |
| SchedulerRestart | a recurring and a one-time schedule, `start()` twice, `stop()`, late `scheduleJob()`, visits that fail, one answer lost per schedule | `NotBeforeStart`, `ArmedWhileStarted`, `StopReachesTimers`, `BacklogBoundedUnlessRetried`, `NotAfterEnd`, `OneOffOncePerStart` |
| Stream | four jobs of a stream, another caller's batch of three in chunks of two and one, a throttle of two, posts that fail, jobs that throw | `TypeOK` (the two counters agree with the posts), `FinishedMeansAnswered`, `ResolvedMeansStored`; `ThrottleOpens` |
| Session | three requests, three failures, so up to four connections | `TypeOK` (a pending request is in one line), `OneConnection`; `RequestsSettle`, `Reconnects` |
| Mutex | two processes, two occurrences, a one-off and two intervals, two failures per occurrence, two late starts of the one-off | `OncePerFailure`, `QueuedUnlessFailed` |
| RunOnce | two calls, two queues, three jobs, three kinds of schedule, a clock of four moments, one request or connection that fails | `TypeOK` (a reserved job has one chain that holds it), `NextIsFirstDue`, `DelayedJobsListed`; `RunsWhenDue`, `ResolvedMeansDrained`, `CallsSettle` |

Runs that are expected to find a violation, each a disagreement between the code
and what the repository says of it:

| Run | Statement | What happens |
|---|---|---|
| LostWakeup | queues.js:723 "Promise doesn't resolve until capacity is available" (`WaitingEnds`) | the last job frees its capacity between the two continuations of `getReserveCapacity`; the loop then waits, with all capacity free, and nothing wakes it |
| StartAfterStop | README.md:341 "You can call this method to stop the workers" (`StopStays`) | a visit of `start()` in flight starts its queue after `stop()` |
| StreamStalls | queues.js:54 "This stream will terminate on the first error" (`TerminatesOnError`) | a failed post stays in `_queuing`: as many as the throttle lets in, and the job it holds back waits forever |

Disagreements met while modelling that no run states:

* run_job.js:31 "Server gets a longer timeout than we do": SQS and IronMQ are given
  the same ten minutes (queues.js:430), counted from earlier; hence the conditions
  in `OneAttemptRunsInTime`. On Beanstalk a lost connection gives the job away while
  its handlers run on (`cut`).
* README.md:296 "the job will run once at the specified time": a second `start()`
  uses the `_next` of the constructor and queues the one-off again
  (scheduler.js:68), and a post that was stored and whose answer was lost is retried
  (150-155); `OneOffOncePerStart` says how often. A process that is started after
  the time of the one-off, its key having expired, queues it again with nothing
  having failed; `OncePerFailure` counts that (`again`).
* beanstalk.js:80-82 "so we need to catch these events ourselves and reject the
  promise": the setup does not (191), so that when the connection is lost while it
  waits, all requests of the session stay pending; `RequestsSettle` excepts them
  (`Abandoned`).
* beanstalk.js:176: a connection that is made after `CONNECT_TIMEOUT`, or whose
  setup failed, stays open though nobody uses it.
* scheduler.js:154 "For a one time job, try to queue again": after a failed post
  the key of the first try, good for 59 seconds, refuses the retry of five seconds
  later (164), and the occurrence is lost. The key carries the job's name and not
  the occurrence, so that at an interval of a minute a process that was late in
  taking it loses the next one too; hence the conditions in `QueuedUnlessFailed`.
* scheduler.js:100: `runOnce()` of a schedule resets `_next` before the post; when
  that fails, the next call does not try the occurrence again.
* README.md:366 "Nothing happens because next run is 7/2": with the clock set back
  `runOnce()` queues nothing but does compute the next run anew, which is 7/1 then
  (scheduler.js:97-100). And a schedule with a start that is looked at exactly at
  an occurrence stays due, so that the next call at the same moment queues it again
  (`NextIsFirstDue` counts the moment itself as due).
* queues.js:309-326 kicks delayed jobs, which only the Beanstalk session can
  (beanstalk.js), while `_delayedJobs` is filled for every service (210-214).
* queues.js:194, 223: a batch that fails leaves all its jobs in `_queuing`, those
  that were stored too.
* CHANGELOG.md:46 "Concurrency is now a global limit": a limit configured below
  what runs makes the allocation negative (queues.js:744-746), and `slice(0,
  negative)` runs all but the last jobs of the reply (399). So does a limit that is
  not below what runs when it is set, if a loop waits for the configuration of
  before: it allocates with that one (742), and exceeds the new limit, to which the
  next loop then allocates a negative number. The counter is wrong from there on,
  which no later `configure()` repairs; hence the condition, `agreed # Rejected`, in
  `CapacityAccounting` and `ConcurrencyLimit`.
* scheduler.js:233 "Start all scheduled jobs.": a configuration that rejects or a
  `canStartQueue()` that throws for one schedule leaves all after it without a timer
  (237-243); hence the condition in `ArmedWhileStarted`.
* queues.js:195-220: of a call that delays several jobs and fails, those that were
  stored are not listed in `_delayedJobs`, and no `runOnce()` kicks them; hence the
  condition in `DelayedJobsListed`.
* scheduler.js:301 "we don't want to run duplicate jobs once the error condition
  is resolved": every interval whose post fails keeps a chain of retries of its
  own (scheduler.js:148-157), and all are queued with a fresh time in the end;
  hence the condition in `BacklogBoundedUnlessRetried`.
* queues.js:111 "next _transform or _flush will find it": a `_flush` that waits
  for `drain` (126) is called back without the error, and the stream finishes.
* CHANGELOG.md:117 "Don't reserve and run a job after queue stopped": `stop()`
  between the check at queues.js:387 and the dispatch at 402 is not noticed.
* CHANGELOG.md:13 "Failed jobs are now retried with an exponential backoff":
  only SQS replies carry the number of receives (beanstalk.js:236, and none in
  iron_mq.js), hence the condition in `BackoffGrows`.
* scheduler.js:14 "end - Do not run after this time": a retry does not look at
  the end (scheduler.js:148-158), hence the condition in `NotAfterEnd`.
* scheduler.js:17 "exactly once, if the start time is in the future": a one-off
  whose time is past runs at once (scheduler.js:68).
* scheduler.js:69: a start more than 2^31-1 ms ahead runs at once. `MaxDelay` of
  the runs is larger than any delay in them.
* scheduler.js:227-230: `scheduleJob()` after `start()` does not ask
  `canStartQueue()`, which `start()` does (238-242).
* queues.js:546 "all other operations should happen on the put session": delete
  and release use the session that reserves (403, 420, 486).

### Bounds

* `Chains` bounds how many chains a loop of one queue runs on at a time. Two is
  what stop and start can make of one; a third adds another of the same kind.
  The proofs hold for any number.
* Three reservations and limits up to 2 let a loop reserve less than, as much
  as, and more than is left when it allocates, and let two replies compete.
* `Sweeps` bounds the calls of `start()` in flight. A sweep of a late queue and
  one of `start()` may run together with two.
* `MaxCount` stops the counters of JobDelivery after the backoff is capped.
* `PromiseHolds` (ProcessingSafety) checks, and does not go on from, a state in which
  the process agrees on no limit any more: the counter may drift without end there.
  Of the properties only `TypeOK`, `OneOwner` and `WaitersParked` say anything of the
  states beyond; their proofs have no such bound.
* `MaxInFlight` bounds the loops and the visits that are in flight together when a new
  sweep begins (Lifecycle).
* `MaxTime`, `MaxStarts`, `MaxLost` stop the clock, the calls of `start()` and the
  answers that are lost of each schedule. In `MCWhen` the recurring schedule has three
  occurrences, a tick apart, and its end before the clock stops, and the one-off is due
  between them; a second start may come at each tick. The recurring one is too frequent
  to be retried, as those of ten minutes or less are, and the one-off is retried.
* `Length` and `Concurrency` of the stream: four jobs on a throttle of two (three
  in the code) let jobs be in flight, held back and not yet written when the first
  fails; the other caller fills the throttle besides.
* `MCRunOnce` has one schedule of each kind (once, recurring, recurring between a
  start and an end), and four moments before, between and after their occurrences.
  Two calls let the chains a failed call left meet those of the next; one failure
  is enough for that, and for a connection that is lost under two chains. Two jobs on one queue and one on the other make a round run
  more than one job, and a job of one queue follow one of the other.
* `MaxFailures` of Session is three: an old connection may fail late, after a new
  one failed and while a third is used. The proofs hold for any number.
* Mutex: with two processes one holds the key and one is refused; two occurrences
  let a key of the first last into the second. `Ttl` 3, intervals of 4 (not
  retried) and 8 (retried), `MaxSkew`, `MaxDelay` and `RetryDelay` 1 keep the order
  of 59 seconds, a minute, more than ten, and five seconds; 4 is below `Ttl +
  MaxSkew + MaxDelay`, as a minute may be. `MaxAgain` 2 lets both processes start the
  one-off again.
* `BatchSize` 3 with chunks of two: one chunk whose entries may be out of order and
  be stored in part, and one that is answered before or after it.
* The ratio of `ProcessingTimeout`, `Latency` and the broker's timeouts is that
  of the code: equal to the first for SQS and IronMQ, longer than both for
  Beanstalk.

`CHECK_DEADLOCK FALSE` is set where the system may stop: all loops parked
(ProcessingLiveness and LostWakeup), a stream that ended (Stream and
StreamStalls), the clock bound (SchedulerRestart), all requests settled (Session),
all occurrences over (Mutex), and a test that ended (RunOnce).
ProcessingSafety uses symmetry of queues, chains and reservations and has no
liveness property.

### Fairness

Processing: every loop and every job takes its next continuation if it stays
enabled. The event loop starves no callback; a reserve request ends with its
wait (`RESERVE_WAIT`) or an error; a handler ends with `PROCESSING_TIMEOUT`; that
a delete request resolves or rejects is what its client's connection promises,
and for Beanstalk is listed as a hazard. Callers owe nothing. Lifecycle asks only
that the visits of `start()` end: the configuration settles, `canStartQueue` answers
or throws. JobDelivery: time passes, the broker keeps its
timeouts, workers go on, requests arrive or are lost, and some worker reserves
what is ready; no handler has to settle and none has to succeed. Stream: every post is
answered or fails, its continuations run, and whoever writes to the stream goes on
or ends it, as `pipe()` does; other callers owe nothing, but their batches are
answered too. Session: a connection is made or `CONNECT_TIMEOUT` ends it, an open
one answers, `close` follows `end`; nothing has to fail, and nobody has to make a
request. RunOnce: the requests of a call are answered or fail and its jobs end, by
their handlers or `PROCESSING_TIMEOUT` (on Beanstalk a request does not, if the connection is
lost during the setup: the case `Abandoned` of Session is not in RunOnce); that a call ends although jobs queue jobs
is so because `Jobs` is finite. The runs Mutex and SchedulerRestart
have no liveness properties: within a tick all that is due happens, by the
guard of `Tick`.

## Proofs

`ProcessingProofs` proves, for any queues, chains, finite set of reservations
and set of limits (`ProcessingAssumption`):

* `Invariant`: `Spec => []IInv`, with
  `IInv = TypeOK /\ CapacityAccounting /\ WithinLimit /\ OneOwner /\ WaitersParked`.
  `configure()` may come between any two steps.
* `TypeCorrect`, `AccountingCorrect`, `LimitRespected`, `OwnershipCorrect`,
  `WaitingListCorrect`: the invariants of ProcessingSafety.
* `Refinement`: `Spec => RefinesPool`.

None of the parts is inductive alone. The counter and the set of jobs that hold
capacity change in different continuations of different chains;
`CapacityAccounting` is kept by `AllocateCapacity` only because the jobs a loop
has in hand hold no capacity yet (`OneOwner`), and because the allocation is not
negative, which needs `WithinLimit`: while the process agrees on a limit the counter
is at most that, and every callback that is yet to allocate has it, and not one of
before (`asked`). It is kept because a callback gets the configuration of its turn,
which is the limit agreed on or a rejection (`AskedKept`). `OneOwner` in turn needs where a loop is when it has
jobs in hand. The lemmas are one per action, after those on cardinalities that
`AllocateCapacity` and `Dispatch` share.

The second part of `ProcessingProofs` is about Lifecycle, on top of the first:
`LInv` adds to `IInv` that sweeps visit queues of the map (`SweepsKnown`: what makes
a visit start only queues that `queue()` named), and that only queues that may be
started are processing (`StartsStartable`: `eachJob()` starts a loop on a
processing queue without asking). It gives `OnlyStartableLoops`,
`AllStartedQueuesProcess` and `ProcessingQueuesHaveLoops`, and that `IInv` holds in
the composition (`LifecycleInvariant`). The lemmas of Processing are cited as they
are; the new ones say what a step of a loop or a job may do to `pc` (`LoopsKept`)
and what a new sweep leaves pending.

`JobDeliveryProofs`, for any workers, handlers, timeouts and brokers:

* `DeletedOnlyAfterSuccess`, from who may be deleting.
* `AttemptsDoNotOverlap` needs, for a broker that waits longer than an attempt can
  last, how much of its time is left: at least what is left of the reply's way and of
  the handlers' time (`AttemptsHold`). It is about attempts that were not cut off from
  their reservation; whoever takes the job from one that holds it cuts it off.
* `DelaysGrow`: `BackoffInv` counts. Every failure is an attempt of its own, and so
  is every attempt that goes on, so that together they are at most the receives
  (`FailuresReceived`); and the worker the broker knows of, and its release, have the
  number of the last receive (`HolderCounts`). A release that is obeyed late is
  another worker's, or the broker does not know its worker any more.

`SchedulerProofs`, for any schedules and any order of timers, failures, `start()`,
`stop()` and `scheduleJob()`:

* `SInv` gives `StartedIsArmed` and `NothingAfterEnd`. No timer is in the past
  (`TimersAhead`), so that a first timer fires at its time exactly.
* `NothingBeforeStart`: what the constructor computed is the start, if that is to
  come, and before the end (`NextInBounds`, from the lemmas of NextTimeProofs). It
  assumes `StartsReachable`, that no start is beyond the range of a timer, because
  the code fires such a timer at once.
* `StopAlwaysReaches`: until a second `start()` a schedule has at most one timer that is
  not a retry's, and none before its visit, so that no reference to one is replaced
  (`OneStored`).
* `BInv` counts the calls of `start()`: a visit, a timer or a post of a one-off
  stands for one each, or for a lost answer (`OneOffCounted`), which gives `OneOffQueuedPerStart`. A
  recurring schedule that was started once and is not retried has one timer, which is
  an interval after all that it queued, and what it queued is an interval apart
  (`OnceStarted`). Three jobs that are not expired would be more than an interval
  from first to last: `BacklogIsBounded`. It needs that an interval of ten minutes,
  the longest that is not retried, is within the range of a timer
  (`SchedulerAssumption`); a longer delay fires at once.

`ScheduleMutexProofs`, for any processes, occurrences, intervals and failures, with
`MInv`: each attempt is where it is in its time (`AttemptsInTime`), and a key was
stored by the last request of some occurrence at the latest (`KeyOwned`).

* `QueuedOncePerFailure`: the attempts that post, that wait for a retry, or that ask
  later than a process without a failure can (`Contenders`) are, with the times the
  job was queued, one more than the failures and the late starts at most; and as long as they are one
  more, the key that one of them got outlasts every first request
  (`ContendersCounted`). This tells a retry from a first request by its time: only
  by then is a second key possible, and only a failure or a late start leads there.
* `NoOccurrenceLostToKey`: a refusal is the fault of a key, which is of this
  occurrence, or of an earlier one that lasts so long (`RefusedForKey`). The property
  once excused the occurrence before only if it had failed; the proof did not go
  through, and with three occurrences TLC shows why: the retry of the first takes a
  key, nobody having failed at the second, that lasts into the third. `KeyOfEarlier`
  names all earlier occurrences for it.

`RunOnceProofs`, for any queues, jobs, calls, schedules and moments:

* `NextIsAlwaysFirstDue` and `AlwaysRunsWhenDue` follow from `NextScheduleIsFirstDue`
  and from which steps compute `_next`; `DelayedJobsAlwaysListed` from `ListInv`.
* `ReservedJobsRunOnce`: a job is reserved exactly if some chain that was not cut off
  runs it, and then one only; what the chains that were cut off do to their jobs they
  do to that chain (`RunInv`, `TakesJob`). The test makes one call at a time
  (`Patient`).
* `ResolvedCallsDrain`: in a round that began with no chain of another call under way
  there is none later (`Alone`), and until one of its chains has run a job, all that
  can be run is a kick the chain of its queue has still to make, or is ready on a
  queue whose chain is not done (`RoundSees`). So when all are done, and none ran a
  job, nothing is left.

`StreamProofs`, for streams, calls, chunks and limits of any size and answers in any
order:

* `FinishedStreamsAnswered`, from the count of the jobs in flight and from which jobs
  were handed over.
* `ResolvedCallsStored`, from the answer of each chunk (`StoredInPlace`).
* `CountsAgree`: each continuation moves one job, or one call, from one stage to
  another, and changes the counts by what that moves in or out of the stages that
  count (`OneMoves`, `BatchMoves`).

`BeanstalkSessionProofs`: `AlwaysOneConnection` and `TypeCorrect`, for any number of
requests and failures. That a connection is left for every request needs that each
one made but the present one has failed; that a request is in one line only needs
that the lines have no duplicates.

`NextTimeProofs`: `NextScheduleIsFirstDue`, the arithmetic of `_getNextSchedule` for
every valid schedule and moment.

Each theorem assumes the ASSUME of its module, which TLC checks in the runs, and
`NothingBeforeStart` what its statement says besides. With these, every invariant and
every safety property of the passing runs is proved.

Only model-checked: the liveness properties (`ReservationsReturn`, `StopDrains`,
`WaitingLoopWoken`, `StartReachesQueues`, `ComesBack`, `TriedUntilDeleted`,
`ThrottleOpens`, `RequestsSettle`, `Reconnects`, `CallsSettle`), because they need
fairness and ENABLED, which the prover does not handle. That the delays themselves
grow with the number is not proved either: the prover knows nothing of `^`, and
`DelaysGrow` says which of the delays it is.

## Not modelled

See `components` in `PROJECT.json`. In short: parsing of options and environment
variables, hashing, logging and error reporting, domains, webhook URLs; and

* Topics (`topics.js`, `sns.js`): a publish is one request, `subscribe` adds to a
  list, and a test's publish calls each subscriber once. With the requests
  abstracted each operation is one assignment, of which no property could fail.
* Configuration (`configuration.js`): functions without state. Processing takes a
  concurrency or a rejection, Lifecycle the answers of `canStartQueue()`.
* The transports of IronMQ and AWS: HTTP requests without state that the control
  depends on. What they ask of the broker is in JobDelivery, how they send several
  jobs in JobBatches.

## Plan

What is left, the most useful first:

1. Which part of the limit is left once `configure()` made it void, and by how much
   the counter may then be wrong.
2. Several streams on one queue, which share its throttle.
3. Scheduler under ScheduleMutex, and RunOnce on Scheduler: each has its part of
   `_queueNext` now.
4. Proofs of what those compositions keep, on the invariants of their parts.
