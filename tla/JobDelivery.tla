---------------------------- MODULE JobDelivery ----------------------------
(***************************************************************************)
(* The life of one job between the broker and the workers that reserve it: *)
(* Queue._runAndDestroy, runJob, and what the broker clients ask of the    *)
(* broker (lib/queues.js, lib/run_job.js, lib/sqs.js, lib/beanstalk.js,    *)
(* lib/iron_mq.js).                                                        *)
(*                                                                         *)
(* An attempt is one reservation in one worker.  It ends in a delete when  *)
(* all handlers of the queue resolved, in a release when one rejected or   *)
(* the timer of runJob fired.  The broker gives the job to the next worker *)
(* when a release takes effect, or when it heard nothing in its own time.  *)
(* Requests and replies may be slow or lost and a worker may die.          *)
(*                                                                         *)
(* Time is counted in ticks; timers hold what is left.  Production values  *)
(* are scaled down: one tick of ReleaseDelay is MIN_RELEASE_DELAY.         *)
(***************************************************************************)
EXTENDS Integers, FiniteSets

CONSTANTS
    Workers,            (* slots for concurrent attempts (bound)              *)
    Handlers,           (* the handlers of the queue                          *)
    ProcessingTimeout,  (* PROCESSING_TIMEOUT, the timer of runJob            *)
    Latency,            (* the longest way of a reserve reply                 *)
    MaxReleaseDelay,    (* MAX_RELEASE_DELAY                                  *)
    Brokers,            (* [timeout, counts, stale, bound]: how long it waits
                           for an attempt, whether its reply carries the number
                           of receives, whether it may obey a receipt it
                           replaced, whether a reservation belongs to the
                           connection it was made on                          *)
    MaxCount,           (* where this model stops counting (bound)            *)
    None                (* no worker                                          *)

ASSUME JobDeliveryAssumption ==
    /\ {ProcessingTimeout, MaxReleaseDelay, MaxCount} \subseteq Nat \ {0}
    /\ Latency \in Nat
    /\ Brokers \subseteq [timeout : Nat \ {0}, counts : BOOLEAN, stale : BOOLEAN,
                          bound : BOOLEAN]
    /\ None \notin Workers
    /\ Handlers # {} /\ IsFiniteSet(Handlers)

VARIABLES
    broker,     (* the broker of this queue; it does not change               *)
    job,        (* the broker's record: [state, holder, left, received]       *)
    stage,      (* worker -> where its attempt is                             *)
    timer,      (* worker -> ticks left of the reply's way, or of runJob      *)
    count,      (* worker -> receiveCount of its attempt                      *)
    handler,    (* worker -> handler -> what became of its call               *)
    release,    (* worker -> delay of the release request on its way, or -1   *)
    succeeded,  (* history: all handlers resolved within one attempt          *)
    failures,   (* history: attempts that ended in a release                  *)
    cut         (* history: workers whose attempt lost its reservation before
                   the broker's time, with a connection or by the request of
                   another attempt                                            *)

workerVars  == <<stage, timer, count, handler>>
historyVars == <<succeeded, failures, cut>>
vars        == <<broker, job, workerVars, release, historyVars>>

Stages == { "none",         \* no attempt
            "reply",        \* the reply to reserve is on its way
            "running",      \* handlers run, the timer of runJob is set
            "deleting" }    \* the delete request is on its way

Smaller(a, b) == IF a <= b THEN a ELSE b

CountUp(n) == Smaller(n + 1, MaxCount)

(* What getReleaseDelay is for the attempt: exponential and capped.  The
   jitter only adds to it. *)
Exponential(attempt) == Smaller(2 ^ (attempt - 1), MaxReleaseDelay)

Init ==
    /\ broker \in Brokers
    /\ job = [state |-> "ready", holder |-> None, left |-> 0, received |-> 0]
    /\ stage = [w \in Workers |-> "none"]
    /\ timer = [w \in Workers |-> 0]
    /\ count = [w \in Workers |-> 1]
    /\ handler = [w \in Workers |-> [h \in Handlers |-> "idle"]]
    /\ release = [w \in Workers |-> -1]
    /\ succeeded = FALSE
    /\ failures = 0
    /\ cut = {}

-----------------------------------------------------------------------------
(***************************************************************************)
(* The broker.                                                             *)
(***************************************************************************)

MakeReady == job' = [job EXCEPT !.state = "ready", !.holder = None, !.left = 0]

(* reserve(): the broker's clock starts before the reply is on its way. *)
Reserve(w) ==
    /\ job.state = "ready"
    /\ stage[w] = "none" /\ release[w] = -1
    /\ job' = [state |-> "reserved", holder |-> w, left |-> broker.timeout,
               received |-> CountUp(job.received)]
    /\ stage' = [stage EXCEPT ![w] = "reply"]
    /\ timer' = [timer EXCEPT ![w] = Latency]
    /\ count' = [count EXCEPT ![w] = IF broker.counts THEN CountUp(job.received) ELSE 1]
    /\ cut' = cut \ {w}
    /\ UNCHANGED <<broker, handler, release, succeeded, failures>>

(* The broker heard nothing in time, or the delay of a release is over. *)
BecomesReady ==
    /\ job.state \in {"reserved", "delayed"}
    /\ job.left = 0
    /\ MakeReady
    /\ UNCHANGED <<broker, workerVars, release, historyVars>>

(* Does the broker release the job for this worker's receipt?  Where reservations
   belong to connections the receipt is the number of the job, and all attempts of
   a queue share its connection: it does for any of them while one holds the job. *)
Obeys(w) ==
    /\ job.state # "deleted"
    /\ job.holder = w \/ broker.stale \/ (broker.bound /\ job.state = "reserved")

(* Who held the job, if it was another attempt, has lost it. *)
CutHolder(w) == cut' = cut \cup ({job.holder} \ {None, w})

(* Variant: the request is sent again although it was obeyed. *)
RepeatingReleaseArrives(w) ==
    /\ release[w] # -1
    /\ Obeys(w)
    /\ IF release[w] = 0 THEN MakeReady
       ELSE job' = [job EXCEPT !.state = "delayed", !.holder = None, !.left = release[w]]
    /\ CutHolder(w)
    /\ UNCHANGED <<broker, workerVars, release, succeeded, failures>>

(* The release request arrives. *)
ReleaseArrives(w) ==
    /\ release[w] # -1
    /\ Obeys(w)
    /\ IF release[w] = 0 THEN MakeReady
       ELSE job' = [job EXCEPT !.state = "delayed", !.holder = None, !.left = release[w]]
    /\ release' = [release EXCEPT ![w] = -1]
    /\ CutHolder(w)
    /\ UNCHANGED <<broker, workerVars, succeeded, failures>>

(* It is lost, or refused: nobody waits for it, the error is swallowed. *)
ReleaseFails(w) ==
    /\ release[w] # -1
    /\ release' = [release EXCEPT ![w] = -1]
    /\ UNCHANGED <<broker, job, workerVars, historyVars>>

-----------------------------------------------------------------------------
(***************************************************************************)
(* A worker.                                                               *)
(***************************************************************************)

EndAttempt(w) ==
    /\ stage' = [stage EXCEPT ![w] = "none"]
    /\ timer' = [timer EXCEPT ![w] = 0]
    /\ handler' = [handler EXCEPT ![w] = [h \in Handlers |-> "idle"]]
    /\ UNCHANGED count

(* The reply arrives and no capacity could be allocated, or the queue was
   stopped: release with no delay. *)
ReleaseUnrun(w) ==
    /\ stage[w] = "reply"
    /\ EndAttempt(w)
    /\ release' = [release EXCEPT ![w] = 0]
    /\ UNCHANGED <<broker, job, historyVars>>

(* runHandlers: all handlers are called in one step, each with its timer. *)
RunHandlers(w) ==
    /\ stage[w] = "reply"
    /\ stage' = [stage EXCEPT ![w] = "running"]
    /\ timer' = [timer EXCEPT ![w] = ProcessingTimeout]
    /\ handler' = [handler EXCEPT ![w] = [h \in Handlers |-> "called"]]
    /\ UNCHANGED <<broker, job, count, release, historyVars>>

(* A handler's promise resolves or rejects.  Once the attempt is over nobody
   listens, so those of an earlier attempt are not followed. *)
HandlerSettles(w, h, outcome) ==
    /\ stage[w] = "running"
    /\ handler[w][h] = "called"
    /\ handler' = [handler EXCEPT ![w][h] = outcome]
    /\ succeeded' = (succeeded \/ \A k \in Handlers : handler'[w][k] = "resolved")
    /\ UNCHANGED <<broker, job, stage, timer, count, release, failures, cut>>

Resolved(w) == \A h \in Handlers : handler[w][h] = "resolved"

(* Variant: the first handler that resolves decides (a race). *)
RacingDeleteJob(w) ==
    /\ stage[w] = "running"
    /\ \E h \in Handlers : handler[w][h] = "resolved"
    /\ stage' = [stage EXCEPT ![w] = "deleting"]
    /\ timer' = [timer EXCEPT ![w] = 0]
    /\ UNCHANGED <<broker, job, count, handler, release, historyVars>>

(* Promise.all of the handlers resolved: deleteJob. *)
DeleteJob(w) ==
    /\ stage[w] = "running"
    /\ Resolved(w)
    /\ stage' = [stage EXCEPT ![w] = "deleting"]
    /\ timer' = [timer EXCEPT ![w] = 0]
    /\ UNCHANGED <<broker, job, count, handler, release, historyVars>>

(* The delete request arrives.  Where reservations belong to connections a job
   that nobody holds is deleted for whoever asks. *)
DeleteArrives(w) ==
    /\ stage[w] = "deleting"
    /\ Obeys(w) \/ (broker.bound /\ job.state # "deleted")
    /\ job' = [job EXCEPT !.state = "deleted", !.holder = None, !.left = 0]
    /\ EndAttempt(w)
    /\ CutHolder(w)
    /\ UNCHANGED <<broker, release, succeeded, failures>>

(* It is lost, or refused: "there's nothing we can do about an error here". *)
DeleteFails(w) ==
    /\ stage[w] = "deleting"
    /\ EndAttempt(w)
    /\ UNCHANGED <<broker, job, release, historyVars>>

(* Promise.all rejects with the first handler that does; the timer of runJob
   rejects a handler that is not done. *)
Rejected(w) ==
    \/ \E h \in Handlers : handler[w][h] = "rejected"
    \/ timer[w] = 0 /\ ~Resolved(w)

(* Variant: the delay is the same for every attempt. *)
ConstantReleaseJob(w) ==
    /\ stage[w] = "running"
    /\ Rejected(w)
    /\ EndAttempt(w)
    /\ release' = [release EXCEPT ![w] = Exponential(1)]
    /\ failures' = CountUp(failures)
    /\ UNCHANGED <<broker, job, succeeded, cut>>

(* releaseJob with getReleaseDelay(receiveCount). *)
ReleaseJob(w) ==
    /\ stage[w] = "running"
    /\ Rejected(w)
    /\ EndAttempt(w)
    /\ release' = [release EXCEPT ![w] = Exponential(count[w])]
    /\ failures' = CountUp(failures)
    /\ UNCHANGED <<broker, job, succeeded, cut>>

(* The process ends, or the reply to reserve is lost.  The broker may notice: the
   connection is closed. *)
WorkerDies(w) ==
    /\ stage[w] # "none"
    /\ EndAttempt(w)
    /\ \/ UNCHANGED job
       \/ broker.bound /\ job.holder = w /\ MakeReady
    /\ UNCHANGED <<broker, release, historyVars>>

(* The connection on which the job was reserved is lost: it is ready at once.
   A reply on its way is lost too, but handlers that run go on, and what they end
   in is sent on the next connection. *)
ConnectionLost(w) ==
    /\ broker.bound
    /\ job.holder = w
    /\ MakeReady
    /\ IF stage[w] = "reply" THEN EndAttempt(w) ELSE UNCHANGED workerVars
    /\ cut' = cut \cup {w}
    /\ UNCHANGED <<broker, release, succeeded, failures>>

(* Variant: the timer of runJob is not set. *)
UntimedTick ==
    /\ job' = [job EXCEPT !.left = IF @ > 0 THEN @ - 1 ELSE 0]
    /\ UNCHANGED <<broker, workerVars, release, historyVars>>

(* One tick for all.  The timer of runJob fires on time, and a reply does not
   take longer than Latency; the broker may be late. *)
Tick ==
    /\ \A w \in Workers : stage[w] \in {"reply", "running"} => timer[w] > 0
    /\ job' = [job EXCEPT !.left = IF @ > 0 THEN @ - 1 ELSE 0]
    /\ timer' = [w \in Workers |-> IF timer[w] > 0 THEN timer[w] - 1 ELSE 0]
    /\ UNCHANGED <<broker, stage, count, handler, release, historyVars>>

WorkerStep(w) ==
    \/ ReleaseUnrun(w)
    \/ RunHandlers(w)
    \/ DeleteJob(w)
    \/ ReleaseJob(w)

RequestStep(w) ==
    \/ ReleaseArrives(w)
    \/ ReleaseFails(w)
    \/ DeleteArrives(w)
    \/ DeleteFails(w)

Next ==
    \/ \E w \in Workers : Reserve(w)
    \/ BecomesReady
    \/ \E w \in Workers : WorkerStep(w)
    \/ \E w \in Workers : RequestStep(w)
    \/ \E w \in Workers, h \in Handlers, outcome \in {"resolved", "rejected"} :
          HandlerSettles(w, h, outcome)
    \/ \E w \in Workers : WorkerDies(w) \/ ConnectionLost(w)
    \/ Tick

Spec == Init /\ [][Next]_vars

(***************************************************************************)
(* Time passes and the broker keeps its own; workers go on with what they  *)
(* have, requests arrive or fail, and some worker reserves what is ready   *)
(* (module Processing).  No handler has to settle, nor need one succeed.   *)
(***************************************************************************)
Fairness ==
    /\ WF_vars(Tick)
    /\ WF_vars(BecomesReady)
    /\ WF_vars(\E w \in Workers : Reserve(w))
    /\ \A w \in Workers : WF_vars(WorkerStep(w)) /\ WF_vars(RequestStep(w))

FairSpec == Spec /\ Fairness

-----------------------------------------------------------------------------
(* README.md:207 "each job will go to all the handlers": a job leaves the queue
   only because all of them resolved in one and the same attempt, whatever was
   lost, late or repeated before. *)
DeletedOnlyIfSucceeded == job.state = "deleted" => succeeded

(* README.md:208 "If any handler fails to process the job, it will return to
   the queue": so it does after every failed attempt, every lost request and
   every dead worker. *)
ComesBack == job.state \in {"reserved", "delayed"} ~> job.state \in {"ready", "deleted"}

(* The job is tried again and again until it is deleted. *)
TriedUntilDeleted == []<>(job.state = "deleted" \/ \E w \in Workers : stage[w] = "reply")

(* run_job.js:31 "Server gets a longer timeout than we do": on a broker that waits
   longer than an attempt can last, and obeys no receipt it replaced, no other
   worker runs the job while this one waits for its handlers; unless one of the two
   lost its reservation with the connection, or to the late request of one that did
   (run_job.js:30-40, queues.js:429-448). *)
OneAttemptRunsInTime ==
    broker.timeout > Latency + ProcessingTimeout /\ ~broker.stale =>
        \A w1, w2 \in Workers \ cut :
            stage[w1] = "running" /\ stage[w2] = "running" => w1 = w2

(* CHANGELOG.md 7.0.0 "Failed jobs are now retried with an exponential
   backoff": on a broker that counts receives, the release of the latest attempt
   keeps the job away for the n-th delay or a later one after n failures, although
   attempts may overlap and other releases be late or lost. *)
BackoffGrows ==
    [][ \A w \in Workers :
            (broker.counts /\ failures > 0 /\ job.holder = w
                /\ release'[w] # release[w] /\ job'.state = "delayed")
                => \E n \in failures..MaxCount : job'.left = Exponential(n) ]_vars

=============================================================================
