-------------------------- MODULE JobDeliveryProofs --------------------------
(***************************************************************************)
(* Proofs about JobDelivery: what a job is deleted for, that attempts do   *)
(* not overlap on a broker that waits long enough unless a connection is   *)
(* lost, and that the delays of the releases grow with the failures.       *)
(***************************************************************************)
EXTENDS JobDelivery, FiniteSetTheorems, TLAPS

(* What the proofs need of the types.  The delay of a release may be anything:
   the broker's clock is looked at only while the job is reserved. *)
Typed ==
    /\ broker \in Brokers
    /\ job = [state |-> job.state, holder |-> job.holder, left |-> job.left,
              received |-> job.received]
    /\ job.state = "reserved" => job.left \in Nat
    /\ stage \in [Workers -> Stages]
    /\ timer \in [Workers -> Nat]
    /\ handler \in [Workers -> [Handlers -> {"idle", "called", "resolved", "rejected"}]]
    /\ release = [w \in Workers |-> release[w]]
    /\ succeeded \in BOOLEAN

(* An attempt that may delete the job resolved all handlers. *)
DeletesWhatSucceeded ==
    \A w \in Workers :
        /\ stage[w] = "deleting" => succeeded
        /\ stage[w] = "running" /\ Resolved(w) => succeeded

(* A worker has a release on its way only after its attempt. *)
ReleasesAfterAttempt == \A w \in Workers : release[w] # -1 => stage[w] = "none"

(* The broker waits longer than an attempt can last, and forgets old receipts. *)
InTime == broker.timeout > Latency + ProcessingTimeout /\ ~broker.stale

(* The attempt is the one the broker knows of, which has time for what is left of
   the reply's way and of the handlers' time. *)
HeldFor(w, ticks) ==
    /\ job.state = "reserved" /\ job.holder = w
    /\ job.left > ticks

AttemptsHold ==
    InTime => \A w \in Workers \ cut :
                 /\ stage[w] = "reply" => HeldFor(w, timer[w] + ProcessingTimeout)
                 /\ stage[w] = "running" => HeldFor(w, timer[w])

IInv ==
    /\ Typed
    /\ DeletedOnlyIfSucceeded
    /\ DeletesWhatSucceeded
    /\ ReleasesAfterAttempt
    /\ AttemptsHold

-----------------------------------------------------------------------------
LEMMA ConstantTypes ==
    /\ ProcessingTimeout \in Nat /\ Latency \in Nat
    /\ \A b \in Brokers : b.timeout \in Nat /\ b.stale \in BOOLEAN
BY JobDeliveryAssumption

LEMMA InitInvariant == Init => IInv
<1> SUFFICES ASSUME Init PROVE IInv
  OBVIOUS
<1> USE DEF Init
<1>1. Typed
  BY DEF Typed, Stages
<1>2. DeletedOnlyIfSucceeded
  BY DEF DeletedOnlyIfSucceeded
<1>3. DeletesWhatSucceeded /\ ReleasesAfterAttempt /\ AttemptsHold
  BY DEF DeletesWhatSucceeded, ReleasesAfterAttempt, AttemptsHold
<1> QED
  BY <1>1, <1>2, <1>3 DEF IInv

LEMMA ReserveInvariant ==
    ASSUME IInv, NEW w \in Workers, Reserve(w)
    PROVE IInv'
<1> USE DEF IInv, Reserve, workerVars, historyVars
<1>1. Typed'
  BY ConstantTypes DEF Typed, Stages
<1>2. DeletedOnlyIfSucceeded'
  BY DEF DeletedOnlyIfSucceeded
<1>3. DeletesWhatSucceeded'
  BY DEF DeletesWhatSucceeded, Resolved, Typed
<1>4. ReleasesAfterAttempt'
  BY DEF ReleasesAfterAttempt, Typed
<1>5. AttemptsHold'
  BY ConstantTypes DEF AttemptsHold, HeldFor, InTime, Typed
<1> QED
  BY <1>1, <1>2, <1>3, <1>4, <1>5

LEMMA BecomesReadyInvariant ==
    ASSUME IInv, BecomesReady
    PROVE IInv'
<1> USE DEF IInv, BecomesReady, MakeReady, workerVars, historyVars
<1>1. Typed'
  BY DEF Typed, Stages
<1>2. DeletedOnlyIfSucceeded'
  BY DEF DeletedOnlyIfSucceeded, Typed
<1>3. DeletesWhatSucceeded' /\ ReleasesAfterAttempt'
  BY DEF DeletesWhatSucceeded, ReleasesAfterAttempt, Resolved
<1>4. ASSUME NEW w \in Workers \ cut, stage[w] \in {"reply", "running"}, InTime PROVE FALSE
  BY <1>4, ConstantTypes DEF AttemptsHold, HeldFor, Typed
<1>5. AttemptsHold'
  BY <1>4 DEF AttemptsHold, InTime
<1> QED
  BY <1>1, <1>2, <1>3, <1>5

(* A release that is obeyed is none of a running attempt's, and the attempt it takes
   the job from is cut off. *)
LEMMA ReleaseArrivesInvariant ==
    ASSUME IInv, NEW w \in Workers, ReleaseArrives(w)
    PROVE IInv'
<1> USE DEF IInv, ReleaseArrives, MakeReady, CutHolder, workerVars
<1>1. Typed'
  BY DEF Typed, Stages
<1>2. DeletedOnlyIfSucceeded'
  BY DEF DeletedOnlyIfSucceeded, Typed
<1>3. DeletesWhatSucceeded' /\ ReleasesAfterAttempt'
  BY DEF DeletesWhatSucceeded, ReleasesAfterAttempt, Resolved, Typed
<1>4. ASSUME NEW v \in Workers, v \notin cut', stage[v] \in {"reply", "running"}, InTime
      PROVE FALSE
  BY <1>4, JobDeliveryAssumption DEF AttemptsHold, HeldFor, ReleasesAfterAttempt
<1>5. AttemptsHold'
  BY <1>4 DEF AttemptsHold, InTime
<1> QED
  BY <1>1, <1>2, <1>3, <1>5

LEMMA ReleaseFailsInvariant ==
    ASSUME IInv, NEW w \in Workers, ReleaseFails(w)
    PROVE IInv'
BY DEF IInv, ReleaseFails, workerVars, historyVars, Typed, DeletedOnlyIfSucceeded,
       DeletesWhatSucceeded, ReleasesAfterAttempt, AttemptsHold, HeldFor, InTime, Resolved

(* What every end of an attempt keeps that leaves the job as it is. *)
LEMMA EndAttemptInvariant ==
    ASSUME IInv, NEW w \in Workers, EndAttempt(w),
           UNCHANGED <<broker, job, succeeded, cut>>,
           release' = release \/ \E delay : release' = [release EXCEPT ![w] = delay]
    PROVE IInv'
<1> USE DEF IInv, EndAttempt
<1>1. Typed'
  BY DEF Typed, Stages
<1>2. DeletedOnlyIfSucceeded'
  BY DEF DeletedOnlyIfSucceeded
<1>3. DeletesWhatSucceeded'
  BY DEF DeletesWhatSucceeded, Resolved, Typed
<1>4. ReleasesAfterAttempt'
  BY DEF ReleasesAfterAttempt, Typed
<1>5. AttemptsHold'
  BY DEF AttemptsHold, HeldFor, InTime, Typed
<1> QED
  BY <1>1, <1>2, <1>3, <1>4, <1>5

LEMMA RunHandlersInvariant ==
    ASSUME IInv, NEW w \in Workers, RunHandlers(w)
    PROVE IInv'
<1> USE DEF IInv, RunHandlers, historyVars
<1>1. Typed'
  BY ConstantTypes DEF Typed, Stages
<1>2. DeletedOnlyIfSucceeded'
  BY DEF DeletedOnlyIfSucceeded
<1>3. DeletesWhatSucceeded'
  <2>1. ~Resolved(w)'
    BY JobDeliveryAssumption DEF Resolved, Typed
  <2> QED
    BY <2>1 DEF DeletesWhatSucceeded, Resolved, Typed
<1>4. ReleasesAfterAttempt'
  BY DEF ReleasesAfterAttempt, Typed
<1>5. AttemptsHold'
  BY ConstantTypes DEF AttemptsHold, HeldFor, InTime, Typed
<1> QED
  BY <1>1, <1>2, <1>3, <1>4, <1>5

LEMMA HandlerSettlesInvariant ==
    ASSUME IInv, NEW w \in Workers, NEW h \in Handlers,
           NEW outcome \in {"resolved", "rejected"}, HandlerSettles(w, h, outcome)
    PROVE IInv'
<1> USE DEF IInv, HandlerSettles
<1>1. Typed'
  BY DEF Typed, Stages
<1>2. DeletedOnlyIfSucceeded'
  BY DEF DeletedOnlyIfSucceeded
<1>3. DeletesWhatSucceeded'
  BY DEF DeletesWhatSucceeded, Resolved, Typed
<1>4. ReleasesAfterAttempt'
  BY DEF ReleasesAfterAttempt
<1>5. AttemptsHold'
  BY DEF AttemptsHold, HeldFor, InTime
<1> QED
  BY <1>1, <1>2, <1>3, <1>4, <1>5

LEMMA DeleteJobInvariant ==
    ASSUME IInv, NEW w \in Workers, DeleteJob(w)
    PROVE IInv'
<1> USE DEF IInv, DeleteJob, historyVars
<1>1. Typed'
  BY DEF Typed, Stages
<1>2. DeletedOnlyIfSucceeded'
  BY DEF DeletedOnlyIfSucceeded
<1>3. DeletesWhatSucceeded'
  BY DEF DeletesWhatSucceeded, Resolved, Typed
<1>4. ReleasesAfterAttempt'
  BY DEF ReleasesAfterAttempt, Typed
<1>5. AttemptsHold'
  BY DEF AttemptsHold, HeldFor, InTime, Typed
<1> QED
  BY <1>1, <1>2, <1>3, <1>4, <1>5

(* The attempt that the broker obeys is over, and the one that held the job is cut
   off. *)
LEMMA DeleteArrivesInvariant ==
    ASSUME IInv, NEW w \in Workers, DeleteArrives(w)
    PROVE IInv'
<1> USE DEF IInv, DeleteArrives, EndAttempt, CutHolder
<1>1. Typed'
  BY DEF Typed, Stages
<1>2. DeletedOnlyIfSucceeded'
  BY DEF DeletedOnlyIfSucceeded, DeletesWhatSucceeded
<1>3. DeletesWhatSucceeded'
  BY DEF DeletesWhatSucceeded, Resolved, Typed
<1>4. ReleasesAfterAttempt'
  BY DEF ReleasesAfterAttempt, Typed
<1>5. ASSUME NEW v \in Workers, v \notin cut', stage[v] \in {"reply", "running"}, InTime
      PROVE FALSE
  BY <1>5, JobDeliveryAssumption DEF AttemptsHold, HeldFor
<1>6. AttemptsHold'
  BY <1>5 DEF AttemptsHold, InTime, Typed
<1> QED
  BY <1>1, <1>2, <1>3, <1>4, <1>6

(* The attempt whose reservation ends with a connection is over, or cut off; it was
   the only one that held the job. *)
LEMMA HolderLostInvariant ==
    ASSUME IInv, NEW w \in Workers, job.holder = w, MakeReady,
           EndAttempt(w) \/ UNCHANGED workerVars,
           \/ cut' = cut /\ EndAttempt(w)
           \/ cut' = cut \cup {w},
           UNCHANGED <<broker, release, succeeded>>
    PROVE IInv'
<1> USE DEF IInv, MakeReady, EndAttempt, workerVars
<1>1. Typed'
  <2>1. CASE EndAttempt(w)
    BY <2>1 DEF Typed, Stages
  <2>2. CASE UNCHANGED workerVars
    BY <2>2 DEF Typed, Stages
  <2> QED
    BY <2>1, <2>2
<1>2. DeletedOnlyIfSucceeded'
  BY DEF DeletedOnlyIfSucceeded, Typed
<1>3. DeletesWhatSucceeded'
  BY DEF DeletesWhatSucceeded, Resolved, Typed
<1>4. ReleasesAfterAttempt'
  BY DEF ReleasesAfterAttempt, Typed
<1>5. ASSUME NEW v \in Workers, v \notin cut', stage'[v] \in {"reply", "running"}, InTime
      PROVE FALSE
  <2>1. v # w /\ v \notin cut /\ stage[v] \in {"reply", "running"}
    BY <1>5 DEF Typed
  <2> QED
    BY <1>5, <2>1 DEF AttemptsHold, HeldFor
<1>6. AttemptsHold'
  BY <1>5 DEF AttemptsHold, InTime
<1> QED
  BY <1>1, <1>2, <1>3, <1>4, <1>6

LEMMA TickInvariant ==
    ASSUME IInv, Tick
    PROVE IInv'
<1> USE DEF IInv, Tick, historyVars
<1>1. Typed'
  BY DEF Typed, Stages
<1>2. DeletedOnlyIfSucceeded'
  BY DEF DeletedOnlyIfSucceeded, Typed
<1>3. DeletesWhatSucceeded' /\ ReleasesAfterAttempt'
  BY DEF DeletesWhatSucceeded, ReleasesAfterAttempt, Resolved
<1>4. ASSUME NEW w \in Workers, NEW ticks \in Nat,
             HeldFor(w, timer[w] + ticks), timer[w] > 0
      PROVE HeldFor(w, timer[w] + ticks)'
  BY <1>4 DEF HeldFor, Typed
<1>5. ASSUME NEW w \in Workers, HeldFor(w, timer[w]), timer[w] > 0
      PROVE HeldFor(w, timer[w])'
  BY <1>5 DEF HeldFor, Typed
<1>6. AttemptsHold'
  BY <1>4, <1>5, ConstantTypes DEF AttemptsHold, InTime
<1> QED
  BY <1>1, <1>2, <1>3, <1>6

LEMMA StutterInvariant ==
    ASSUME IInv, UNCHANGED vars
    PROVE IInv'
BY DEF vars, workerVars, historyVars, IInv, Typed, DeletedOnlyIfSucceeded,
       DeletesWhatSucceeded, ReleasesAfterAttempt, AttemptsHold, HeldFor, InTime, Resolved

LEMMA StepInvariant ==
    ASSUME IInv, [Next]_vars
    PROVE IInv'
<1>1. CASE \E w \in Workers : Reserve(w)
  BY <1>1, ReserveInvariant
<1>2. CASE BecomesReady
  BY <1>2, BecomesReadyInvariant
<1>3. ASSUME NEW w \in Workers, WorkerStep(w) PROVE IInv'
  <2>1. CASE ReleaseUnrun(w)
    BY <2>1, EndAttemptInvariant DEF ReleaseUnrun, historyVars
  <2>2. CASE RunHandlers(w)
    BY <2>2, RunHandlersInvariant
  <2>3. CASE DeleteJob(w)
    BY <2>3, DeleteJobInvariant
  <2>4. CASE ReleaseJob(w)
    BY <2>4, EndAttemptInvariant DEF ReleaseJob
  <2> QED
    BY <1>3, <2>1, <2>2, <2>3, <2>4 DEF WorkerStep
<1>4. ASSUME NEW w \in Workers, RequestStep(w) PROVE IInv'
  <2>1. CASE DeleteFails(w)
    BY <2>1, EndAttemptInvariant DEF DeleteFails, historyVars
  <2> QED
    BY <1>4, <2>1, ReleaseArrivesInvariant, ReleaseFailsInvariant, DeleteArrivesInvariant
    DEF RequestStep
<1>5. ASSUME NEW w \in Workers, NEW h \in Handlers, NEW outcome \in {"resolved", "rejected"},
             HandlerSettles(w, h, outcome)
      PROVE IInv'
  BY <1>5, HandlerSettlesInvariant
<1>6. ASSUME NEW w \in Workers, WorkerDies(w) \/ ConnectionLost(w) PROVE IInv'
  BY <1>6, EndAttemptInvariant, HolderLostInvariant DEF WorkerDies, ConnectionLost, historyVars
<1>7. CASE Tick
  BY <1>7, TickInvariant
<1>8. CASE UNCHANGED vars
  BY <1>8, StutterInvariant
<1> QED
  BY <1>1, <1>2, <1>3, <1>4, <1>5, <1>6, <1>7, <1>8 DEF Next

(* IInv is inductive: for any workers, handlers, timeouts and brokers. *)
THEOREM DeliveryInvariant == Spec => []IInv
BY InitInvariant, StepInvariant, PTL DEF Spec

(* A job is deleted only if all handlers resolved in one attempt, for any number
   of workers and handlers and on any broker (queues.js:451-491). *)
THEOREM DeletedOnlyAfterSuccess == Spec => []DeletedOnlyIfSucceeded
<1>1. IInv => DeletedOnlyIfSucceeded
  BY DEF IInv
<1> QED
  BY <1>1, DeliveryInvariant, PTL

(* Attempts do not overlap on a broker that forgets old receipts and waits longer
   than the reply and the handlers may take, however long that is, unless one of
   them was cut off from its reservation (run_job.js:30-40, queues.js:429-448). *)
THEOREM AttemptsDoNotOverlap == Spec => []OneAttemptRunsInTime
<1>1. IInv => OneAttemptRunsInTime
  BY DEF IInv, AttemptsHold, HeldFor, InTime, OneAttemptRunsInTime
<1> QED
  BY <1>1, DeliveryInvariant, PTL

-----------------------------------------------------------------------------
(***************************************************************************)
(* The delays grow.  Every failure is an attempt of its own, so there are  *)
(* as many receives as failures and attempts that go on (as far as the     *)
(* model counts), and the worker the broker knows of has the last number.  *)
(***************************************************************************)
Open == {w \in Workers : stage[w] # "none"}

CountTyped ==
    /\ job = [state |-> job.state, holder |-> job.holder, left |-> job.left,
              received |-> job.received]
    /\ job.received \in 0..MaxCount
    /\ failures \in 0..MaxCount
    /\ stage = [w \in Workers |-> stage[w]]
    /\ count = [w \in Workers |-> count[w]]
    /\ release = [w \in Workers |-> release[w]]

(* failures and the attempts that go on, told apart for the lemmas below. *)
Accounts(received, failed, open) ==
    /\ IsFiniteSet(open)
    /\ received = MaxCount \/ failed + Cardinality(open) <= received

FailuresReceived == Accounts(job.received, failures, Open)

HolderKnown == job.state # "reserved" => job.holder = None

HolderCounts ==
    broker.counts => \A w \in Workers : job.holder = w =>
        /\ stage[w] # "none" => count[w] = job.received
        /\ release[w] \in {-1, 0, Exponential(job.received)}

BackoffInv ==
    /\ CountTyped
    /\ FailuresReceived
    /\ HolderKnown
    /\ HolderCounts

LEMMA CountTypes ==
    /\ MaxCount \in Nat /\ MaxCount > 0
    /\ None \notin Workers
BY JobDeliveryAssumption

(* The job is received: one attempt more, and one receive more. *)
LEMMA ReceiveAccounts ==
    ASSUME NEW received \in 0..MaxCount, NEW failed \in 0..MaxCount, NEW open, NEW w,
           Accounts(received, failed, open), w \notin open
    PROVE Accounts(CountUp(received), failed, open \cup {w})
<1>1. IsFiniteSet(open)
  BY DEF Accounts
<1>2. Cardinality(open) \in Nat
  BY <1>1, FS_CardinalityType
<1>3. IsFiniteSet(open \cup {w}) /\ Cardinality(open \cup {w}) = Cardinality(open) + 1
  BY <1>1, FS_AddElement
<1> QED
  BY <1>2, <1>3, CountTypes DEF Accounts, CountUp, Smaller

(* An attempt ends, or fails: then it is a failure instead. *)
LEMMA EndAccounts ==
    ASSUME NEW received \in 0..MaxCount, NEW failed \in 0..MaxCount, NEW open, NEW w \in open,
           Accounts(received, failed, open)
    PROVE /\ Accounts(received, failed, open \ {w})
          /\ Accounts(received, CountUp(failed), open \ {w})
<1>1. IsFiniteSet(open)
  BY DEF Accounts
<1>2. Cardinality(open) \in Nat
  BY <1>1, FS_CardinalityType
<1>3. IsFiniteSet(open \ {w}) /\ Cardinality(open \ {w}) = Cardinality(open) - 1
  BY <1>1, FS_RemoveElement
<1> QED
  BY <1>2, <1>3, CountTypes DEF Accounts, CountUp, Smaller

LEMMA FailuresWithinReceived ==
    ASSUME CountTyped, FailuresReceived
    PROVE failures <= job.received
<1>1. CASE job.received = MaxCount
  BY <1>1, CountTypes DEF CountTyped
<1>2. CASE failures + Cardinality(Open) <= job.received
  <2>1. Cardinality(Open) \in Nat
    BY FS_CardinalityType DEF FailuresReceived, Accounts
  <2> QED
    BY <1>2, <2>1, CountTypes DEF CountTyped
<1> QED
  BY <1>1, <1>2 DEF FailuresReceived, Accounts

LEMMA InitBackoff == Init => BackoffInv
<1> SUFFICES ASSUME Init PROVE BackoffInv
  OBVIOUS
<1>1. CountTyped
  BY CountTypes DEF Init, CountTyped
<1>2. FailuresReceived
  <2>1. Open = {}
    BY DEF Init, Open
  <2> QED
    BY <2>1, FS_EmptySet, CountTypes DEF Init, FailuresReceived, Accounts
<1>3. HolderKnown /\ HolderCounts
  BY CountTypes DEF Init, HolderKnown, HolderCounts
<1> QED
  BY <1>1, <1>2, <1>3 DEF BackoffInv

(* What a step keeps that ends no attempt and starts none, counts nothing, and
   lets the broker forget its worker or go on with it. *)
LEMMA QuietBackoff ==
    ASSUME BackoffInv, UNCHANGED <<broker, count, failures>>,
           CountTyped', Open' = Open,
           job'.received = job.received,
           \/ job'.state = job.state /\ job'.holder = job.holder
           \/ job'.holder = None,
           \A v \in Workers : stage'[v] # "none" => stage[v] # "none",
           \A v \in Workers : release'[v] \in {release[v], -1}
    PROVE BackoffInv'
<1>1. FailuresReceived'
  BY DEF BackoffInv, FailuresReceived
<1>2. HolderKnown'
  BY DEF BackoffInv, HolderKnown
<1>3. HolderCounts'
  BY CountTypes DEF BackoffInv, HolderCounts
<1> QED
  BY <1>1, <1>2, <1>3 DEF BackoffInv

LEMMA ReserveBackoff ==
    ASSUME BackoffInv, NEW w \in Workers, Reserve(w)
    PROVE BackoffInv'
<1> USE DEF BackoffInv, Reserve
<1>1. CountUp(job.received) \in 0..MaxCount
  BY CountTypes DEF CountTyped, CountUp, Smaller
<1>2. CountTyped'
  BY <1>1 DEF CountTyped
<1>3. FailuresReceived'
  <2>1. w \notin Open /\ Open' = Open \cup {w}
    BY DEF Open, CountTyped
  <2>2. Accounts(CountUp(job.received), failures, Open \cup {w})
    BY <2>1, ReceiveAccounts DEF CountTyped, FailuresReceived
  <2> QED
    BY <2>1, <2>2 DEF FailuresReceived
<1>4. HolderKnown'
  BY DEF HolderKnown
<1>5. HolderCounts'
  BY DEF HolderCounts, CountTyped
<1> QED
  BY <1>2, <1>3, <1>4, <1>5

(* Every end of an attempt that leaves the job as it is: a failure is counted
   with the delay of its count, and otherwise there is no delay. *)
LEMMA EndAttemptBackoff ==
    ASSUME BackoffInv, NEW w \in Workers, stage[w] # "none", EndAttempt(w),
           UNCHANGED <<broker, job>>,
           \/ failures' = failures /\ release' \in {release, [release EXCEPT ![w] = 0]}
           \/ /\ failures' = CountUp(failures)
              /\ release' = [release EXCEPT ![w] = Exponential(count[w])]
    PROVE BackoffInv'
<1> USE DEF BackoffInv, EndAttempt
<1>1. CountUp(failures) \in 0..MaxCount
  BY CountTypes DEF CountTyped, CountUp, Smaller
<1>2. CountTyped'
  BY <1>1 DEF CountTyped
<1>3. FailuresReceived'
  <2>1. w \in Open /\ Open' = Open \ {w}
    BY DEF Open, CountTyped
  <2>2. /\ Accounts(job.received, failures, Open \ {w})
        /\ Accounts(job.received, CountUp(failures), Open \ {w})
    BY <2>1, EndAccounts DEF CountTyped, FailuresReceived
  <2> QED
    BY <2>1, <2>2 DEF FailuresReceived
<1>4. HolderKnown'
  BY DEF HolderKnown
<1>5. HolderCounts'
  <2> SUFFICES ASSUME broker.counts, NEW v \in Workers, job.holder = v
               PROVE /\ stage'[v] # "none" => count[v] = job.received
                     /\ release'[v] \in {-1, 0, Exponential(job.received)}
    BY DEF HolderCounts
  <2>1. CASE v = w
    <3>1. count[w] = job.received
      BY <2>1 DEF HolderCounts
    <3>2. release[w] \in {-1, 0, Exponential(job.received)}
      BY <2>1 DEF HolderCounts
    <3> QED
      BY <2>1, <3>1, <3>2 DEF CountTyped
  <2>2. CASE v # w
    BY <2>2 DEF HolderCounts, CountTyped
  <2> QED
    BY <2>1, <2>2
<1> QED
  BY <1>2, <1>3, <1>4, <1>5

(* An attempt ends and the broker forgets who had the job. *)
LEMMA ForgottenBackoff ==
    ASSUME BackoffInv, NEW w \in Workers, stage[w] # "none", EndAttempt(w),
           UNCHANGED <<broker, failures, release>>, job'.holder = None,
           CountTyped', job'.received = job.received
    PROVE BackoffInv'
<1> USE DEF BackoffInv, EndAttempt
<1>1. FailuresReceived'
  <2>1. w \in Open /\ Open' = Open \ {w}
    BY DEF Open, CountTyped
  <2>2. Accounts(job.received, failures, Open \ {w})
    BY <2>1, EndAccounts DEF CountTyped, FailuresReceived
  <2> QED
    BY <2>1, <2>2 DEF FailuresReceived, CountTyped
<1>2. HolderKnown' /\ HolderCounts'
  BY CountTypes DEF HolderKnown, HolderCounts, CountTyped
<1> QED
  BY <1>1, <1>2

LEMMA StepBackoff ==
    ASSUME BackoffInv, [Next]_vars
    PROVE BackoffInv'
<1> USE DEF workerVars, historyVars
<1>1. CASE \E w \in Workers : Reserve(w)
  BY <1>1, ReserveBackoff
<1>2. CASE BecomesReady
  <2>1. CountTyped'
    BY <1>2 DEF BackoffInv, BecomesReady, MakeReady, CountTyped
  <2> QED
    BY <1>2, <2>1, QuietBackoff DEF BackoffInv, BecomesReady, MakeReady, CountTyped, Open
<1>3. ASSUME NEW w \in Workers, WorkerStep(w) PROVE BackoffInv'
  <2>1. CASE ReleaseUnrun(w)
    BY <2>1, EndAttemptBackoff DEF ReleaseUnrun
  <2>2. CASE RunHandlers(w)
    <3>1. CountTyped'
      BY <2>2 DEF BackoffInv, RunHandlers, CountTyped
    <3>2. Open' = Open
      BY <2>2 DEF BackoffInv, RunHandlers, CountTyped, Open
    <3> QED
      BY <2>2, <3>1, <3>2, QuietBackoff DEF BackoffInv, RunHandlers, CountTyped
  <2>3. CASE DeleteJob(w)
    <3>1. CountTyped'
      BY <2>3 DEF BackoffInv, DeleteJob, CountTyped
    <3>2. Open' = Open
      BY <2>3 DEF BackoffInv, DeleteJob, CountTyped, Open
    <3> QED
      BY <2>3, <3>1, <3>2, QuietBackoff DEF BackoffInv, DeleteJob, CountTyped
  <2>4. CASE ReleaseJob(w)
    BY <2>4, EndAttemptBackoff DEF ReleaseJob
  <2> QED
    BY <1>3, <2>1, <2>2, <2>3, <2>4 DEF WorkerStep
<1>4. ASSUME NEW w \in Workers, RequestStep(w) PROVE BackoffInv'
  <2>1. CASE ReleaseArrives(w)
    <3>1. CountTyped'
      BY <2>1 DEF BackoffInv, ReleaseArrives, MakeReady, CountTyped
    <3>2. Open' = Open
      BY <2>1 DEF ReleaseArrives, Open
    <3>3. job'.holder = None /\ job'.received = job.received
      BY <2>1 DEF BackoffInv, ReleaseArrives, MakeReady, CountTyped
    <3>4. \A v \in Workers : release'[v] \in {release[v], -1}
      BY <2>1 DEF BackoffInv, ReleaseArrives, CountTyped
    <3> QED
      BY <2>1, <3>1, <3>2, <3>3, <3>4, QuietBackoff DEF ReleaseArrives
  <2>2. CASE ReleaseFails(w)
    <3>1. CountTyped'
      BY <2>2 DEF BackoffInv, ReleaseFails, CountTyped
    <3>2. Open' = Open
      BY <2>2 DEF ReleaseFails, Open
    <3>3. \A v \in Workers : release'[v] \in {release[v], -1}
      BY <2>2 DEF BackoffInv, ReleaseFails, CountTyped
    <3> QED
      BY <2>2, <3>1, <3>2, <3>3, QuietBackoff DEF ReleaseFails
  <2>3. CASE DeleteArrives(w)
    <3>1. CountTyped' /\ job'.holder = None /\ job'.received = job.received
      BY <2>3 DEF BackoffInv, DeleteArrives, EndAttempt, CountTyped
    <3> QED
      BY <2>3, <3>1, ForgottenBackoff DEF DeleteArrives
  <2>4. CASE DeleteFails(w)
    BY <2>4, EndAttemptBackoff DEF DeleteFails
  <2> QED
    BY <1>4, <2>1, <2>2, <2>3, <2>4 DEF RequestStep
<1>5. ASSUME NEW w \in Workers, NEW h \in Handlers, NEW outcome \in {"resolved", "rejected"},
             HandlerSettles(w, h, outcome)
      PROVE BackoffInv'
  <2>1. UNCHANGED <<broker, job, stage, count, release, failures>>
    BY <1>5 DEF HandlerSettles
  <2> QED
    BY <2>1, QuietBackoff DEF BackoffInv, CountTyped, Open
<1>6. ASSUME NEW w \in Workers, WorkerDies(w) PROVE BackoffInv'
  <2>1. CASE UNCHANGED job
    BY <1>6, <2>1, EndAttemptBackoff DEF WorkerDies
  <2>2. CASE MakeReady
    <3>1. CountTyped' /\ job'.holder = None /\ job'.received = job.received
      BY <1>6, <2>2 DEF BackoffInv, WorkerDies, MakeReady, EndAttempt, CountTyped
    <3> QED
      BY <1>6, <3>1, ForgottenBackoff DEF WorkerDies
  <2> QED
    BY <1>6, <2>1, <2>2 DEF WorkerDies
<1>9. ASSUME NEW w \in Workers, ConnectionLost(w) PROVE BackoffInv'
  <2>1. job'.holder = None /\ job'.received = job.received
    BY <1>9 DEF BackoffInv, ConnectionLost, MakeReady, CountTyped
  <2>2. CountTyped'
    BY <1>9 DEF BackoffInv, ConnectionLost, MakeReady, EndAttempt, CountTyped
  <2>3. CASE EndAttempt(w) /\ stage[w] = "reply"
    BY <1>9, <2>1, <2>2, <2>3, ForgottenBackoff DEF ConnectionLost
  <2>4. CASE UNCHANGED workerVars
    BY <1>9, <2>1, <2>2, <2>4, QuietBackoff DEF BackoffInv, CountTyped, ConnectionLost, Open
  <2> QED
    BY <1>9, <2>3, <2>4 DEF ConnectionLost
<1>7. CASE Tick
  <2>1. CountTyped'
    BY <1>7 DEF BackoffInv, Tick, CountTyped
  <2>2. Open' = Open
    BY <1>7 DEF Tick, Open
  <2>3. job'.state = job.state /\ job'.holder = job.holder /\ job'.received = job.received
    BY <1>7 DEF BackoffInv, Tick, CountTyped
  <2> QED
    BY <1>7, <2>1, <2>2, <2>3, QuietBackoff DEF Tick
<1>8. CASE UNCHANGED vars
  BY <1>8, QuietBackoff DEF vars, BackoffInv, CountTyped, Open
<1> QED
  BY <1>1, <1>2, <1>3, <1>4, <1>5, <1>6, <1>7, <1>8, <1>9 DEF Next

LEMMA BackoffInvariant == Spec => []BackoffInv
BY InitBackoff, StepBackoff, PTL DEF Spec

(* The step that delays a job while the broker knows of a worker is the arrival of
   a release, and the worker's own release has the delay of the last receive. *)
LEMMA StepBacksOff ==
    ASSUME BackoffInv, [Next]_vars
    PROVE \A w \in Workers :
            (broker.counts /\ failures > 0 /\ job.holder = w
                /\ release'[w] # release[w] /\ job'.state = "delayed")
                => \E n \in failures..MaxCount : job'.left = Exponential(n)
<1> SUFFICES ASSUME NEW w \in Workers, broker.counts, job.holder = w,
                    release'[w] # release[w], job'.state = "delayed"
             PROVE \E n \in failures..MaxCount : job'.left = Exponential(n)
  OBVIOUS
<1>1. job.state = "reserved"
  BY CountTypes DEF BackoffInv, HolderKnown
<1>2. PICK v \in Workers : ReleaseArrives(v)
  BY <1>1 DEF BackoffInv, CountTyped, Next, vars, Reserve, BecomesReady, MakeReady, WorkerStep,
     RequestStep, ReleaseUnrun, RunHandlers, DeleteJob, ReleaseJob, ReleaseFails,
     DeleteArrives, DeleteFails, HandlerSettles, WorkerDies, ConnectionLost, Tick
<1>3. v = w
  BY <1>2 DEF ReleaseArrives, BackoffInv, CountTyped
<1>4. release[w] # -1 /\ release[w] # 0 /\ job'.left = release[w]
  BY <1>2, <1>3 DEF ReleaseArrives, MakeReady, BackoffInv, CountTyped
<1>5. release[w] = Exponential(job.received)
  BY <1>4 DEF BackoffInv, HolderCounts
<1>6. job.received \in failures..MaxCount
  BY FailuresWithinReceived, CountTypes DEF BackoffInv, CountTyped
<1> QED
  BY <1>4, <1>5, <1>6

(* The backoff grows with the failures on a broker that counts receives, for any
   number of workers whose attempts may overlap, any delays, and releases that are
   late, lost or obeyed out of order (queues.js:493-501, 786-793). *)
THEOREM DelaysGrow == Spec => BackoffGrows
<1>1. BackoffInv /\ [Next]_vars
      => [\A w \in Workers :
            (broker.counts /\ failures > 0 /\ job.holder = w
                /\ release'[w] # release[w] /\ job'.state = "delayed")
                => \E n \in failures..MaxCount : job'.left = Exponential(n)]_vars
  BY StepBacksOff
<1> QED
  BY <1>1, BackoffInvariant, PTL DEF Spec, BackoffGrows
=============================================================================
