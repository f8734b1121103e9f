------------------------------- MODULE Stream -------------------------------
(***************************************************************************)
(* Queueing the jobs of a stream: QueuingTransform, and how Queue.delayJobs *)
(* and Queue._throttle bound it (lib/queues.js).                           *)
(*                                                                         *)
(* The stream takes one job at a time and hands it to queueJob() when the  *)
(* queue is busy with fewer than _concurrency jobs, without waiting for    *)
(* the broker.  It ends when all jobs it handed over are answered.  Other  *)
(* callers queue jobs on the same queue, several in one call, without a    *)
(* throttle.                                                               *)
(*                                                                         *)
(* The stream machinery of Node.js is external: it calls _transform for    *)
(* one job at a time, _flush after the last.  The caller ends the stream   *)
(* after its last job was taken, as pipe() does.                           *)
(***************************************************************************)
EXTENDS JobBatches

CONSTANTS
    Length,         (* the most jobs written to the stream (bound)            *)
    Concurrency     (* Queue._concurrency                                     *)

Jobs == 1 .. Length

ASSUME StreamAssumption ==
    /\ Length \in Nat
    /\ Concurrency \in Nat \ {0}

VARIABLES
    queueQueuing,   (* Queue._queuing                                         *)
    queuing,        (* QueuingTransform._queuing                              *)
    lastError,      (* is QueuingTransform._lastError set?                    *)
    taken,          (* how many jobs _transform was called with               *)
    parked,         (* does the throttle hold the last of them back?          *)
    stage,          (* where the stream is                                    *)
    post            (* job -> where its request to the broker is              *)

streamVars == <<queuing, lastError, taken, parked, stage, post>>

vars == <<queueQueuing, streamVars, batchVars>>

Stages == { "open", "flushing", "finished", "failed",
            "broken" }          \* _transform threw: its callback is never called

PostStages == { "none",
                "posting",      \* with the client, or waiting for one
                "stored",       \* answered, no continuation has run yet
                "counted",      \* decrementQueuingCount has run
                "confirmed",    \* the continuation of the stream has run
                "queued",       \* both
                "refused",      \* rejected
                "failed",       \* and the stream knows
                "thrown" }      \* null or false: queueJob() threw

PostsIn(stages) == { p \in Jobs : post[p] \in stages }

Init ==
    /\ queueQueuing = 0
    /\ queuing = 0
    /\ lastError = FALSE
    /\ taken = 0
    /\ parked = FALSE
    /\ stage = "open"
    /\ post = [p \in Jobs |-> "none"]
    /\ BInit

Move(p, from, to) ==
    /\ post[p] = from
    /\ post' = [post EXCEPT ![p] = to]

-----------------------------------------------------------------------------
(* The throttle lets the job in, the other posts being at: it is queued, or the
   error of an earlier one ends the stream, or the job is null or false and the
   assertion of delayJobs() is thrown out of _transform, after the stream has
   counted the job. *)
Admit(job, count, posts) ==
    /\ parked' = FALSE
    /\ \/ /\ lastError
          /\ stage' = "failed"
          /\ queueQueuing' = count /\ post' = posts
          /\ UNCHANGED queuing
       \/ /\ ~lastError
          /\ queuing' = queuing + 1
          /\ queueQueuing' = count + 1
          /\ post' = [posts EXCEPT ![job] = "posting"]
          /\ UNCHANGED stage
       \/ /\ ~lastError
          /\ queuing' = queuing + 1
          /\ queueQueuing' = count
          /\ post' = [posts EXCEPT ![job] = "thrown"]
          /\ stage' = "broken"

HoldBack(count, posts) ==
    /\ parked' = TRUE
    /\ queueQueuing' = count
    /\ post' = posts
    /\ UNCHANGED <<queuing, stage>>

(* Queue._throttle, when the queue is busy with count jobs. *)
Throttle(job, count, posts) ==
    \/ count < Concurrency /\ Admit(job, count, posts)
    \/ count >= Concurrency /\ HoldBack(count, posts)

(* _transform *)
Transform ==
    /\ stage = "open" /\ ~parked
    /\ taken < Length
    /\ taken' = taken + 1
    /\ Throttle(taken + 1, queueQueuing, post)
    /\ UNCHANGED <<lastError, batchVars>>

(* Variant: the stream does not wait for the jobs in flight. *)
HastyFlush ==
    /\ stage = "open" /\ ~parked
    /\ stage' = IF lastError THEN "failed" ELSE "finished"
    /\ UNCHANGED <<queueQueuing, queuing, lastError, taken, parked, post, batchVars>>

(* The caller ends the stream: _flush. *)
Flush ==
    /\ stage = "open" /\ ~parked
    /\ stage' = IF queuing > 0 THEN "flushing"
                ELSE IF lastError THEN "failed" ELSE "finished"
    /\ UNCHANGED <<queueQueuing, queuing, lastError, taken, parked, post, batchVars>>

(* queueJobs() of another caller. *)
QueueBatch(b) ==
    /\ PostBatch(b)
    /\ queueQueuing' = queueQueuing + BatchSize
    /\ UNCHANGED streamVars

-----------------------------------------------------------------------------
(***************************************************************************)
(* The broker's answer, and what it sets off.                              *)
(***************************************************************************)

PostSucceeds(p) ==
    /\ Move(p, "posting", "stored")
    /\ UNCHANGED <<queueQueuing, queuing, lastError, taken, parked, stage, batchVars>>

(* The request failed, or there is no client: _queuing stays as it is. *)
PostFails(p) ==
    /\ Move(p, "posting", "refused")
    /\ UNCHANGED <<queueQueuing, queuing, lastError, taken, parked, stage, batchVars>>

Counted == [stored |-> "counted", confirmed |-> "queued"]

Confirmed == [stored |-> "confirmed", counted |-> "queued"]

(* Variant: 'ready' is not emitted. *)
SilentDecrementQueuingCount(p) ==
    /\ post[p] \in DOMAIN Counted
    /\ queueQueuing' = queueQueuing - 1
    /\ post' = [post EXCEPT ![p] = Counted[@]]
    /\ UNCHANGED <<queuing, stage, parked, lastError, taken, batchVars>>

(* decrementQueuingCount, an immediate, takes n jobs off: a job that is held
   back tries again when 'ready' is emitted. *)
TakeOff(n, posts) ==
    LET count == queueQueuing - n
    IN  \/ parked /\ Throttle(taken, count, posts)
        \/ /\ ~parked
           /\ queueQueuing' = count
           /\ post' = posts
           /\ UNCHANGED <<queuing, parked, stage>>

DecrementQueuingCount(p) ==
    /\ post[p] \in DOMAIN Counted
    /\ TakeOff(1, [post EXCEPT ![p] = Counted[@]])
    /\ UNCHANGED <<lastError, taken, batchVars>>

BatchCounted(b) ==
    /\ batch[b] = "resolved"
    /\ batch' = [batch EXCEPT ![b] = "counted"]
    /\ TakeOff(BatchSize, post)
    /\ UNCHANGED <<lastError, taken, entry, jobIDs>>

(* The broker answers for a chunk of a batch; when it fails, _queuing stays as
   it is for all jobs of the batch. *)
BatchAnswered(b) == ChunkAnswered(b) /\ UNCHANGED <<queueQueuing, streamVars>>

(* The end of QueuingTransform._queueJob: 'drain' is emitted when no job is in
   flight, and calls the callback of a _flush that waits for it, without the
   error. *)
Settle ==
    /\ queuing' = queuing - 1
    /\ stage' = IF stage = "flushing" /\ queuing = 1 THEN "finished" ELSE stage

JobQueued(job) ==
    /\ post[job] \in DOMAIN Confirmed
    /\ post' = [post EXCEPT ![job] = Confirmed[@]]
    /\ Settle
    /\ UNCHANGED <<queueQueuing, lastError, taken, parked, batchVars>>

(* Variant: the count is kept only of jobs that were queued. *)
ForgetfulJobFails(job) ==
    /\ Move(job, "refused", "failed")
    /\ lastError' = TRUE
    /\ UNCHANGED <<queueQueuing, queuing, taken, parked, stage, batchVars>>

JobFails(job) ==
    /\ Move(job, "refused", "failed")
    /\ Settle
    /\ lastError' = TRUE
    /\ UNCHANGED <<queueQueuing, taken, parked, batchVars>>

Answer(p) == PostSucceeds(p) \/ PostFails(p)

Next ==
    \/ Transform
    \/ Flush
    \/ \E b \in Batches : QueueBatch(b) \/ BatchAnswered(b) \/ BatchCounted(b)
    \/ \E p \in Jobs : Answer(p) \/ DecrementQueuingCount(p)
    \/ \E job \in Jobs : JobQueued(job) \/ JobFails(job)

Spec == Init /\ [][Next]_vars

(* The broker answers or the request fails, what an answer sets off happens, and
   whoever writes to the stream goes on or ends it. *)
FairSpec ==
    /\ Spec
    /\ WF_vars(Transform \/ Flush)
    /\ \A p \in Jobs : WF_vars(Answer(p)) /\ WF_vars(DecrementQueuingCount(p))
    /\ \A job \in Jobs : WF_vars(JobQueued(job) \/ JobFails(job))
    /\ \A b \in Batches : WF_vars(BatchAnswered(b)) /\ WF_vars(BatchCounted(b))

-----------------------------------------------------------------------------
(***************************************************************************)
(* Properties                                                              *)
(***************************************************************************)

(* The jobs the throttle does not count as done: those on their way, and those
   whose call failed. *)
InBatches(stages) == BatchSize * Cardinality({ b \in Batches : batch[b] \in stages })

Uncounted ==
    Cardinality(PostsIn({ "posting", "stored", "confirmed", "refused", "failed" }))
        + InBatches({ "pending", "resolved", "rejected" })

Failed == Cardinality(PostsIn({ "refused", "failed" })) + InBatches({ "rejected" })

(* Every variable keeps its type, and the two counters agree with the posts: the
   queue's counts what decrementQueuingCount has not taken off, the stream's the
   jobs whose promise has not settled, or of which there is none. *)
TypeOK ==
    /\ BTypeOK
    /\ post \in [Jobs -> PostStages]
    /\ stage \in Stages
    /\ taken \in 0 .. Length
    /\ lastError \in BOOLEAN /\ parked \in BOOLEAN
    /\ queueQueuing = Uncounted
    /\ queuing = Cardinality(PostsIn({ "posting", "stored", "counted", "refused", "thrown" }))

(* A stream that finished has an answer for every job it took, in flight and held
   back ones included: its reader misses no job ID. *)
FinishedMeansAnswered ==
    stage = "finished" =>
        \A job \in 1 .. taken : post[job] \in { "confirmed", "queued", "failed" }

(* A job that the throttle holds back goes on, whatever others queue, unless as
   many jobs failed to be queued as the throttle lets in. *)
ThrottleOpens ==
    parked ~> (~parked \/ Failed >= Concurrency)

(* "This stream will terminate on the first error": once a job failed the stream
   ends, one way or the other. *)
TerminatesOnError == lastError ~> (stage \in { "finished", "failed", "broken" })
=============================================================================
