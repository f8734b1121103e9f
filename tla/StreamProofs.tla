----------------------------- MODULE StreamProofs -----------------------------
(***************************************************************************)
(* Proofs about Stream and JobBatches: what a call that queues several     *)
(* jobs, and a stream that finished, have got answers for.                 *)
(***************************************************************************)
EXTENDS Stream, FiniteSetTheorems, TLAPS

(* What was stored is in its place, and a call resolves with all of it. *)
StoredInPlace ==
    /\ batch \in [Batches -> { "none", "pending", "resolved", "rejected", "counted" }]
    /\ entry \in [Batches -> [Entries -> { "none", "sent", "stored", "refused" }]]
    /\ jobIDs \in [Batches -> [Entries -> 0 .. BatchSize]]
    /\ \A b \in Batches : batch[b] = "none" => \A e \in Entries : entry[b][e] = "none"
    /\ \A b \in Batches : \A e \in Entries :
          batch[b] # "rejected" /\ entry[b][e] = "stored" => jobIDs[b][e] = e
    /\ \A b \in Batches : batch[b] \in { "resolved", "counted" } =>
          \A e \in Entries : entry[b][e] = "stored"

(* The jobs whose promise has not settled, which the stream counts. *)
Unsettled == { "posting", "stored", "counted", "refused", "thrown" }

InFlight(posts) == { p \in Jobs : posts[p] \in Unsettled }

StreamTyped ==
    /\ post \in [Jobs -> PostStages]
    /\ stage \in Stages
    /\ taken \in 0 .. Length
    /\ lastError \in BOOLEAN /\ parked \in BOOLEAN
    /\ queuing = Cardinality(InFlight(post))

(* Every job that was taken was handed over, unless the throttle holds it back
   or an error ended the stream. *)
HandedOver ==
    /\ \A job \in Jobs : job > taken => post[job] = "none"
    /\ parked => taken > 0 /\ post[taken] = "none" /\ stage = "open"
    /\ \A job \in 1 .. taken :
          post[job] = "none" => stage = "failed" \/ (parked /\ job = taken)

FinishedIsIdle == stage = "finished" => queuing = 0

IInv == StreamTyped /\ HandedOver /\ FinishedIsIdle

-----------------------------------------------------------------------------
(***************************************************************************)
(* The calls of several jobs.                                              *)
(***************************************************************************)

(* However a request's entries are answered, each ID goes to its job. *)
LEMMA AnswersInOrder ==
    ASSUME NEW chunk, NEW answer \in Answers(chunk), NEW e \in chunk
    PROVE  OrderedJobIDs(answer)[e] = e
<1>1. PICK order \in Bijection(chunk, chunk) :
         answer = [i \in chunk |-> [id |-> order[i], messageId |-> order[i]]]
  BY DEF Answers
<1>2. PICK i \in chunk : order[i] = e
  BY <1>1 DEF Bijection, Surjection
<1> DEFINE results == { answer[j] : j \in DOMAIN answer }
<1>3. answer[i] \in results /\ answer[i].id = e
  BY <1>1, <1>2
<1>4. \A result \in results : result.messageId = result.id
  BY <1>1
<1> HIDE DEF results
<1>5. (CHOOSE result \in results : result.id = e) \in results
  /\ (CHOOSE result \in results : result.id = e).id = e
  BY <1>3
<1>6. OrderedJobIDs(answer)[e] = (CHOOSE result \in results : result.id = e).messageId
  BY <1>1 DEF OrderedJobIDs, results
<1> QED
  BY <1>4, <1>5, <1>6

(* chunkArray makes no empty request. *)
LEMMA ChunksNotEmpty ==
    ASSUME NEW chunk \in Chunks
    PROVE  \E e \in chunk : e \in Entries
<1>1. PICK k \in 0 .. BatchSize :
         /\ k * ChunkSize < BatchSize
         /\ chunk = { e \in Entries : e > k * ChunkSize /\ e <= (k + 1) * ChunkSize }
  BY DEF Chunks
<1> DEFINE first == k * ChunkSize
<1>2. first \in Nat /\ (k + 1) * ChunkSize = first + ChunkSize
  BY <1>1, BatchesAssumption
<1>3. first + 1 \in Entries /\ first + 1 <= (k + 1) * ChunkSize
  BY <1>1, <1>2, BatchesAssumption DEF Entries
<1> QED
  BY <1>1, <1>2, <1>3

(* An answer that stores a chunk, one that refuses it, and what else happens. *)
LEMMA ChunkStoredKeeps ==
    ASSUME StoredInPlace, BatchSize \in Nat, NEW b \in Batches, NEW chunk \in Chunks,
           ChunkStored(b, chunk)
    PROVE  StoredInPlace'
<1>1. PICK answer \in Answers(chunk) :
         jobIDs' = [jobIDs EXCEPT ![b] = [e \in Entries |->
                       IF e \in chunk THEN OrderedJobIDs(answer)[e] ELSE @[e]]]
  BY DEF ChunkStored
<1>2. /\ entry' = [entry EXCEPT ![b] = [e \in Entries |-> IF e \in chunk THEN "stored" ELSE @[e]]]
      /\ batch' = [batch EXCEPT ![b] =
                     IF @ = "pending" /\ \A e \in Entries : entry'[b][e] = "stored"
                     THEN "resolved" ELSE @]
  BY DEF ChunkStored
<1>3. \A e \in chunk : OrderedJobIDs(answer)[e] = e
  BY AnswersInOrder
<1>4. Entries \subseteq 0 .. BatchSize
  BY BatchesAssumption DEF Entries
<1>5. jobIDs' \in [Batches -> [Entries -> 0 .. BatchSize]]
  BY <1>1, <1>3, <1>4 DEF StoredInPlace
<1>6. entry' \in [Batches -> [Entries -> { "none", "sent", "stored", "refused" }]]
  BY <1>2 DEF StoredInPlace
<1>7. batch' \in [Batches -> { "none", "pending", "resolved", "rejected", "counted" }]
  BY <1>2 DEF StoredInPlace
<1>8. ASSUME NEW c \in Batches, NEW e \in Entries, batch'[c] # "rejected", entry'[c][e] = "stored"
      PROVE  jobIDs'[c][e] = e
  BY <1>1, <1>2, <1>3, <1>8 DEF StoredInPlace
<1>9. ASSUME NEW c \in Batches, batch'[c] \in { "resolved", "counted" }, NEW e \in Entries
      PROVE  entry'[c][e] = "stored"
  BY <1>2, <1>9 DEF StoredInPlace
<1>10. ASSUME NEW c \in Batches, batch'[c] = "none", NEW e \in Entries
       PROVE  entry'[c][e] = "none"
  <2>1. batch[c] = "none" /\ entry[c][e] = "none"
    BY <1>2, <1>10 DEF StoredInPlace
  <2>2. batch[b] # "none"
    <3>1. PICK i \in chunk : i \in Entries
      BY ChunksNotEmpty
    <3>2. entry[b][i] = "sent"
      BY <3>1 DEF ChunkStored
    <3> QED
      BY <3>1, <3>2 DEF StoredInPlace
  <2> QED
    BY <1>2, <2>1, <2>2 DEF StoredInPlace
<1> QED
  BY <1>5, <1>6, <1>7, <1>8, <1>9, <1>10 DEF StoredInPlace

LEMMA ChunkRefusedKeeps ==
    ASSUME StoredInPlace, NEW b \in Batches, NEW chunk \in Chunks, ChunkRefused(b, chunk)
    PROVE  StoredInPlace'
<1>1. PICK stored \in SUBSET chunk :
         entry' = [entry EXCEPT ![b] = [e \in Entries |->
                      IF e \in stored THEN "stored"
                      ELSE IF e \in chunk THEN "refused" ELSE @[e]]]
  BY DEF ChunkRefused
<1>2. /\ batch' = [batch EXCEPT ![b] = "rejected"] /\ jobIDs' = jobIDs
      /\ \A e \in chunk : entry[b][e] = "sent"
  BY DEF ChunkRefused
<1> QED
  BY <1>1, <1>2 DEF StoredInPlace

LEMMA StepStoredInPlace ==
    ASSUME StoredInPlace, [Next]_vars
    PROVE  StoredInPlace'
<1>0. BatchSize \in Nat
  BY BatchesAssumption
<1>1. CASE UNCHANGED batchVars
  BY <1>1 DEF StoredInPlace, batchVars
<1>2. ASSUME NEW b \in Batches, QueueBatch(b) PROVE StoredInPlace'
  BY <1>2 DEF QueueBatch, PostBatch, StoredInPlace
<1>3. ASSUME NEW b \in Batches, BatchAnswered(b) PROVE StoredInPlace'
  BY <1>0, <1>3, ChunkStoredKeeps, ChunkRefusedKeeps DEF BatchAnswered, ChunkAnswered
<1>4. ASSUME NEW b \in Batches, BatchCounted(b) PROVE StoredInPlace'
  BY <1>4 DEF BatchCounted, StoredInPlace
<1>5. ASSUME Transform \/ Flush \/ (\E p \in Jobs : Answer(p) \/ DecrementQueuingCount(p))
             \/ (\E job \in Jobs : JobQueued(job) \/ JobFails(job)) \/ UNCHANGED vars
      PROVE  UNCHANGED batchVars
  BY <1>5 DEF Transform, Flush, Answer, PostSucceeds, PostFails, DecrementQueuingCount,
              JobQueued, JobFails, vars
<1> QED
  BY <1>1, <1>2, <1>3, <1>4, <1>5 DEF Next

LEMMA InitStoredInPlace == Init => StoredInPlace
BY BatchesAssumption DEF Init, BInit, StoredInPlace

(* A call that queues several jobs and resolves has stored all of them, each with
   its ID in its place, for calls and requests of any size and answers in any
   order (sqs.js:16-71, beanstalk.js:221-228). *)
THEOREM ResolvedCallsStored == Spec => []ResolvedMeansStored
<1>1. Init => StoredInPlace
  BY InitStoredInPlace
<1>2. StoredInPlace /\ [Next]_vars => StoredInPlace'
  BY StepStoredInPlace
<1>3. StoredInPlace => ResolvedMeansStored
  BY DEF StoredInPlace, ResolvedMeansStored
<1> QED
  BY <1>1, <1>2, <1>3, PTL DEF Spec

-----------------------------------------------------------------------------
(***************************************************************************)
(* The stream.                                                             *)
(***************************************************************************)

(* The stream's count follows the posts. *)
LEMMA InFlightFinite ==
    ASSUME NEW posts
    PROVE  /\ IsFiniteSet(InFlight(posts)) /\ Cardinality(InFlight(posts)) \in Nat
           /\ Cardinality(InFlight(posts)) = 0 => InFlight(posts) = {}
<1>1. IsFiniteSet(Jobs)
  BY FS_Interval, StreamAssumption DEF Jobs
<1>2. InFlight(posts) \in SUBSET Jobs
  BY DEF InFlight
<1>3. IsFiniteSet(InFlight(posts))
  BY <1>1, <1>2, FS_Subset
<1> QED
  BY <1>3, FS_CardinalityType, FS_EmptySet

(* What a job that moves between two stages does to the count. *)
LEMMA MoveCounts ==
    ASSUME NEW posts \in [Jobs -> PostStages], NEW p \in Jobs, NEW to \in PostStages
    PROVE  LET moved == [posts EXCEPT ![p] = to]
               count == Cardinality(InFlight(posts))
           IN  /\ moved \in [Jobs -> PostStages]
               /\ Cardinality(InFlight(moved)) =
                     IF posts[p] \in Unsettled
                     THEN IF to \in Unsettled THEN count ELSE count - 1
                     ELSE IF to \in Unsettled THEN count + 1 ELSE count
<1> DEFINE moved == [posts EXCEPT ![p] = to]
<1>1. moved \in [Jobs -> PostStages] /\ moved[p] = to /\ \A k \in Jobs : k # p => moved[k] = posts[k]
  OBVIOUS
<1>2. IsFiniteSet(InFlight(posts))
  BY InFlightFinite
<1> HIDE DEF moved
<1>3. CASE posts[p] \in Unsettled /\ to \notin Unsettled
  <2>1. InFlight(moved) = InFlight(posts) \ {p} /\ p \in InFlight(posts)
    BY <1>1, <1>3 DEF InFlight
  <2> QED
    BY <1>1, <1>2, <1>3, <2>1, FS_RemoveElement DEF moved
<1>4. CASE posts[p] \notin Unsettled /\ to \in Unsettled
  <2>1. InFlight(moved) = InFlight(posts) \cup {p} /\ p \notin InFlight(posts)
    BY <1>1, <1>4 DEF InFlight
  <2> QED
    BY <1>1, <1>2, <1>4, <2>1, FS_AddElement DEF moved
<1>5. CASE posts[p] \in Unsettled <=> to \in Unsettled
  <2>1. InFlight(moved) = InFlight(posts)
    BY <1>1, <1>5 DEF InFlight
  <2> QED
    BY <1>1, <1>5, <2>1 DEF moved
<1> QED
  BY <1>3, <1>4, <1>5 DEF moved

(* The throttle is asked for the last job taken, the other posts being at: they
   agree with the count, and it is the only one not handed over. *)
LEMMA ThrottleKeeps ==
    ASSUME NEW posts \in [Jobs -> PostStages], NEW count, NEW job \in Jobs,
           queuing = Cardinality(InFlight(posts)), lastError \in BOOLEAN,
           posts[job] = "none", taken' = job, lastError' = lastError, stage = "open",
           \A k \in Jobs : k > job => posts[k] = "none",
           \A k \in 1 .. job : posts[k] = "none" => k = job,
           Throttle(job, count, posts)
    PROVE  IInv'
<1>1. job \in 1 .. Length /\ job > 0 /\ taken' \in 0 .. Length /\ 1 .. job \subseteq Jobs
  BY StreamAssumption DEF Jobs
<1>2. CASE Admit(job, count, posts) /\ ~lastError
  <2>1. PICK to \in {"posting", "thrown"} :
           /\ parked' = FALSE /\ queuing' = queuing + 1
           /\ stage' = IF to = "posting" THEN stage ELSE "broken"
           /\ post' = [posts EXCEPT ![job] = to]
    BY <1>2 DEF Admit
  <2>2. post' \in [Jobs -> PostStages] /\ queuing' = Cardinality(InFlight(post'))
    <3>1. to \in PostStages /\ to \in Unsettled /\ posts[job] \notin Unsettled
      BY DEF PostStages, Unsettled
    <3> QED
      BY <2>1, <3>1, MoveCounts
  <2>3. StreamTyped'
    BY <1>1, <2>1, <2>2 DEF StreamTyped, Stages
  <2>4. HandedOver'
    BY <1>1, <2>1 DEF HandedOver
  <2> QED
    BY <2>1, <2>3, <2>4 DEF IInv, FinishedIsIdle
<1>3. CASE Admit(job, count, posts) /\ lastError
  <2>1. parked' = FALSE /\ stage' = "failed" /\ queuing' = queuing /\ post' = posts
    BY <1>3 DEF Admit
  <2> QED
    BY <1>1, <2>1 DEF IInv, StreamTyped, HandedOver, FinishedIsIdle, Stages
<1>4. CASE HoldBack(count, posts)
  <2>1. parked' = TRUE /\ stage' = stage /\ queuing' = queuing /\ post' = posts
    BY <1>4 DEF HoldBack
  <2> QED
    BY <1>1, <2>1 DEF IInv, StreamTyped, HandedOver, FinishedIsIdle, Stages
<1> QED
  BY <1>2, <1>3, <1>4 DEF Throttle

(* A job that was handed over moves, and nothing but the count changes. *)
LEMMA MoveKeeps ==
    ASSUME IInv, NEW p \in Jobs, NEW to \in PostStages \ {"none"}, post[p] # "none",
           post' = [post EXCEPT ![p] = to],
           queuing' = IF post[p] \in Unsettled
                      THEN IF to \in Unsettled THEN queuing ELSE queuing - 1
                      ELSE IF to \in Unsettled THEN queuing + 1 ELSE queuing,
           UNCHANGED <<taken, parked>>, lastError' \in BOOLEAN,
           \/ stage' = stage /\ (stage = "finished" => queuing' = queuing)
           \/ stage = "flushing" /\ stage' = "finished" /\ queuing' = 0
    PROVE  IInv'
<1>1. queuing' = Cardinality(InFlight(post')) /\ post' \in [Jobs -> PostStages]
  BY MoveCounts DEF IInv, StreamTyped
<1>2. StreamTyped'
  BY <1>1 DEF IInv, StreamTyped, Stages
<1>3. taken \in Nat /\ 1 .. taken \subseteq Jobs
  BY StreamAssumption DEF IInv, StreamTyped, Jobs
<1>4. \A k \in Jobs : (post[k] = "none" <=> post'[k] = "none")
  BY DEF IInv, StreamTyped
<1>5. parked => taken \in Jobs
  BY <1>3 DEF IInv, HandedOver
<1>6. HandedOver'
  BY <1>3, <1>4, <1>5 DEF IInv, HandedOver
<1> QED
  BY <1>2, <1>6 DEF IInv, FinishedIsIdle

LEMMA TransformKeeps ==
    ASSUME IInv, Transform
    PROVE  IInv'
<1>1. /\ stage = "open" /\ ~parked /\ taken' = taken + 1 /\ taken + 1 \in Jobs
      /\ Throttle(taken + 1, queueQueuing, post) /\ lastError' = lastError
  BY StreamAssumption DEF Transform, IInv, StreamTyped, Jobs
<1>2. /\ post \in [Jobs -> PostStages] /\ queuing = Cardinality(InFlight(post))
      /\ lastError \in BOOLEAN /\ taken \in Nat /\ taken <= Length
  BY StreamAssumption DEF IInv, StreamTyped
<1>3. /\ post[taken + 1] = "none"
      /\ \A k \in Jobs : k > taken + 1 => post[k] = "none"
      /\ \A k \in 1 .. taken + 1 : post[k] = "none" => k = taken + 1
  BY <1>1, <1>2 DEF IInv, HandedOver, Jobs
<1> QED
  BY <1>1, <1>2, <1>3, ThrottleKeeps

LEMMA FlushKeeps ==
    ASSUME IInv, Flush
    PROVE  IInv'
<1>1. /\ stage = "open" /\ ~parked
      /\ stage' = IF queuing > 0 THEN "flushing" ELSE IF lastError THEN "failed" ELSE "finished"
      /\ UNCHANGED <<queuing, lastError, taken, parked, post>>
  BY DEF Flush
<1>2. queuing \in Nat
  BY InFlightFinite DEF IInv, StreamTyped
<1> QED
  BY <1>1, <1>2 DEF IInv, StreamTyped, HandedOver, FinishedIsIdle, Stages

(* decrementQueuingCount: whoever is held back is let in after the posts moved. *)
LEMMA TakeOffKeeps ==
    ASSUME IInv, NEW n, NEW posts \in [Jobs -> PostStages], TakeOff(n, posts),
           Cardinality(InFlight(posts)) = queuing,
           \A k \in Jobs : posts[k] = "none" <=> post[k] = "none",
           UNCHANGED <<lastError, taken>>
    PROVE  IInv'
<1>1. /\ taken \in Nat /\ 1 .. taken \subseteq Jobs /\ lastError \in BOOLEAN
      /\ parked => taken \in Jobs
  BY StreamAssumption DEF IInv, StreamTyped, HandedOver, Jobs
<1>2. CASE parked /\ Throttle(taken, queueQueuing - n, posts)
  <2>1. /\ posts[taken] = "none" /\ taken' = taken /\ lastError' = lastError /\ stage = "open"
        /\ \A k \in Jobs : k > taken => posts[k] = "none"
        /\ \A k \in 1 .. taken : posts[k] = "none" => k = taken
    BY <1>1, <1>2 DEF IInv, HandedOver
  <2> QED
    BY <1>1, <1>2, <2>1, ThrottleKeeps
<1>3. CASE ~parked /\ post' = posts /\ UNCHANGED <<queuing, parked, stage>>
  BY <1>1, <1>3 DEF IInv, StreamTyped, HandedOver, FinishedIsIdle
<1> QED
  BY <1>2, <1>3 DEF TakeOff

LEMMA DecrementKeeps ==
    ASSUME IInv, NEW p \in Jobs, DecrementQueuingCount(p)
    PROVE  IInv'
<1> DEFINE posts == [post EXCEPT ![p] = Counted[@]]
<1>1. /\ post[p] \in {"stored", "confirmed"} \cap DOMAIN Counted
      /\ TakeOff(1, posts) /\ UNCHANGED <<lastError, taken>>
  BY DEF DecrementQueuingCount, Counted
<1>2. post \in [Jobs -> PostStages] /\ Cardinality(InFlight(post)) = queuing
  BY DEF IInv, StreamTyped
<1>3. Counted[post[p]] \in PostStages \ {"none"}
      /\ (post[p] \in Unsettled <=> Counted[post[p]] \in Unsettled)
  BY <1>1 DEF Counted, PostStages, Unsettled
<1>4. posts \in [Jobs -> PostStages] /\ Cardinality(InFlight(posts)) = queuing
  <2>1. posts = [post EXCEPT ![p] = Counted[post[p]]]
    BY <1>2
  <2> HIDE DEF posts
  <2> QED
    BY <1>2, <1>3, <2>1, MoveCounts
<1>5. \A k \in Jobs : posts[k] = "none" <=> post[k] = "none"
  BY <1>1, <1>2, <1>3
<1> HIDE DEF posts
<1> QED
  BY <1>1, <1>4, <1>5, TakeOffKeeps

LEMMA StepIInv ==
    ASSUME IInv, [Next]_vars
    PROVE  IInv'
<1>1. post \in [Jobs -> PostStages] /\ lastError \in BOOLEAN /\ queuing = Cardinality(InFlight(post))
  BY DEF IInv, StreamTyped
<1>2. CASE UNCHANGED streamVars
  BY <1>2 DEF streamVars, IInv, StreamTyped, HandedOver, FinishedIsIdle
<1>3. ASSUME NEW b \in Batches, BatchCounted(b) PROVE IInv'
  BY <1>1, <1>3, TakeOffKeeps DEF BatchCounted
<1>4. ASSUME NEW b \in Batches, QueueBatch(b) \/ BatchAnswered(b) PROVE UNCHANGED streamVars
  BY <1>4 DEF QueueBatch, BatchAnswered
<1>5. ASSUME NEW p \in Jobs, Answer(p) PROVE IInv'
  <2>1. PICK to \in {"stored", "refused"} : Move(p, "posting", to)
    BY <1>5 DEF Answer, PostSucceeds, PostFails
  <2>2. UNCHANGED <<queuing, lastError, taken, parked, stage>>
    BY <1>5 DEF Answer, PostSucceeds, PostFails
  <2>3. to \in PostStages \ {"none"} /\ to \in Unsettled /\ "posting" \in Unsettled
    BY DEF PostStages, Unsettled
  <2> QED
    BY <1>1, <2>1, <2>2, <2>3, MoveKeeps DEF Move
<1>6. ASSUME NEW job \in Jobs, JobQueued(job) \/ JobFails(job) PROVE IInv'
  <2>1. PICK to \in {"confirmed", "queued", "failed"} :
           /\ post[job] \in Unsettled \ {"none"}
           /\ post' = [post EXCEPT ![job] = to]
    <3>1. CASE JobQueued(job)
      <4>1. /\ post[job] \in {"stored", "counted"}
            /\ post' = [post EXCEPT ![job] = Confirmed[post[job]]]
        BY <1>1, <3>1 DEF JobQueued, Confirmed
      <4>2. Confirmed[post[job]] \in {"confirmed", "queued"}
        BY <4>1 DEF Confirmed
      <4>3. post[job] \in Unsettled \ {"none"}
        BY <4>1 DEF Unsettled
      <4> QED
        BY <4>1, <4>2, <4>3
    <3>2. CASE JobFails(job)
      BY <3>2 DEF JobFails, Move, Unsettled
    <3> QED
      BY <1>6, <3>1, <3>2
  <2>2. to \in PostStages \ {"none"} /\ to \notin Unsettled
    BY DEF PostStages, Unsettled
  <2>3. Settle /\ UNCHANGED <<taken, parked>> /\ lastError' \in BOOLEAN
    BY <1>1, <1>6 DEF JobQueued, JobFails
  <2>4. stage # "finished"
    <3>1. job \in InFlight(post)
      BY <2>1 DEF InFlight
    <3> QED
      BY <1>1, <3>1, InFlightFinite DEF IInv, FinishedIsIdle
  <2>5. /\ queuing' = queuing - 1
        /\ \/ stage' = stage
           \/ stage = "flushing" /\ stage' = "finished" /\ queuing' = 0
    BY <2>3 DEF Settle
  <2>6. post[job] # "none"
    BY <2>1
  <2> QED
    BY <2>1, <2>2, <2>3, <2>4, <2>5, <2>6, MoveKeeps
<1>7. CASE UNCHANGED vars
  BY <1>2, <1>7 DEF vars, streamVars
<1> QED
  BY <1>2, <1>3, <1>4, <1>5, <1>6, <1>7, TransformKeeps, FlushKeeps, DecrementKeeps DEF Next

LEMMA InitIInv == Init => IInv
<1> SUFFICES ASSUME Init PROVE IInv
  OBVIOUS
<1>1. InFlight(post) = {} /\ post \in [Jobs -> PostStages]
  BY DEF Init, InFlight, Unsettled, PostStages
<1>2. queuing = Cardinality(InFlight(post)) /\ Length \in Nat
  BY <1>1, FS_EmptySet, StreamAssumption DEF Init
<1>3. StreamTyped
  <2>1. /\ stage = "open" /\ lastError = FALSE /\ parked = FALSE
        /\ taken = 0 /\ taken \in 0 .. Length
    BY <1>2 DEF Init
  <2>2. stage \in Stages /\ lastError \in BOOLEAN /\ parked \in BOOLEAN
    BY <2>1 DEF Stages
  <2> QED
    BY <1>1, <1>2, <2>1, <2>2 DEF StreamTyped
<1>4. HandedOver /\ FinishedIsIdle
  BY <1>2 DEF Init, HandedOver, FinishedIsIdle, Jobs
<1> QED
  BY <1>3, <1>4 DEF IInv

(* A stream that finished has an answer for every job it took: its _flush waits
   for exactly the jobs in flight, and none is held back (queues.js:86-134), for
   streams of any length and any limit. *)
THEOREM FinishedStreamsAnswered == Spec => []FinishedMeansAnswered
<1>1. Init => IInv
  BY InitIInv
<1>2. IInv /\ [Next]_vars => IInv'
  BY StepIInv
<1>3. IInv => FinishedMeansAnswered
  <2> SUFFICES ASSUME IInv, stage = "finished", NEW job \in 1 .. taken
               PROVE  post[job] \in { "confirmed", "queued", "failed" }
    BY DEF FinishedMeansAnswered
  <2>1. job \in Jobs /\ post[job] \in PostStages
    BY StreamAssumption DEF IInv, StreamTyped, Jobs
  <2>2. InFlight(post) = {}
    BY InFlightFinite DEF IInv, StreamTyped, FinishedIsIdle
  <2>3. post[job] # "none"
    BY DEF IInv, HandedOver
  <2> QED
    BY <2>1, <2>2, <2>3 DEF InFlight, PostStages, Unsettled
<1> QED
  BY <1>1, <1>2, <1>3, PTL DEF Spec

-----------------------------------------------------------------------------
(***************************************************************************)
(* The queue's count.                                                      *)
(***************************************************************************)

CountIn(S, where, stages) == Cardinality({ x \in S : where[x] \in stages })

(* The jobs and the calls that decrementQueuingCount has not taken off. *)
UncountedPosts == { "posting", "stored", "confirmed", "refused", "failed" }

UncountedBatches == { "pending", "resolved", "rejected" }

OthersCount(batches) == BatchSize * CountIn(Batches, batches, UncountedBatches)

CountAgrees == queueQueuing = CountIn(Jobs, post, UncountedPosts) + OthersCount(batch)

(* What becomes of the count when x moves. *)
CountFollows(S, before, after, x, stages) ==
    /\ CountIn(S, before, stages) \in Nat /\ CountIn(S, after, stages) \in Nat
    /\ CountIn(S, after, stages) =
          IF before[x] \in stages
          THEN IF after[x] \in stages THEN CountIn(S, before, stages)
                                      ELSE CountIn(S, before, stages) - 1
          ELSE IF after[x] \in stages THEN CountIn(S, before, stages) + 1
                                      ELSE CountIn(S, before, stages)

LEMMA OneMoves ==
    ASSUME NEW S, IsFiniteSet(S), NEW before, NEW after, NEW stages, NEW x \in S,
           \A y \in S : y # x => after[y] = before[y]
    PROVE  CountFollows(S, before, after, x, stages)
<1> DEFINE In(where) == { y \in S : where[y] \in stages }
<1>1. IsFiniteSet(In(before)) /\ IsFiniteSet(In(after))
  BY FS_Subset
<1>2. Cardinality(In(before)) \in Nat /\ Cardinality(In(after)) \in Nat
  BY <1>1, FS_CardinalityType
<1>3. CASE before[x] \in stages /\ after[x] \notin stages
  <2>1. In(after) = In(before) \ {x} /\ x \in In(before)
    BY <1>3
  <2> QED
    BY <1>1, <1>2, <1>3, <2>1, FS_RemoveElement DEF CountIn, CountFollows
<1>4. CASE before[x] \notin stages /\ after[x] \in stages
  <2>1. In(after) = In(before) \cup {x} /\ x \notin In(before)
    BY <1>4
  <2> QED
    BY <1>1, <1>2, <1>4, <2>1, FS_AddElement DEF CountIn, CountFollows
<1>5. CASE before[x] \in stages <=> after[x] \in stages
  <2>1. In(after) = In(before)
    BY <1>5
  <2> QED
    BY <1>2, <1>5, <2>1 DEF CountIn, CountFollows
<1> QED
  BY <1>3, <1>4, <1>5

LEMMA CountsTyped ==
    ASSUME NEW posts, NEW batches
    PROVE  /\ IsFiniteSet(Jobs) /\ IsFiniteSet(Batches)
           /\ CountIn(Jobs, posts, UncountedPosts) \in Nat
           /\ CountIn(Batches, batches, UncountedBatches) \in Nat
           /\ OthersCount(batches) \in Nat
<1>1. IsFiniteSet(Jobs) /\ IsFiniteSet(Batches)
  BY FS_Interval, StreamAssumption, BatchesAssumption DEF Jobs
<1>2. /\ CountIn(Jobs, posts, UncountedPosts) \in Nat
      /\ CountIn(Batches, batches, UncountedBatches) \in Nat
  BY <1>1, FS_Subset, FS_CardinalityType DEF CountIn
<1> QED
  BY <1>1, <1>2, BatchesAssumption DEF OthersCount

(* The throttle counts the job that it lets in, and no other. *)
LEMMA ThrottleCounts ==
    ASSUME NEW posts \in [Jobs -> PostStages], NEW job \in Jobs, posts[job] = "none",
           NEW others \in Nat, NEW count, count = CountIn(Jobs, posts, UncountedPosts) + others,
           Throttle(job, count, posts)
    PROVE  queueQueuing' = CountIn(Jobs, post', UncountedPosts) + others
<1>1. CASE post' = posts /\ queueQueuing' = count
  BY <1>1
<1>2. CASE post' = [posts EXCEPT ![job] = "posting"] /\ queueQueuing' = count + 1
  <2>1. IsFiniteSet(Jobs)
    BY CountsTyped
  <2>2. post'[job] = "posting" /\ \A k \in Jobs : k # job => post'[k] = posts[k]
    BY <1>2
  <2>3. "posting" \in UncountedPosts /\ "none" \notin UncountedPosts
    BY DEF UncountedPosts
  <2>4. /\ CountIn(Jobs, posts, UncountedPosts) \in Nat
        /\ CountIn(Jobs, post', UncountedPosts) = CountIn(Jobs, posts, UncountedPosts) + 1
    <3>1. CountFollows(Jobs, posts, post', job, UncountedPosts)
      BY <2>1, <2>2, OneMoves
    <3> QED
      BY <2>2, <2>3, <3>1 DEF CountFollows
  <2> QED
    BY <1>2, <2>4
<1>3. CASE post' = [posts EXCEPT ![job] = "thrown"] /\ queueQueuing' = count
  <2>1. IsFiniteSet(Jobs)
    BY CountsTyped
  <2>2. post'[job] = "thrown" /\ \A k \in Jobs : k # job => post'[k] = posts[k]
    BY <1>3
  <2>3. "thrown" \notin UncountedPosts /\ "none" \notin UncountedPosts
    BY DEF UncountedPosts
  <2>4. CountFollows(Jobs, posts, post', job, UncountedPosts)
    BY <2>1, <2>2, OneMoves
  <2>5. CountIn(Jobs, post', UncountedPosts) = CountIn(Jobs, posts, UncountedPosts)
    BY <2>2, <2>3, <2>4 DEF CountFollows
  <2> QED
    BY <1>3, <2>5
<1> QED
  BY <1>1, <1>2, <1>3 DEF Throttle, Admit, HoldBack

(* A job that moves with the count as it is. *)
LEMMA MoveAgrees ==
    ASSUME CountAgrees, post \in [Jobs -> PostStages], NEW p \in Jobs, NEW to,
           post' = [post EXCEPT ![p] = to],
           post[p] \in UncountedPosts <=> to \in UncountedPosts,
           UNCHANGED <<queueQueuing, batch>>
    PROVE  CountAgrees'
<1>1. post'[p] = to /\ \A k \in Jobs : k # p => post'[k] = post[k]
  OBVIOUS
<1>2. IsFiniteSet(Jobs)
  BY CountsTyped
<1>3. CountFollows(Jobs, post, post', p, UncountedPosts)
  BY <1>1, <1>2, OneMoves
<1>4. CountIn(Jobs, post', UncountedPosts) = CountIn(Jobs, post, UncountedPosts)
  BY <1>1, <1>3 DEF CountFollows
<1> QED
  BY <1>4 DEF CountAgrees

(* A call that moves. *)
LEMMA BatchMoves ==
    ASSUME batch \in [Batches -> { "none", "pending", "resolved", "rejected", "counted" }],
           NEW b \in Batches, NEW to, batch' = [batch EXCEPT ![b] = to]
    PROVE  OthersCount(batch') =
              IF batch[b] \in UncountedBatches
              THEN IF to \in UncountedBatches THEN OthersCount(batch)
                                              ELSE OthersCount(batch) - BatchSize
              ELSE IF to \in UncountedBatches THEN OthersCount(batch) + BatchSize
                                              ELSE OthersCount(batch)
<1> DEFINE count == CountIn(Batches, batch, UncountedBatches)
           moved == CountIn(Batches, batch', UncountedBatches)
<1>1. batch'[b] = to /\ \A c \in Batches : c # b => batch'[c] = batch[c]
  OBVIOUS
<1>2. IsFiniteSet(Batches) /\ BatchSize \in Nat
  BY CountsTyped, BatchesAssumption
<1>3. /\ count \in Nat /\ moved \in Nat
      /\ moved = IF batch[b] \in UncountedBatches
                 THEN IF to \in UncountedBatches THEN count ELSE count - 1
                 ELSE IF to \in UncountedBatches THEN count + 1 ELSE count
  <2>1. CountFollows(Batches, batch, batch', b, UncountedBatches)
    BY <1>1, <1>2, OneMoves
  <2> QED
    BY <1>1, <2>1 DEF CountFollows
<1> HIDE DEF count, moved
<1>4. /\ BatchSize * (count - 1) = BatchSize * count - BatchSize
      /\ BatchSize * (count + 1) = BatchSize * count + BatchSize
  BY <1>2, <1>3
<1>5. OthersCount(batch) = BatchSize * count /\ OthersCount(batch') = BatchSize * moved
  BY DEF OthersCount, count, moved
<1> QED
  BY <1>3, <1>4, <1>5

LEMMA TransformAgrees ==
    ASSUME IInv, CountAgrees, Transform
    PROVE  CountAgrees'
<1>1. taken + 1 \in Jobs /\ post[taken + 1] = "none" /\ post \in [Jobs -> PostStages]
  BY StreamAssumption DEF Transform, IInv, StreamTyped, HandedOver, Jobs
<1>2. OthersCount(batch) \in Nat
  BY CountsTyped
<1>3. queueQueuing' = CountIn(Jobs, post', UncountedPosts) + OthersCount(batch)
  BY <1>1, <1>2, ThrottleCounts DEF Transform, CountAgrees
<1>4. batch' = batch
  BY DEF Transform, batchVars
<1> QED
  BY <1>3, <1>4 DEF CountAgrees

(* decrementQueuingCount: what is taken off is no longer counted, before whoever
   is held back is let in. *)
LEMMA TakeOffAgrees ==
    ASSUME IInv, NEW n, NEW posts \in [Jobs -> PostStages], NEW others \in Nat, TakeOff(n, posts),
           queueQueuing - n = CountIn(Jobs, posts, UncountedPosts) + others,
           \A k \in Jobs : posts[k] = "none" <=> post[k] = "none"
    PROVE  queueQueuing' = CountIn(Jobs, post', UncountedPosts) + others
<1>1. parked => taken \in Jobs /\ posts[taken] = "none"
  BY StreamAssumption DEF IInv, StreamTyped, HandedOver, Jobs
<1>2. CASE parked /\ Throttle(taken, queueQueuing - n, posts)
  BY <1>1, <1>2, ThrottleCounts
<1>3. CASE queueQueuing' = queueQueuing - n /\ post' = posts
  BY <1>3
<1> QED
  BY <1>2, <1>3 DEF TakeOff

LEMMA DecrementAgrees ==
    ASSUME IInv, CountAgrees, NEW p \in Jobs, DecrementQueuingCount(p)
    PROVE  CountAgrees'
<1> DEFINE posts == [post EXCEPT ![p] = Counted[@]]
<1>1. /\ post[p] \in {"stored", "confirmed"} /\ TakeOff(1, posts) /\ batch' = batch
      /\ post \in [Jobs -> PostStages]
  BY DEF DecrementQueuingCount, Counted, IInv, StreamTyped, batchVars
<1>2. Counted[post[p]] \in {"counted", "queued"}
  BY <1>1 DEF Counted
<1>3. posts = [post EXCEPT ![p] = Counted[post[p]]]
  BY <1>1
<1> HIDE DEF posts
<1>4. /\ posts[p] \in {"counted", "queued"} /\ \A k \in Jobs : k # p => posts[k] = post[k]
      /\ posts \in [Jobs -> PostStages]
  BY <1>1, <1>2, <1>3 DEF PostStages
<1>5. post[p] \in UncountedPosts /\ posts[p] \notin UncountedPosts
  BY <1>1, <1>4 DEF UncountedPosts
<1>6. /\ CountIn(Jobs, post, UncountedPosts) \in Nat
      /\ CountIn(Jobs, posts, UncountedPosts) = CountIn(Jobs, post, UncountedPosts) - 1
  <2>1. IsFiniteSet(Jobs)
    BY CountsTyped
  <2>2. CountFollows(Jobs, post, posts, p, UncountedPosts)
    BY <1>4, <2>1, OneMoves
  <2> QED
    BY <1>5, <2>2 DEF CountFollows
<1>7. OthersCount(batch) \in Nat
  BY CountsTyped
<1>8. queueQueuing - 1 = CountIn(Jobs, posts, UncountedPosts) + OthersCount(batch)
  BY <1>6, <1>7 DEF CountAgrees
<1>9. \A k \in Jobs : posts[k] = "none" <=> post[k] = "none"
  BY <1>1, <1>4
<1>10. queueQueuing' = CountIn(Jobs, post', UncountedPosts) + OthersCount(batch)
  BY <1>1, <1>4, <1>7, <1>8, <1>9, TakeOffAgrees
<1> QED
  BY <1>1, <1>10 DEF CountAgrees

LEMMA BatchAgrees ==
    ASSUME IInv, StoredInPlace, CountAgrees, NEW b \in Batches,
           QueueBatch(b) \/ BatchAnswered(b) \/ BatchCounted(b)
    PROVE  CountAgrees'
<1> DEFINE posted == CountIn(Jobs, post, UncountedPosts)
<1>1. /\ posted \in Nat /\ OthersCount(batch) \in Nat /\ OthersCount(batch') \in Nat
      /\ BatchSize \in Nat
  BY CountsTyped, BatchesAssumption
<1>2. batch \in [Batches -> { "none", "pending", "resolved", "rejected", "counted" }]
  BY DEF StoredInPlace
<1>3. CASE QueueBatch(b)
  <2>1. /\ batch[b] = "none" /\ batch' = [batch EXCEPT ![b] = "pending"]
        /\ queueQueuing' = queueQueuing + BatchSize /\ post' = post
    BY <1>3 DEF QueueBatch, PostBatch, streamVars
  <2>2. OthersCount(batch') = OthersCount(batch) + BatchSize
    BY <1>2, <2>1, BatchMoves DEF UncountedBatches
  <2> QED
    BY <1>1, <2>1, <2>2 DEF CountAgrees
<1>4. CASE BatchAnswered(b)
  <2>1. UNCHANGED <<queueQueuing, post>>
    BY <1>4 DEF BatchAnswered, streamVars
  <2>2. PICK chunk \in Chunks : ChunkStored(b, chunk) \/ ChunkRefused(b, chunk)
    BY <1>4 DEF BatchAnswered, ChunkAnswered
  <2>3. batch[b] \in {"pending", "rejected"}
    <3>1. PICK e \in chunk : e \in Entries
      BY ChunksNotEmpty
    <3>2. entry[b][e] = "sent"
      BY <2>2, <3>1 DEF ChunkStored, ChunkRefused
    <3> QED
      BY <1>2, <3>1, <3>2 DEF StoredInPlace
  <2>4. \E to \in UncountedBatches : batch' = [batch EXCEPT ![b] = to]
    <3>1. CASE ChunkStored(b, chunk)
      <4>1. batch' = [batch EXCEPT ![b] =
                        IF batch[b] = "pending" /\ \A e \in Entries : entry'[b][e] = "stored"
                        THEN "resolved" ELSE batch[b]]
        BY <3>1 DEF ChunkStored
      <4> QED
        BY <2>3, <4>1 DEF UncountedBatches
    <3>2. CASE ChunkRefused(b, chunk)
      BY <3>2 DEF ChunkRefused, UncountedBatches
    <3> QED
      BY <2>2, <3>1, <3>2
  <2>5. OthersCount(batch') = OthersCount(batch)
    BY <1>2, <2>3, <2>4, BatchMoves DEF UncountedBatches
  <2> QED
    BY <2>1, <2>5 DEF CountAgrees
<1>5. CASE BatchCounted(b)
  <2>1. /\ batch[b] = "resolved" /\ batch' = [batch EXCEPT ![b] = "counted"]
        /\ TakeOff(BatchSize, post) /\ post \in [Jobs -> PostStages]
    BY <1>5 DEF BatchCounted, IInv, StreamTyped
  <2>2. OthersCount(batch') = OthersCount(batch) - BatchSize
    BY <1>2, <2>1, BatchMoves DEF UncountedBatches
  <2>3. queueQueuing - BatchSize = posted + OthersCount(batch')
    BY <1>1, <2>2 DEF CountAgrees
  <2>4. queueQueuing' = CountIn(Jobs, post', UncountedPosts) + OthersCount(batch')
    BY <1>1, <2>1, <2>3, TakeOffAgrees
  <2> QED
    BY <2>4 DEF CountAgrees
<1> QED
  BY <1>3, <1>4, <1>5

LEMMA StepCountAgrees ==
    ASSUME IInv, StoredInPlace, CountAgrees, [Next]_vars
    PROVE  CountAgrees'
<1>1. post \in [Jobs -> PostStages]
  BY DEF IInv, StreamTyped
<1>2. CASE Flush \/ UNCHANGED vars
  BY <1>2 DEF Flush, vars, streamVars, batchVars, CountAgrees
<1>3. ASSUME NEW p \in Jobs, Answer(p) PROVE CountAgrees'
  <2>1. PICK to \in {"stored", "refused"} : Move(p, "posting", to)
    BY <1>3 DEF Answer, PostSucceeds, PostFails
  <2>2. UNCHANGED <<queueQueuing, batch>>
    BY <1>3 DEF Answer, PostSucceeds, PostFails, batchVars
  <2> QED
    BY <1>1, <2>1, <2>2, MoveAgrees DEF Move, UncountedPosts
<1>4. ASSUME NEW job \in Jobs, JobQueued(job) PROVE CountAgrees'
  <2>1. /\ post[job] \in {"stored", "counted"}
        /\ post' = [post EXCEPT ![job] = Confirmed[post[job]]]
        /\ UNCHANGED <<queueQueuing, batch>>
    BY <1>1, <1>4 DEF JobQueued, Confirmed, batchVars
  <2>2. post[job] \in UncountedPosts <=> Confirmed[post[job]] \in UncountedPosts
    BY <2>1 DEF Confirmed, UncountedPosts
  <2> QED
    BY <1>1, <2>1, <2>2, MoveAgrees
<1>5. ASSUME NEW job \in Jobs, JobFails(job) PROVE CountAgrees'
  BY <1>1, <1>5, MoveAgrees DEF JobFails, Move, UncountedPosts, batchVars
<1> QED
  BY <1>2, <1>3, <1>4, <1>5, TransformAgrees, DecrementAgrees, BatchAgrees DEF Next

(* The queue's count is the number of jobs that were handed to the broker and
   not taken off again, those whose request failed included, and the stream's the
   number of its promises that did not settle (queues.js:98-117, 180-227): TypeOK
   holds of every run. *)
THEOREM CountsAgree == Spec => []TypeOK
<1>1. Init => IInv /\ StoredInPlace /\ CountAgrees
  <2> SUFFICES ASSUME Init PROVE IInv /\ StoredInPlace /\ CountAgrees
    OBVIOUS
  <2>1. IInv /\ StoredInPlace
    BY InitIInv, InitStoredInPlace
  <2>2. /\ { p \in Jobs : post[p] \in UncountedPosts } = {}
        /\ { b \in Batches : batch[b] \in UncountedBatches } = {}
    BY DEF Init, BInit, UncountedPosts, UncountedBatches
  <2>3. CountIn(Jobs, post, UncountedPosts) = 0 /\ OthersCount(batch) = 0
    BY <2>2, FS_EmptySet, BatchesAssumption DEF CountIn, OthersCount
  <2> QED
    BY <2>1, <2>3 DEF Init, CountAgrees
<1>2. IInv /\ StoredInPlace /\ CountAgrees /\ [Next]_vars
        => IInv' /\ StoredInPlace' /\ CountAgrees'
  BY StepIInv, StepStoredInPlace, StepCountAgrees
<1>3. IInv /\ StoredInPlace /\ CountAgrees => TypeOK
  <2> SUFFICES ASSUME IInv, StoredInPlace, CountAgrees PROVE TypeOK
    OBVIOUS
  <2>1. BTypeOK
    BY DEF StoredInPlace, BTypeOK
  <2>2. queueQueuing = Uncounted
    BY DEF CountAgrees, Uncounted, CountIn, OthersCount, PostsIn, InBatches, UncountedPosts,
           UncountedBatches
  <2>3. queuing = Cardinality(PostsIn({ "posting", "stored", "counted", "refused", "thrown" }))
    BY DEF IInv, StreamTyped, InFlight, Unsettled, PostsIn
  <2> QED
    BY <2>1, <2>2, <2>3 DEF TypeOK, IInv, StreamTyped
<1> QED
  BY <1>1, <1>2, <1>3, PTL DEF Spec

=============================================================================
