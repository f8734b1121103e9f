----------------------------- MODULE JobBatches -----------------------------
(***************************************************************************)
(* Queueing several jobs in one call, queueJobs() and delayJobs(), on the  *)
(* three services: the post() of lib/sqs.js, lib/beanstalk.js and          *)
(* lib/iron_mq.js.                                                         *)
(*                                                                         *)
(* The jobs go out in chunks that are answered in any order: of ten on     *)
(* SQS, of one on Beanstalk, in a single one on IronMQ.  SQS answers for   *)
(* each entry of a chunk, in an order of its own, and may refuse some; the *)
(* others refuse a chunk or store it.  The first chunk that fails rejects  *)
(* the call, whose other chunks are stored or not all the same.            *)
(***************************************************************************)
EXTENDS Integers, FiniteSets, Functions

CONSTANTS
    Batches,        (* the calls                                              *)
    BatchSize,      (* how many jobs each of them queues                      *)
    ChunkSize,      (* how many go out in one request                         *)
    PartialRefusals (* may a request store some of its jobs? (SQS)            *)

ASSUME BatchesAssumption ==
    /\ IsFiniteSet(Batches)
    /\ BatchSize \in Nat \ {0} /\ ChunkSize \in Nat \ {0}
    /\ PartialRefusals \in BOOLEAN

Entries == 1 .. BatchSize

VARIABLES
    batch,          (* call -> what its caller sees                           *)
    entry,          (* call -> job -> what the broker did with it             *)
    jobIDs          (* call -> job -> the ID the caller gets for it           *)

batchVars == <<batch, entry, jobIDs>>

BInit ==
    /\ batch = [b \in Batches |-> "none"]
    /\ entry = [b \in Batches |-> [e \in Entries |-> "none"]]
    /\ jobIDs = [b \in Batches |-> [e \in Entries |-> 0]]

(* chunkArray *)
Chunks ==
    { { e \in Entries : e > k * ChunkSize /\ e <= (k + 1) * ChunkSize } :
        k \in { k \in 0 .. BatchSize : k * ChunkSize < BatchSize } }

(* post() sends all chunks. *)
PostBatch(b) ==
    /\ batch[b] = "none"
    /\ batch' = [batch EXCEPT ![b] = "pending"]
    /\ entry' = [entry EXCEPT ![b] = [e \in Entries |-> "sent"]]
    /\ UNCHANGED jobIDs

(* Variant: the IDs are taken in the order of the answer. *)
UnorderedJobIDs(answer) == [e \in DOMAIN answer |-> answer[e].messageId]

(* orderedJobIDs of sqs.js: the ID of each job is that of the answer to its
   entry.  (Entries are named by their place in the call; the ID the broker
   gives to a job is written as the job's place too.) *)
OrderedJobIDs(answer) ==
    [e \in DOMAIN answer |->
        (CHOOSE result \in { answer[i] : i \in DOMAIN answer } : result.id = e).messageId]

Answers(chunk) ==
    { [i \in chunk |-> [id |-> order[i], messageId |-> order[i]]] :
        order \in Bijection(chunk, chunk) }

(* Every job of the chunk was stored; with the last chunk the call resolves. *)
ChunkStored(b, chunk) ==
    /\ \A e \in chunk : entry[b][e] = "sent"
    /\ entry' = [entry EXCEPT ![b] = [e \in Entries |-> IF e \in chunk THEN "stored" ELSE @[e]]]
    /\ \E answer \in Answers(chunk) :
        LET ids == OrderedJobIDs(answer)
        IN  jobIDs' = [jobIDs EXCEPT ![b] = [e \in Entries |-> IF e \in chunk THEN ids[e] ELSE @[e]]]
    /\ batch' = [batch EXCEPT ![b] =
                    IF @ = "pending" /\ \A e \in Entries : entry'[b][e] = "stored"
                    THEN "resolved" ELSE @]

(* Variant: what was refused is not looked at if something was stored. *)
LenientChunkRefused(b, chunk) ==
    /\ \A e \in chunk : entry[b][e] = "sent"
    /\ \E stored \in SUBSET chunk :
        /\ stored # chunk /\ (stored # {} => PartialRefusals)
        /\ entry' = [entry EXCEPT ![b] = [e \in Entries |->
                        IF e \in stored THEN "stored"
                        ELSE IF e \in chunk THEN "refused" ELSE @[e]]]
        /\ batch' = [batch EXCEPT ![b] =
                        IF stored = {} THEN "rejected"
                        ELSE IF @ = "pending" /\ \A e \in Entries : entry'[b][e] # "sent"
                        THEN "resolved" ELSE @]
    /\ UNCHANGED jobIDs

(* The request failed, or some of its entries did. *)
ChunkRefused(b, chunk) ==
    /\ \A e \in chunk : entry[b][e] = "sent"
    /\ \E stored \in SUBSET chunk :
        /\ stored # chunk /\ (stored # {} => PartialRefusals)
        /\ entry' = [entry EXCEPT ![b] = [e \in Entries |->
                        IF e \in stored THEN "stored"
                        ELSE IF e \in chunk THEN "refused" ELSE @[e]]]
    /\ batch' = [batch EXCEPT ![b] = "rejected"]
    /\ UNCHANGED jobIDs

ChunkAnswered(b) == \E chunk \in Chunks : ChunkStored(b, chunk) \/ ChunkRefused(b, chunk)

-----------------------------------------------------------------------------
BTypeOK ==
    /\ batch \in [Batches -> { "none", "pending", "resolved", "rejected", "counted" }]
    /\ entry \in [Batches -> [Entries -> { "none", "sent", "stored", "refused" }]]
    /\ jobIDs \in [Batches -> [Entries -> 0 .. BatchSize]]

(* A call that resolved has stored every one of its jobs, and gives the caller
   the ID of each in the place of the job, in whichever order the chunks and the
   entries of a chunk were answered (sqs.js:16-71, beanstalk.js:221-228). *)
ResolvedMeansStored ==
    \A b \in Batches : batch[b] \in { "resolved", "counted" } =>
        \A e \in Entries : entry[b][e] = "stored" /\ jobIDs[b][e] = e
=============================================================================
