----------------------------- MODULE Processing -----------------------------
(***************************************************************************)
(* Continuous job processing in one worker process (lib/queues.js).        *)
(*                                                                         *)
(* Every queue that is started runs a processing loop                      *)
(* (Queue._processContinuously): ask the server for capacity, reserve at   *)
(* most that many jobs from the broker, allocate capacity for what came    *)
(* back, run the jobs that fit, release the others, start over.  All loops *)
(* share one counter of active jobs and one list of loops waiting for      *)
(* capacity (class Queues).                                                *)
(*                                                                         *)
(* JavaScript runs one promise continuation at a time; between two         *)
(* continuations of a chain any other chain may run.  Each action below is *)
(* one continuation: what the code does from one .then() to the next.  A   *)
(* chain is at pc[l] (a loop) or at run[r] (one reserved job).             *)
(***************************************************************************)
EXTENDS Integers, FiniteSets

CONSTANTS
    Queues,         (* the queues of this process                               *)
    Chains,         (* per queue, the promise chains a loop may run on (bound)  *)
    Reservations,   (* what a reserve reply hands out: a job with its receipt   *)
    Concurrencies,  (* the values configure() may give config.concurrency       *)
    Rejected        (* the outcome of a configuration promise that is rejected  *)

ASSUME ProcessingAssumption ==
    /\ IsFiniteSet(Reservations)
    /\ Concurrencies \subseteq Nat
    /\ Rejected \notin Int

VARIABLES
    config,             (* Ironium._configPromise: config.concurrency or Rejected *)
    hasHandlers,        (* queue -> its _handlers set is not empty                *)
    processing,         (* queue -> Queue._processing                             *)
    session,            (* queue -> Queue._getSessionPromise                      *)
    activeJobs,         (* Queues._activeJobs                                     *)
    waitingForReserve,  (* Queues._waitingForReserve, by the loop that waits      *)
    pc,                 (* loop -> the continuation it runs next                  *)
    asked,              (* loop -> the configuration its pending callback gets    *)
    capacity,           (* loop -> the reserveCapacity it was given               *)
    inHand,             (* loop -> the jobs of its last reserve reply             *)
    run,                (* reservation -> where it is in this process             *)
    wakeAsked,          (* reservation -> the same of its freeCapacity()          *)
    wakeCapacity,       (* reservation -> capacity its freeCapacity() computed    *)
    agreed              (* history: the limit last set, Rejected once it is void  *)

configVars   == <<config, agreed>>
queueVars    == <<hasHandlers, processing, session>>
capacityVars == <<activeJobs, waitingForReserve>>
loopVars     == <<pc, asked, capacity, inHand>>
runVars      == <<run, wakeAsked, wakeCapacity>>
vars         == <<configVars, queueVars, capacityVars, loopVars, runVars>>

Loops    == Queues \X Chains
QueueOf(l) == l[1]

(***************************************************************************)
(* The continuations of a loop, in the order they run.                     *)
(***************************************************************************)
PCs == { "idle",       \* no chain: never started, or ended
         "client",     \* _getClientPromise resolves next
         "calculate",  \* _calculateReserveCapacity computes next
         "decide",     \* getReserveCapacity looks at the capacity computed
         "waiting",    \* parked in _waitingForReserve
         "reserve",    \* client.reserve() is with the broker
         "reserved",   \* the reply is in, _processing is checked next
         "allocate",   \* allocateCapacity computes next
         "dispatch",   \* jobs are run and released next
         "next",       \* _processContinuously is called again next
         "backoff" }   \* Bluebird.delay(backoff) after an error

(***************************************************************************)
(* Where a reservation is.  "forgotten": received, then neither run nor    *)
(* released, so the broker alone will give it back.                        *)
(***************************************************************************)
RunStates == { "free", "held", "allocated", "running", "deleting",
               "settled", "waking", "waken", "forgotten" }

Holding == { r \in Reservations :
                run[r] \in {"allocated", "running", "deleting", "settled"} }

Free == { r \in Reservations : run[r] = "free" }

IdleLoops(q) == { l \in Loops : QueueOf(l) = q /\ pc[l] = "idle" }

Smaller(a, b) == IF a <= b THEN a ELSE b
Larger(a, b)  == IF a >= b THEN a ELSE b

(* _calculateReserveCapacity: at most half of the process per queue, and no
   more than is left of the limit it was given. *)
ReserveCapacity(limit) == Smaller(limit - activeJobs, Larger(limit \div 2, 1))

Init ==
    /\ config \in Concurrencies
    /\ hasHandlers = [q \in Queues |-> FALSE]
    /\ processing = [q \in Queues |-> FALSE]
    /\ session = [q \in Queues |-> "none"]
    /\ activeJobs = 0
    /\ waitingForReserve = {}
    /\ pc = [l \in Loops |-> "idle"]
    /\ asked = [l \in Loops |-> Rejected]
    /\ capacity = [l \in Loops |-> 0]
    /\ inHand = [l \in Loops |-> {}]
    /\ run = [r \in Reservations |-> "free"]
    /\ wakeAsked = [r \in Reservations |-> Rejected]
    /\ wakeCapacity = [r \in Reservations |-> 0]
    /\ agreed = config

-----------------------------------------------------------------------------
(***************************************************************************)
(* Starting and stopping a queue.                                          *)
(***************************************************************************)

(* _startProcessing: the getter makes the session on first use and caches the
   promise; a rejected one has no catch, so no loop starts. *)
StartProcessing(q) ==
    LET client == IF session[q] # "none" THEN session[q]
                  ELSE IF config = Rejected THEN "rejected" ELSE "open"
    IN  /\ session' = [session EXCEPT ![q] = client]
        /\ \/ /\ client = "open"
              /\ \E l \in IdleLoops(q) : pc' = [pc EXCEPT ![l] = "client"]
           \/ /\ client = "rejected"
              /\ UNCHANGED pc

(* Variant: a handler added after start() is not noticed. *)
LateEachJob(q) ==
    /\ ~hasHandlers[q]
    /\ hasHandlers' = [hasHandlers EXCEPT ![q] = TRUE]
    /\ UNCHANGED <<configVars, processing, session, pc, capacityVars, asked, capacity, inHand, runVars>>

(* Queue.eachJob: only the first handler of a queue matters here. *)
EachJob(q) ==
    /\ ~hasHandlers[q]
    /\ hasHandlers' = [hasHandlers EXCEPT ![q] = TRUE]
    /\ IF processing[q] THEN StartProcessing(q) ELSE UNCHANGED <<session, pc>>
    /\ UNCHANGED <<configVars, processing, capacityVars, asked, capacity, inHand, runVars>>

(* Queue.start on a queue that is not processing; on one that is, start()
   does nothing. *)
Start(q) ==
    /\ ~processing[q]
    /\ processing' = [processing EXCEPT ![q] = TRUE]
    /\ IF hasHandlers[q] THEN StartProcessing(q) ELSE UNCHANGED <<session, pc>>
    /\ UNCHANGED <<configVars, hasHandlers, capacityVars, asked, capacity, inHand, runVars>>

(* Queue.stop on each queue of Q: the loop is not told, it finds out. *)
StopQueues(Q) ==
    /\ processing' = [q \in Queues |-> processing[q] /\ q \notin Q]
    /\ session' = [q \in Queues |-> IF q \in Q THEN "none" ELSE session[q]]
    /\ UNCHANGED <<configVars, hasHandlers, capacityVars, loopVars, runVars>>

Stop(q) == processing[q] /\ StopQueues({q})

(* A limit the whole process can agree on: it is not below what runs, and no
   loop is about to allocate with another one. *)
CanAgree(c) ==
    /\ activeJobs <= c
    /\ \A l \in Loops : pc[l] = "allocate" => asked[l] \in {c, Rejected}

(* Ironium.configure, called again at any time: callbacks that wait for the
   old configuration still get it. *)
Configure(c) ==
    /\ config' = c
    /\ agreed' = IF c = Rejected THEN agreed
                 ELSE IF agreed # Rejected /\ CanAgree(c) THEN c ELSE Rejected
    /\ UNCHANGED <<queueVars, capacityVars, loopVars, runVars>>

-----------------------------------------------------------------------------
(***************************************************************************)
(* A processing loop.                                                      *)
(***************************************************************************)

Goto(l, from, to) ==
    /\ pc[l] = from
    /\ pc' = [pc EXCEPT ![l] = to]

(* this.configPromise.then(...): the callback gets the configuration of the
   turn in which this is called, whatever configure() does until it runs. *)
Ask(l, from, to) ==
    /\ Goto(l, from, to)
    /\ asked' = [asked EXCEPT ![l] = config]

(* The callback, of a configuration that resolved. *)
Answer(l, from, to) ==
    /\ asked[l] # Rejected
    /\ Goto(l, from, to)
    /\ asked' = [asked EXCEPT ![l] = Rejected]

(* Variant: the loop does not look at _processing. *)
EndlessProcessContinuously(l, from) ==
    /\ Ask(l, from, "calculate")
    /\ UNCHANGED <<configVars, queueVars, capacityVars, capacity, inHand, runVars>>

(* _processContinuously up to its first await; it ends the loop when the
   queue is not processing any more. *)
ProcessContinuously(l, from) ==
    /\ \/ processing[QueueOf(l)] /\ Ask(l, from, "calculate")
       \/ ~processing[QueueOf(l)] /\ Goto(l, from, "idle") /\ UNCHANGED asked
    /\ UNCHANGED <<configVars, queueVars, capacityVars, capacity, inHand, runVars>>

ClientReady(l) == ProcessContinuously(l, "client")
LoopAgain(l)   == ProcessContinuously(l, "next")
BackedOff(l)   == ProcessContinuously(l, "backoff")

CalculateReserveCapacity(l) ==
    /\ Answer(l, "calculate", "decide")
    /\ capacity' = [capacity EXCEPT ![l] = ReserveCapacity(asked[l])]
    /\ UNCHANGED <<configVars, queueVars, capacityVars, inHand, runVars>>

(* Variant: with no capacity left the loop asks the broker anyway. *)
EagerGetReserveCapacity(l) ==
    /\ \/ /\ capacity[l] >= 0
          /\ Goto(l, "decide", "reserve")
          /\ UNCHANGED waitingForReserve
       \/ /\ capacity[l] < 0
          /\ Goto(l, "decide", "waiting")
          /\ waitingForReserve' = waitingForReserve \cup {l}
    /\ UNCHANGED <<configVars, queueVars, activeJobs, asked, capacity, inHand, runVars>>

(* getReserveCapacity, after the capacity is computed: no second look at
   _activeJobs before the loop is parked. *)
GetReserveCapacity(l) ==
    /\ \/ /\ capacity[l] > 0
          /\ Goto(l, "decide", "reserve")
          /\ UNCHANGED waitingForReserve
       \/ /\ capacity[l] <= 0
          /\ Goto(l, "decide", "waiting")
          /\ waitingForReserve' = waitingForReserve \cup {l}
    /\ UNCHANGED <<configVars, queueVars, activeJobs, asked, capacity, inHand, runVars>>

(* The broker hands over at most as many jobs as were asked for; the wait
   may also time out with none. *)
ReserveJobs(l) ==
    \E jobs \in SUBSET Free :
        /\ Cardinality(jobs) <= capacity[l]
        /\ Goto(l, "reserve", "reserved")
        /\ inHand' = [inHand EXCEPT ![l] = jobs]
        /\ run' = [r \in Reservations |-> IF r \in jobs THEN "held" ELSE run[r]]
        /\ UNCHANGED <<configVars, queueVars, capacityVars, asked, capacity, wakeAsked, wakeCapacity>>

(* Any await of the loop that rejects ends in reportError and the delay:
   the reserve request, or the configuration the capacity is computed from. *)
ReserveFails(l) ==
    /\ \/ Goto(l, "reserve", "backoff")
       \/ asked[l] = Rejected /\ Goto(l, "calculate", "backoff")
    /\ UNCHANGED <<configVars, queueVars, capacityVars, asked, capacity, inHand, runVars>>

(* The reply is in: a queue stopped meanwhile allocates nothing. *)
CheckProcessing(l) ==
    /\ \/ processing[QueueOf(l)] /\ Ask(l, "reserved", "allocate")
       \/ ~processing[QueueOf(l)] /\ Goto(l, "reserved", "dispatch") /\ UNCHANGED asked
    /\ UNCHANGED <<configVars, queueVars, capacityVars, capacity, inHand, runVars>>

(* jobs.slice(0, capacity).length: a negative capacity counts from the end. *)
SliceLength(length, count) ==
    IF count >= 0 THEN Smaller(count, length) ELSE Larger(length + count, 0)

(* Variant: what was reserved is run, without a second look at the counter. *)
TrustingAllocateCapacity(l) ==
    /\ Answer(l, "allocate", "dispatch")
    /\ activeJobs' = activeJobs + Cardinality(inHand[l])
    /\ run' = [r \in Reservations |-> IF r \in inHand[l] THEN "allocated" ELSE run[r]]
    /\ UNCHANGED <<configVars, queueVars, waitingForReserve, capacity, inHand,
                   wakeAsked, wakeCapacity>>

(* allocateCapacity and the two slices of the reply it decides. *)
AllocateCapacity(l) ==
    LET requested == Cardinality(inHand[l])
        allocated == Smaller(asked[l] - activeJobs, requested)
    IN  /\ Answer(l, "allocate", "dispatch")
        /\ activeJobs' = activeJobs + allocated
        /\ \E jobsToRun \in SUBSET inHand[l] :
              /\ Cardinality(jobsToRun) = SliceLength(requested, allocated)
              /\ run' = [r \in Reservations |->
                            IF r \in jobsToRun THEN "allocated" ELSE run[r]]
        /\ UNCHANGED <<configVars, queueVars, waitingForReserve, capacity, inHand,
                       wakeAsked, wakeCapacity>>

(* A rejected configuration between reserve and run: the jobs stay in a
   closure nobody calls. *)
AllocateFails(l) ==
    /\ asked[l] = Rejected
    /\ Goto(l, "allocate", "backoff")
    /\ inHand' = [inHand EXCEPT ![l] = {}]
    /\ run' = [r \in Reservations |-> IF r \in inHand[l] THEN "forgotten" ELSE run[r]]
    /\ UNCHANGED <<configVars, queueVars, capacityVars, asked, capacity, wakeAsked, wakeCapacity>>

(* Variant: the jobs that do not fit are not released. *)
KeepingDispatch(l) ==
    /\ Goto(l, "dispatch", "next")
    /\ inHand' = [inHand EXCEPT ![l] = {}]
    /\ run' = [r \in Reservations |->
                  IF r \in inHand[l] /\ run[r] = "allocated" THEN "running" ELSE run[r]]
    /\ UNCHANGED <<configVars, queueVars, capacityVars, asked, capacity, wakeAsked, wakeCapacity>>

(* Run the jobs that got capacity, release the others without waiting. *)
Dispatch(l) ==
    /\ Goto(l, "dispatch", "next")
    /\ inHand' = [inHand EXCEPT ![l] = {}]
    /\ run' = [r \in Reservations |->
                  IF r \notin inHand[l] THEN run[r]
                  ELSE IF run[r] = "allocated" THEN "running" ELSE "free"]
    /\ UNCHANGED <<configVars, queueVars, capacityVars, asked, capacity, wakeAsked, wakeCapacity>>

-----------------------------------------------------------------------------
(***************************************************************************)
(* A job that runs: _runAndDestroy(...).catch().then(freeCapacity).        *)
(***************************************************************************)

Move(r, from, to) ==
    /\ run[r] = from
    /\ run' = [run EXCEPT ![r] = to]

(* All handlers resolved: client.del() is sent and waited for. *)
JobSucceeds(r) ==
    /\ Move(r, "running", "deleting")
    /\ UNCHANGED <<configVars, queueVars, capacityVars, loopVars, wakeAsked, wakeCapacity>>

(* client.del() resolved, or rejected and was swallowed. *)
DeleteJob(r) ==
    /\ Move(r, "deleting", "settled")
    /\ UNCHANGED <<configVars, queueVars, capacityVars, loopVars, wakeAsked, wakeCapacity>>

(* Variant: a failed job gives its capacity back itself, and again at the end. *)
FreeingJobFails(r) ==
    /\ Move(r, "running", "settled")
    /\ activeJobs' = activeJobs - 1
    /\ UNCHANGED <<configVars, queueVars, waitingForReserve, loopVars, wakeAsked, wakeCapacity>>

(* A handler rejected or timed out: client.release() is not waited for. *)
JobFails(r) ==
    /\ Move(r, "running", "settled")
    /\ UNCHANGED <<configVars, queueVars, capacityVars, loopVars, wakeAsked, wakeCapacity>>

(* Variant: one waiting loop is not worth a wake-up. *)
LazyFreeCapacity(r) ==
    /\ activeJobs' = activeJobs - 1
    /\ \/ /\ Cardinality(waitingForReserve) > 1
          /\ Move(r, "settled", "waking")
          /\ wakeAsked' = [wakeAsked EXCEPT ![r] = config]
       \/ /\ Cardinality(waitingForReserve) <= 1
          /\ Move(r, "settled", "free")
          /\ UNCHANGED wakeAsked
    /\ UNCHANGED <<configVars, queueVars, waitingForReserve, loopVars, wakeCapacity>>

(* Queues.freeCapacity(1): only if somebody waits is the capacity computed. *)
FreeCapacity(r) ==
    /\ activeJobs' = activeJobs - 1
    /\ \/ /\ waitingForReserve # {}
          /\ Move(r, "settled", "waking")
          /\ wakeAsked' = [wakeAsked EXCEPT ![r] = config]
       \/ /\ waitingForReserve = {}
          /\ Move(r, "settled", "free")
          /\ UNCHANGED wakeAsked
    /\ UNCHANGED <<configVars, queueVars, waitingForReserve, loopVars, wakeCapacity>>

WakeCalculate(r) ==
    /\ wakeAsked[r] # Rejected
    /\ Move(r, "waking", "waken")
    /\ wakeAsked' = [wakeAsked EXCEPT ![r] = Rejected]
    /\ wakeCapacity' = [wakeCapacity EXCEPT ![r] = ReserveCapacity(wakeAsked[r])]
    /\ UNCHANGED <<configVars, queueVars, capacityVars, loopVars>>

(* Variant: the list of those who wait is not emptied. *)
RewakingWakeWaiting(r) ==
    LET woken == IF wakeCapacity[r] > 0 THEN waitingForReserve ELSE {}
    IN  /\ Move(r, "waken", "free")
        /\ pc' = [l \in Loops |-> IF l \in woken THEN "reserve" ELSE pc[l]]
        /\ capacity' = [l \in Loops |->
                           IF l \in woken THEN wakeCapacity[r] ELSE capacity[l]]
        /\ wakeCapacity' = [wakeCapacity EXCEPT ![r] = 0]
        /\ UNCHANGED <<configVars, queueVars, activeJobs, waitingForReserve, asked, inHand, wakeAsked>>

(* Everyone who waits gets the same capacity. *)
WakeWaiting(r) ==
    LET woken == IF wakeCapacity[r] > 0 THEN waitingForReserve ELSE {}
    IN  /\ Move(r, "waken", "free")
        /\ waitingForReserve' = waitingForReserve \ woken
        /\ pc' = [l \in Loops |-> IF l \in woken THEN "reserve" ELSE pc[l]]
        /\ capacity' = [l \in Loops |->
                           IF l \in woken THEN wakeCapacity[r] ELSE capacity[l]]
        /\ wakeCapacity' = [wakeCapacity EXCEPT ![r] = 0]
        /\ UNCHANGED <<configVars, queueVars, activeJobs, asked, inHand, wakeAsked>>

(* A rejected configuration: nobody is woken. *)
WakeFails(r) ==
    /\ wakeAsked[r] = Rejected
    /\ Move(r, "waking", "free")
    /\ UNCHANGED <<configVars, queueVars, capacityVars, loopVars, wakeAsked, wakeCapacity>>

(* The broker takes back a job it heard nothing of (visibility timeout). *)
BrokerTakesBack(r) ==
    /\ Move(r, "forgotten", "free")
    /\ UNCHANGED <<configVars, queueVars, capacityVars, loopVars, wakeAsked, wakeCapacity>>

-----------------------------------------------------------------------------
LoopStep(l) ==
    \/ ClientReady(l)
    \/ LoopAgain(l)
    \/ BackedOff(l)
    \/ CalculateReserveCapacity(l)
    \/ GetReserveCapacity(l)
    \/ ReserveJobs(l)
    \/ ReserveFails(l)
    \/ CheckProcessing(l)
    \/ AllocateCapacity(l)
    \/ AllocateFails(l)
    \/ Dispatch(l)

RunStep(r) ==
    \/ JobSucceeds(r)
    \/ DeleteJob(r)
    \/ JobFails(r)
    \/ FreeCapacity(r)
    \/ WakeCalculate(r)
    \/ WakeWaiting(r)
    \/ WakeFails(r)
    \/ BrokerTakesBack(r)

Caller ==
    \E q \in Queues : EachJob(q) \/ Start(q) \/ Stop(q)

Next ==
    \/ Caller
    \/ \E l \in Loops : LoopStep(l)
    \/ \E r \in Reservations : RunStep(r)

(* Another limit, or a configuration that fails. *)
Reconfigure == \E c \in Concurrencies \cup {Rejected} : Configure(c)

Spec == Init /\ [][Next \/ Reconfigure]_vars

(***************************************************************************)
(* Every continuation runs: the event loop starves no callback, a reserve  *)
(* request ends with its wait, a job with PROCESSING_TIMEOUT.  The caller  *)
(* need not do anything.                                                   *)
(***************************************************************************)
Fairness ==
    /\ \A l \in Loops : WF_vars(LoopStep(l))
    /\ \A r \in Reservations : WF_vars(RunStep(r))

FairSpec == Init /\ [][Next]_vars /\ Fairness

-----------------------------------------------------------------------------
(* The type of every variable.  What is computed from a limit that changes may
   be negative, but the broker is never asked for less than one job. *)
TypeOK ==
    /\ config \in Concurrencies \cup {Rejected}
    /\ hasHandlers \in [Queues -> BOOLEAN]
    /\ processing \in [Queues -> BOOLEAN]
    /\ session \in [Queues -> {"none", "open", "rejected"}]
    /\ agreed \in Concurrencies \cup {Rejected}
    /\ activeJobs \in Int
    /\ waitingForReserve \subseteq Loops
    /\ pc \in [Loops -> PCs]
    /\ asked \in [Loops -> Concurrencies \cup {Rejected}]
    /\ capacity \in [Loops -> Int]
    /\ \A l \in Loops : pc[l] = "reserve" => capacity[l] > 0
    /\ inHand \in [Loops -> SUBSET Reservations]
    /\ run \in [Reservations -> RunStates]
    /\ wakeAsked \in [Reservations -> Concurrencies \cup {Rejected}]
    /\ wakeCapacity \in [Reservations -> Int]

(* _activeJobs counts exactly the jobs that were allocated capacity and did
   not give it back, at every point between two continuations.  This, and the
   limit, is lost for good if configure() sets a limit below what runs, or one
   that differs from what a loop is about to allocate with (queues.js:742): the
   difference is then negative, and so is what is added to the counter. *)
CapacityAccounting == agreed # Rejected => activeJobs = Cardinality(Holding)

(* README.md "By default, Ironium will process 50 jobs concurrently": however
   the loops of all queues interleave, together they hold no more capacity
   than config.concurrency, also after the limit was changed, and while the
   configuration is one that rejected. *)
ConcurrencyLimit == agreed # Rejected => Cardinality(Holding) <= agreed

(* A reservation belongs to one loop until it is dispatched, and never to a
   loop and to a running job at once; no loop has capacity for a job before
   allocateCapacity.  So no job is run, or run and released, twice. *)
OneOwner ==
    /\ \A l1, l2 \in Loops : l1 # l2 => inHand[l1] \cap inHand[l2] = {}
    /\ \A r \in Reservations :
          run[r] \in {"held", "allocated"} <=> \E l \in Loops : r \in inHand[l]
    /\ \A l \in Loops :
          /\ inHand[l] # {} => pc[l] \in {"reserved", "allocate", "dispatch"}
          /\ pc[l] \in {"reserved", "allocate"} => \A r \in inHand[l] : run[r] = "held"

(* The list of those who wait and the loops that are parked agree: no loop is
   resumed twice, none waits without being on the list. *)
WaitersParked == waitingForReserve = { l \in Loops : pc[l] = "waiting" }

(* Every reservation the broker handed out goes back to it or is settled: the
   process neither forgets a job nor keeps its capacity. *)
ReservationsReturn ==
    \A r \in Reservations : run[r] # "free" ~> run[r] = "free"

(* A loop of a queue that stays stopped ends, unless it is parked: it then
   learns of the stop from the job that frees capacity. *)
StopDrains ==
    \A l \in Loops : <>[](~processing[QueueOf(l)]) => <>[](pc[l] \in {"idle", "waiting"})

(* queues.js:723 "Promise doesn't resolve until capacity is available": a loop
   that waits while a job holds capacity is woken, unless other loops go on
   taking the capacity that is freed. *)
WaitingLoopWoken ==
    \A l \in Loops :
        (<>[] \A k \in Loops \ {l} : pc[k] \in {"idle", "waiting"})
            => ((pc[l] = "waiting" /\ Holding # {}) ~> pc[l] # "waiting")

(* The same of a loop that waits at all: there is always a job left to wake it. *)
WaitingEnds ==
    config > 0 => \A l \in Loops : pc[l] = "waiting" ~> pc[l] # "waiting"

(* The process is a pool of config.concurrency workers while its parts agree
   on that limit. *)
Pool == INSTANCE WorkerPool WITH
            Items <- Reservations, Limits <- Concurrencies, None <- Rejected,
            busy <- Holding, limit <- agreed

RefinesPool == Pool!Spec

=============================================================================
