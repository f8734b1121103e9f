------------------------------ MODULE Lifecycle ------------------------------
(***************************************************************************)
(* Starting and stopping the queues of a process as Ironium.start(),       *)
(* stop() and queue() do it (class Queues), together with the processing   *)
(* loops that this starts.                                                 *)
(*                                                                         *)
(* start() visits the queues known when it is called, one after the other, *)
(* and asks the configuration about each before it starts it; a queue      *)
(* first named after start() is visited alone.  stop() takes effect at     *)
(* once.  Such a visit is a promise chain: a sweep below.  configure() may *)
(* be called at any time: a visit is answered by the configuration of the  *)
(* turn in which it is made, and the queue it starts reads the one of that *)
(* later turn.  The answers of canStartQueue() stay the same.              *)
(***************************************************************************)
EXTENDS Processing, Sequences

CONSTANTS
    Startable,      (* the queues config.canStartQueue() accepts              *)
    Sweeps,         (* the promise chains sweeps may run on (bound)           *)
    MaxInFlight     (* loops and visits to come, with a new sweep (bound)     *)

ASSUME LifecycleAssumption == Startable \subseteq Queues

VARIABLES
    started,        (* Queues.started                                         *)
    known,          (* Queues._queues, in the order the queues were named     *)
    sweep,          (* chain -> the queues it has yet to visit                *)
    visit,          (* chain -> what becomes of the configuration its visit   *)
                    (* on its way asked, "none" if there is no such visit     *)
    skipped         (* queues to be started whose visit failed, or one before *)
                    (* it in its chain, since the last start()                *)

lifecycleVars == <<started, known, sweep, visit, skipped>>
allVars       == <<vars, lifecycleVars>>

Known == { known[i] : i \in DOMAIN known }

Pending(q) == \E s \in Sweeps : \E i \in DOMAIN sweep[s] : sweep[s][i] = q

LInit ==
    /\ Init
    /\ started = FALSE
    /\ known = <<>>
    /\ sweep = [s \in Sweeps |-> <<>>]
    /\ visit = [s \in Sweeps |-> "none"]
    /\ skipped = {}

(* configPromise.then(...) of the configuration of this turn. *)
Asked == IF config = Rejected THEN "rejected" ELSE "resolved"

(* What the bound counts: loops, and visits still to come. *)
InFlight ==
    Cardinality({l \in Loops : pc[l] # "idle"})
        + Cardinality({v \in Sweeps \X (1 .. Len(known)) : v[2] \in DOMAIN sweep[v[1]]})

(* A chain for these queues; its first visit is first, "none" if it is made in
   a later turn. *)
NewSweep(queues, first) ==
    IF queues = <<>> THEN UNCHANGED <<sweep, visit>>
    ELSE \E s \in Sweeps :
            /\ sweep[s] = <<>> /\ InFlight + Len(queues) <= MaxInFlight
            /\ sweep' = [sweep EXCEPT ![s] = queues]
            /\ visit' = [visit EXCEPT ![s] = first]

(* Variant: the queue is added to the map only. *)
SilentGetQueue(q) ==
    /\ q \notin Known
    /\ known' = Append(known, q)
    /\ UNCHANGED <<started, sweep, visit, skipped, vars>>

(* Variant: a queue named after start() is started without being asked for. *)
EagerGetQueue(q) ==
    /\ q \notin Known
    /\ known' = Append(known, q)
    /\ IF started THEN Start(q) ELSE UNCHANGED vars
    /\ UNCHANGED <<started, sweep, visit, skipped>>

(* Queues.getQueue, for a name it has not seen: its own visit is made at once. *)
GetQueue(q) ==
    /\ q \notin Known
    /\ known' = Append(known, q)
    /\ IF started THEN NewSweep(<<q>>, Asked) ELSE UNCHANGED <<sweep, visit>>
    /\ UNCHANGED <<started, skipped, vars>>

(* Variant: a second start() visits no queue. *)
OnceStartAll ==
    /\ started' = TRUE
    /\ IF started THEN UNCHANGED <<sweep, visit>> ELSE NewSweep(known, "none")
    /\ skipped' = {}
    /\ UNCHANGED <<known, vars>>

(* Queues.start: every queue known is visited, whatever it did before, but
   Bluebird.each makes the first visit in a later turn. *)
StartAll ==
    /\ started' = TRUE
    /\ NewSweep(known, "none")
    /\ skipped' = {}
    /\ UNCHANGED <<known, vars>>

StopAll ==
    /\ started' = FALSE
    /\ StopQueues(Known)
    /\ UNCHANGED <<known, sweep, visit, skipped>>

(* _canStartQueue(queue) of the next queue of the chain. *)
Visit(s) ==
    /\ sweep[s] # <<>> /\ visit[s] = "none"
    /\ visit' = [visit EXCEPT ![s] = Asked]
    /\ UNCHANGED <<started, known, sweep, skipped, vars>>

(* .then(canStartQueue => ...): no second look at _started. *)
SweepStep(s) ==
    /\ visit[s] = "resolved"
    /\ LET q == Head(sweep[s])
       IN  IF q \in Startable /\ ~processing[q] THEN Start(q) ELSE UNCHANGED vars
    /\ sweep' = [sweep EXCEPT ![s] = Tail(@)]
    /\ visit' = [visit EXCEPT ![s] = "none"]
    /\ UNCHANGED <<started, known, skipped>>

(* The configuration rejected or canStartQueue() throws: the chain rejects, and
   no queue after is visited. *)
SweepFails(s) ==
    /\ visit[s] # "none"
    /\ sweep' = [sweep EXCEPT ![s] = <<>>]
    /\ visit' = [visit EXCEPT ![s] = "none"]
    /\ skipped' = skipped \cup {q \in Startable : \E i \in DOMAIN sweep[s] : sweep[s][i] = q}
    /\ UNCHANGED <<started, known, vars>>

LNext ==
    \/ \E q \in Queues : GetQueue(q)
    \/ StartAll
    \/ StopAll
    \/ \E s \in Sweeps : Visit(s) \/ SweepStep(s) \/ SweepFails(s)
    \/ \E q \in Known : EachJob(q) /\ UNCHANGED lifecycleVars
    \/ Reconfigure /\ UNCHANGED lifecycleVars
    \/ \E l \in Loops : LoopStep(l) /\ UNCHANGED lifecycleVars
    \/ \E r \in Reservations : RunStep(r) /\ UNCHANGED lifecycleVars

LSpec == LInit /\ [][LNext]_allVars

(* The promise configure() is given settles, so each visit of a sweep ends;
   nothing is asked of the loops and the jobs. *)
LFairSpec == LSpec /\ \A s \in Sweeps : WF_allVars(Visit(s) \/ SweepStep(s) \/ SweepFails(s))

-----------------------------------------------------------------------------
(* README.md "Processing a subset of queues": a queue canStartQueue() refuses
   has no loop, whichever of start(), stop(), queue() and eachJob() come first. *)
OnlyStartable ==
    \A l \in Loops : pc[l] # "idle" => QueueOf(l) \in Startable \cap Known

(* A queue that is processing and has a handler has a loop: a loop that ends
   because of stop() cannot be the one that a later start() relied on.  The one
   exception is a configuration that had rejected when the session was first
   needed: the rejection is cached, whatever configure() is called with later
   (queues.js:362-368, 548-552). *)
ProcessingHasLoop ==
    \A q \in Queues :
        processing[q] /\ hasHandlers[q] =>
            \/ session[q] = "rejected"
            \/ \E l \in Loops : QueueOf(l) = q /\ pc[l] # "idle"

(* Once the sweeps are through, exactly what start() promises is processing:
   no queue is lost between a sweep that did not know it and its own, and one
   that is missed because its visit failed is found by the next start()
   (queues.js:647-679). *)
StartedQueuesProcess ==
    started => \A q \in Startable \cap Known :
                 processing[q] \/ Pending(q) \/ q \in skipped

(* README.md "You must call this method to start the workers": a queue that
   may be started is processing in the end, unless the process is stopped, its
   visit or one before it failed, or the chains of this model are used up by
   loops that were parked for good. *)
StartReachesQueues ==
    \A q \in Startable :
        (started /\ q \in Known) ~> (processing[q] \/ ~started \/ q \in skipped \/ IdleLoops(q) = {})

(* README.md "You can call this method to stop the workers": when stop() has
   returned, no queue starts before start() is called again. *)
StopStays ==
    [][~started /\ ~started' => \A q \in Queues : processing'[q] => processing[q]]_allVars

=============================================================================
