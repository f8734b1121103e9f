-------------------------- MODULE ProcessingProofs --------------------------
(***************************************************************************)
(* Safety of job processing for any queues, loops, reservations and        *)
(* limits.  The inductive invariant says, besides what is to be shown,     *)
(* that a loop's reservations are its own and not yet counted before       *)
(* allocateCapacity, and that while the process agrees on a limit nobody   *)
(* is about to allocate with another one: this is what makes the counter   *)
(* move by exactly the number of jobs that are given capacity.             *)
(*                                                                         *)
(* The last part is about Lifecycle, which adds start(), stop() and their  *)
(* visits: the loops keep the invariant of Processing under all of them.   *)
(***************************************************************************)
EXTENDS Lifecycle, FiniteSetTheorems, TLAPS

(* While the process agrees on a limit the counter does not exceed it, and the
   callbacks that are yet to allocate, and those to come, get it or a rejection. *)
WithinLimit ==
    agreed # Rejected =>
        /\ activeJobs <= agreed
        /\ config \in {agreed, Rejected}
        /\ \A l \in Loops : pc[l] = "allocate" => asked[l] \in {agreed, Rejected}

IInv ==
    /\ TypeOK
    /\ CapacityAccounting
    /\ WithinLimit
    /\ OneOwner
    /\ WaitersParked

-----------------------------------------------------------------------------
(* What a loop may reserve of a limit is a number, if perhaps a negative one. *)
LEMMA ReserveCapacityType ==
    ASSUME TypeOK, NEW limit \in Concurrencies
    PROVE  ReserveCapacity(limit) \in Int
BY ProcessingAssumption DEF TypeOK, ReserveCapacity, Smaller, Larger

(* A reply is a finite set of jobs. *)
LEMMA FiniteInHand ==
    ASSUME TypeOK, NEW l \in Loops
    PROVE  IsFiniteSet(inHand[l]) /\ Cardinality(inHand[l]) \in Nat
<1>1. inHand[l] \in SUBSET Reservations
  BY DEF TypeOK
<1>2. IsFiniteSet(inHand[l])
  BY <1>1, ProcessingAssumption, FS_Subset
<1> QED
  BY <1>2, FS_CardinalityType

(* So is the set of jobs that hold capacity. *)
LEMMA FiniteHolding ==
    IsFiniteSet(Holding) /\ Cardinality(Holding) \in Nat
<1>1. Holding \in SUBSET Reservations
  BY DEF Holding
<1>2. IsFiniteSet(Holding)
  BY <1>1, ProcessingAssumption, FS_Subset
<1> QED
  BY <1>2, FS_CardinalityType

(* A callback that is to allocate was there before, or is of the configuration
   of this turn. *)
AskedKept ==
    \A l \in Loops : pc'[l] = "allocate" =>
        (pc[l] = "allocate" /\ asked'[l] = asked[l]) \/ asked'[l] = config

(* The limit is out of reach of a step that changes neither it nor the counter. *)
LEMMA LimitKept ==
    ASSUME WithinLimit, UNCHANGED <<configVars, activeJobs>>, AskedKept
    PROVE  WithinLimit'
BY DEF WithinLimit, AskedKept, configVars

LEMMA InitIInv == Init => IInv
<1> SUFFICES ASSUME Init PROVE IInv
  OBVIOUS
<1>1. Holding = {}
  BY DEF Init, Holding
<1>2. CapacityAccounting
  BY <1>1, FS_EmptySet DEF Init, CapacityAccounting
<1>3. TypeOK
  BY DEF Init, TypeOK, PCs, RunStates
<1>4. WithinLimit
  <2>1. activeJobs = 0 /\ agreed = config /\ config \in Nat
    BY ProcessingAssumption DEF Init
  <2>2. \A l \in Loops : pc[l] = "idle"
    BY DEF Init
  <2> QED
    BY <2>1, <2>2 DEF WithinLimit
<1>5. OneOwner
  BY DEF Init, OneOwner
<1>6. WaitersParked
  BY DEF Init, WaitersParked
<1> QED
  BY <1>2, <1>3, <1>4, <1>5, <1>6 DEF IInv

-----------------------------------------------------------------------------
(***************************************************************************)
(* One lemma per kind of step.                                             *)
(***************************************************************************)

(* What the caller does starts and stops loops and touches no job. *)
LEMMA StartProcessingStep ==
    ASSUME IInv, NEW q \in Queues, StartProcessing(q)
    PROVE  /\ session' \in [Queues -> {"none", "open", "rejected"}]
           /\ pc' \in [Loops -> PCs]
           /\ \A l \in Loops : pc'[l] = pc[l] \/ (pc[l] = "idle" /\ pc'[l] = "client")
BY DEF IInv, TypeOK, StartProcessing, IdleLoops, PCs

(* The invariant holds after any step that only moves loops between
   continuations at which they have no job and do not wait. *)
LEMMA QuietLoops ==
    ASSUME IInv, TypeOK', UNCHANGED <<agreed, activeJobs, waitingForReserve, inHand, run>>,
           WithinLimit',
           \A l \in Loops : pc'[l] # pc[l] =>
               /\ inHand[l] = {}
               /\ pc[l] # "waiting" /\ pc'[l] # "waiting"
    PROVE  IInv'
<1>1. Holding' = Holding
  BY DEF Holding
<1>2. CapacityAccounting'
  BY <1>1 DEF IInv, CapacityAccounting
<1>3. OneOwner'
  BY DEF IInv, OneOwner
<1>4. WaitersParked'
  BY DEF IInv, WaitersParked
<1> QED
  BY <1>2, <1>3, <1>4 DEF IInv

LEMMA CallerStep ==
    ASSUME IInv, Caller
    PROVE  IInv'
<1>1. PICK q \in Queues : EachJob(q) \/ Start(q) \/ Stop(q)
  BY DEF Caller
<1>2. CASE EachJob(q) \/ Start(q)
  <2>1. /\ session' \in [Queues -> {"none", "open", "rejected"}]
        /\ pc' \in [Loops -> PCs]
        /\ \A l \in Loops : pc'[l] = pc[l] \/ (pc[l] = "idle" /\ pc'[l] = "client")
    BY <1>2, StartProcessingStep DEF EachJob, Start, IInv, TypeOK
  <2>2. TypeOK'
    BY <1>2, <2>1 DEF EachJob, Start, IInv, TypeOK, configVars, capacityVars, runVars
  <2>3. \A l \in Loops : pc'[l] # pc[l] => inHand[l] = {}
    BY <2>1 DEF IInv, OneOwner
  <2>4. WithinLimit'
    <3>1. UNCHANGED <<configVars, activeJobs, asked>>
      BY <1>2 DEF EachJob, Start, capacityVars
    <3>2. AskedKept
      BY <2>1, <3>1 DEF AskedKept
    <3> QED
      BY <3>1, <3>2, LimitKept DEF IInv
  <2> QED
    BY <1>2, <2>1, <2>2, <2>3, <2>4, QuietLoops DEF EachJob, Start, configVars, capacityVars, runVars
<1>3. CASE Stop(q)
  <2>1. TypeOK'
    BY <1>3 DEF Stop, StopQueues, IInv, TypeOK, configVars, capacityVars, loopVars, runVars
  <2>2. WithinLimit'
    BY <1>3, LimitKept DEF Stop, StopQueues, IInv, AskedKept, capacityVars, loopVars
  <2> QED
    BY <1>3, <2>1, <2>2, QuietLoops DEF Stop, StopQueues, configVars, capacityVars, loopVars, runVars
<1> QED
  BY <1>1, <1>2, <1>3

(* The limit set is agreed on only if it is one that can be. *)
LEMMA ReconfigureStep ==
    ASSUME IInv, Reconfigure
    PROVE  IInv'
<1>1. PICK c \in Concurrencies \cup {Rejected} : Configure(c)
  BY DEF Reconfigure
<1>2. TypeOK'
  BY <1>1 DEF Configure, IInv, TypeOK, queueVars, capacityVars, loopVars, runVars
<1>3. UNCHANGED <<activeJobs, waitingForReserve, inHand, run, pc, asked>> /\ config' = c
  BY <1>1 DEF Configure, capacityVars, loopVars, runVars
<1>4. WithinLimit'
  <2>1. CASE c = Rejected
    BY <1>1, <1>3, <2>1 DEF Configure, IInv, WithinLimit
  <2>2. CASE c # Rejected /\ agreed # Rejected /\ CanAgree(c)
    <3>1. agreed' = c
      BY <1>1, <2>2 DEF Configure
    <3> QED
      BY <1>3, <2>2, <3>1 DEF CanAgree, WithinLimit
  <2>3. CASE c # Rejected /\ ~(agreed # Rejected /\ CanAgree(c))
    BY <1>1, <2>3 DEF Configure, WithinLimit
  <2> QED
    BY <2>1, <2>2, <2>3
<1>5. CapacityAccounting'
  <2>1. agreed' # Rejected => agreed # Rejected
    BY <1>1 DEF Configure
  <2>2. Holding' = Holding
    BY <1>3 DEF Holding
  <2> QED
    BY <1>3, <2>1, <2>2 DEF IInv, CapacityAccounting
<1>6. OneOwner' /\ WaitersParked'
  BY <1>3 DEF IInv, OneOwner, WaitersParked
<1> QED
  BY <1>2, <1>4, <1>5, <1>6 DEF IInv

-----------------------------------------------------------------------------
LEMMA ProcessContinuouslyStep ==
    ASSUME IInv, NEW l \in Loops, NEW from \in {"client", "next", "backoff"},
           ProcessContinuously(l, from)
    PROVE  IInv'
<1>1. /\ pc[l] = from /\ \E to \in {"calculate", "idle"} : pc' = [pc EXCEPT ![l] = to]
      /\ \E a \in {config, asked[l]} : asked' = [asked EXCEPT ![l] = a]
      /\ UNCHANGED <<configVars, queueVars, capacityVars, capacity, inHand, runVars>>
  BY DEF ProcessContinuously, Ask, Goto, IInv, TypeOK
<1>2. TypeOK'
  BY <1>1 DEF IInv, TypeOK, PCs, configVars, queueVars, capacityVars, runVars
<1>3. \A k \in Loops : pc'[k] # pc[k] => k = l /\ pc'[k] \in {"calculate", "idle"}
  BY <1>1 DEF IInv, TypeOK
<1>4. WithinLimit'
  <2>1. AskedKept
    BY <1>1 DEF AskedKept, IInv, TypeOK
  <2> QED
    BY <1>1, <2>1, LimitKept DEF IInv, capacityVars
<1>5. inHand[l] = {} /\ pc[l] # "waiting"
  BY <1>1 DEF IInv, OneOwner
<1> QED
  BY <1>1, <1>2, <1>3, <1>4, <1>5, QuietLoops DEF configVars, capacityVars, runVars

LEMMA CalculateReserveCapacityStep ==
    ASSUME IInv, NEW l \in Loops, CalculateReserveCapacity(l)
    PROVE  IInv'
<1>1. /\ asked[l] # Rejected
      /\ pc[l] = "calculate" /\ pc' = [pc EXCEPT ![l] = "decide"]
      /\ asked' = [asked EXCEPT ![l] = Rejected]
      /\ capacity' = [capacity EXCEPT ![l] = ReserveCapacity(asked[l])]
      /\ UNCHANGED <<configVars, queueVars, capacityVars, inHand, runVars>>
  BY DEF CalculateReserveCapacity, Answer, Goto
<1>2. ReserveCapacity(asked[l]) \in Int
  BY <1>1, ReserveCapacityType DEF IInv, TypeOK
<1>3. TypeOK'
  BY <1>1, <1>2 DEF IInv, TypeOK, PCs, configVars, queueVars, capacityVars, runVars
<1>4. \A k \in Loops : pc'[k] # pc[k] => k = l /\ pc'[k] = "decide"
  BY <1>1 DEF IInv, TypeOK
<1>5. WithinLimit'
  <2>1. AskedKept
    BY <1>1 DEF AskedKept, IInv, TypeOK
  <2> QED
    BY <1>1, <2>1, LimitKept DEF IInv, capacityVars
<1>6. inHand[l] = {}
  BY <1>1 DEF IInv, OneOwner
<1> QED
  BY <1>1, <1>3, <1>4, <1>5, <1>6, QuietLoops DEF configVars, capacityVars, runVars

(* A loop is put on the list in the step that parks it. *)
LEMMA GetReserveCapacityStep ==
    ASSUME IInv, NEW l \in Loops, GetReserveCapacity(l)
    PROVE  IInv'
<1>1. pc[l] = "decide" /\ \E to \in {"reserve", "waiting"} :
        /\ pc' = [pc EXCEPT ![l] = to]
        /\ to = "reserve" => capacity[l] > 0
        /\ waitingForReserve' =
              IF to = "waiting" THEN waitingForReserve \cup {l} ELSE waitingForReserve
  BY DEF GetReserveCapacity, Goto
<1>2. UNCHANGED <<configVars, queueVars, activeJobs, asked, capacity, inHand, runVars>>
  BY DEF GetReserveCapacity
<1>3. TypeOK'
  BY <1>1, <1>2 DEF IInv, TypeOK, PCs, configVars, queueVars, runVars
<1>4. Holding' = Holding
  BY <1>2 DEF Holding, runVars
<1>5. CapacityAccounting' /\ WithinLimit'
  <2>1. AskedKept
    BY <1>1, <1>2 DEF AskedKept, IInv, TypeOK
  <2> QED
    BY <1>2, <1>4, <2>1, LimitKept DEF IInv, CapacityAccounting, configVars
<1>6. OneOwner'
  <2>1. inHand' = inHand /\ run' = run
    BY <1>2 DEF runVars
  <2>2. inHand[l] = {}
    BY <1>1 DEF IInv, OneOwner
  <2>3. \A k \in Loops : k # l => pc'[k] = pc[k]
    BY <1>1 DEF IInv, TypeOK
  <2>4. pc'[l] \in {"reserve", "waiting"}
    BY <1>1 DEF IInv, TypeOK
  <2> QED
    BY <2>1, <2>2, <2>3, <2>4 DEF IInv, OneOwner
<1>7. WaitersParked'
  BY <1>1 DEF IInv, TypeOK, WaitersParked
<1> QED
  BY <1>3, <1>5, <1>6, <1>7 DEF IInv

(* The jobs of a reply were free, so that nobody else has them. *)
LEMMA ReserveJobsStep ==
    ASSUME IInv, NEW l \in Loops, ReserveJobs(l)
    PROVE  IInv'
<1>1. PICK jobs \in SUBSET Free :
        /\ pc[l] = "reserve" /\ pc' = [pc EXCEPT ![l] = "reserved"]
        /\ inHand' = [inHand EXCEPT ![l] = jobs]
        /\ run' = [r \in Reservations |-> IF r \in jobs THEN "held" ELSE run[r]]
        /\ UNCHANGED <<configVars, queueVars, capacityVars, asked, capacity, wakeAsked, wakeCapacity>>
  BY DEF ReserveJobs, Goto
<1>2. TypeOK'
  BY <1>1 DEF IInv, TypeOK, Free, PCs, RunStates, configVars, queueVars, capacityVars
<1>3. Holding' = Holding
  BY <1>1 DEF Holding, Free
<1>4. CapacityAccounting' /\ WithinLimit'
  <2>1. AskedKept
    BY <1>1 DEF AskedKept, IInv, TypeOK
  <2> QED
    BY <1>1, <1>3, <2>1, LimitKept DEF IInv, CapacityAccounting, configVars, capacityVars
<1>5. OneOwner'
  <2>1. inHand[l] = {}
    BY <1>1 DEF IInv, OneOwner
  <2>2. \A k \in Loops : inHand[k] \cap jobs = {}
    BY <1>1 DEF IInv, OneOwner, Free
  <2>3. \A k \in Loops : inHand'[k] = IF k = l THEN jobs ELSE inHand[k]
    BY <1>1 DEF IInv, TypeOK
  <2>4. \A k \in Loops : pc'[k] = IF k = l THEN "reserved" ELSE pc[k]
    BY <1>1 DEF IInv, TypeOK
  <2>5. \A r \in Reservations : run'[r] = IF r \in jobs THEN "held" ELSE run[r]
    BY <1>1
  <2>6. jobs \subseteq Reservations
    BY <1>1 DEF Free
  <2>7. \A k1, k2 \in Loops : k1 # k2 => inHand'[k1] \cap inHand'[k2] = {}
    BY <2>2, <2>3 DEF IInv, OneOwner
  <2>8. \A r \in Reservations :
           run'[r] \in {"held", "allocated"} <=> \E k \in Loops : r \in inHand'[k]
    BY <2>1, <2>2, <2>3, <2>5 DEF IInv, OneOwner
  <2>9. \A k \in Loops :
          /\ inHand'[k] # {} => pc'[k] \in {"reserved", "allocate", "dispatch"}
          /\ pc'[k] \in {"reserved", "allocate"} => \A r \in inHand'[k] : run'[r] = "held"
    <3> SUFFICES ASSUME NEW k \in Loops
        PROVE  /\ inHand'[k] # {} => pc'[k] \in {"reserved", "allocate", "dispatch"}
               /\ pc'[k] \in {"reserved", "allocate"} => \A r \in inHand'[k] : run'[r] = "held"
      OBVIOUS
    <3>1. CASE k = l
      BY <3>1, <2>3, <2>4, <2>5, <2>6
    <3>2. CASE k # l
      <4>1. inHand[k] \subseteq Reservations
        BY DEF IInv, TypeOK
      <4> QED
        BY <3>2, <4>1, <2>2, <2>3, <2>4, <2>5 DEF IInv, OneOwner
    <3> QED
      BY <3>1, <3>2
  <2> QED
    BY <2>7, <2>8, <2>9 DEF OneOwner
<1>6. WaitersParked'
  BY <1>1 DEF IInv, TypeOK, WaitersParked, capacityVars
<1> QED
  BY <1>2, <1>4, <1>5, <1>6 DEF IInv

LEMMA ReserveFailsStep ==
    ASSUME IInv, NEW l \in Loops, ReserveFails(l)
    PROVE  IInv'
<1>1. /\ pc[l] \in {"reserve", "calculate"} /\ pc' = [pc EXCEPT ![l] = "backoff"]
      /\ UNCHANGED <<configVars, queueVars, capacityVars, asked, capacity, inHand, runVars>>
  BY DEF ReserveFails, Goto
<1>2. TypeOK'
  BY <1>1 DEF IInv, TypeOK, PCs, configVars, queueVars, capacityVars, runVars
<1>3. WithinLimit'
  <2>1. AskedKept
    BY <1>1 DEF AskedKept, IInv, TypeOK
  <2> QED
    BY <1>1, <2>1, LimitKept DEF IInv, capacityVars
<1>4. \A k \in Loops : pc'[k] # pc[k] => k = l /\ pc'[k] = "backoff"
  BY <1>1 DEF IInv, TypeOK
<1>5. inHand[l] = {}
  BY <1>1 DEF IInv, OneOwner
<1> QED
  BY <1>1, <1>2, <1>3, <1>4, <1>5, QuietLoops DEF configVars, capacityVars, runVars

LEMMA CheckProcessingStep ==
    ASSUME IInv, NEW l \in Loops, CheckProcessing(l)
    PROVE  IInv'
<1>1. /\ pc[l] = "reserved"
      /\ \E to \in {"allocate", "dispatch"} : \E a \in {config, asked[l]} :
            /\ pc' = [pc EXCEPT ![l] = to]
            /\ asked' = [asked EXCEPT ![l] = a]
            /\ to = "allocate" => a = config
      /\ UNCHANGED <<configVars, queueVars, capacityVars, capacity, inHand, runVars>>
  BY DEF CheckProcessing, Ask, Goto, IInv, TypeOK
<1>2. TypeOK'
  BY <1>1 DEF IInv, TypeOK, PCs, configVars, queueVars, capacityVars, runVars
<1>3. Holding' = Holding
  BY <1>1 DEF Holding, runVars
<1>4. CapacityAccounting' /\ WithinLimit'
  <2>1. AskedKept
    BY <1>1 DEF AskedKept, IInv, TypeOK
  <2> QED
    BY <1>1, <1>3, <2>1, LimitKept DEF IInv, CapacityAccounting, configVars, capacityVars
<1>5. OneOwner'
  <2>1. inHand' = inHand /\ run' = run
    BY <1>1 DEF runVars
  <2>2. \A k \in Loops : k # l => pc'[k] = pc[k]
    BY <1>1 DEF IInv, TypeOK
  <2>3. pc'[l] \in {"allocate", "dispatch"}
    BY <1>1 DEF IInv, TypeOK
  <2> QED
    BY <1>1, <2>1, <2>2, <2>3 DEF IInv, OneOwner
<1>6. WaitersParked'
  BY <1>1 DEF IInv, TypeOK, WaitersParked, capacityVars
<1> QED
  BY <1>2, <1>4, <1>5, <1>6 DEF IInv

-----------------------------------------------------------------------------
(* slice(0, capacity) of a reply that capacity was allocated for. *)
LEMMA AllocatedSlice ==
    ASSUME IInv, NEW l \in Loops, pc[l] = "allocate", asked[l] # Rejected, agreed # Rejected
    PROVE  LET requested == Cardinality(inHand[l])
               allocated == Smaller(asked[l] - activeJobs, requested)
           IN  /\ allocated \in Nat
               /\ activeJobs + allocated <= agreed
               /\ SliceLength(requested, allocated) = allocated
<1>1. asked[l] = agreed /\ activeJobs <= agreed
  BY DEF IInv, WithinLimit
<1>2. agreed \in Nat /\ activeJobs \in Int
  BY ProcessingAssumption DEF IInv, TypeOK
<1>3. Cardinality(inHand[l]) \in Nat
  BY FiniteInHand DEF IInv
<1> QED
  BY <1>1, <1>2, <1>3 DEF SliceLength, Smaller, Larger

(* The jobs given capacity were held, so that they add to those that hold
   capacity exactly their number: the heart of the proof. *)
LEMMA AllocateCapacityStep ==
    ASSUME IInv, NEW l \in Loops, AllocateCapacity(l)
    PROVE  IInv'
<1> DEFINE requested == Cardinality(inHand[l])
           allocated == Smaller(asked[l] - activeJobs, requested)
<1>1. PICK jobsToRun \in SUBSET inHand[l] :
        /\ asked[l] # Rejected
        /\ pc[l] = "allocate" /\ pc' = [pc EXCEPT ![l] = "dispatch"]
        /\ asked' = [asked EXCEPT ![l] = Rejected]
        /\ activeJobs' = activeJobs + allocated
        /\ Cardinality(jobsToRun) = SliceLength(requested, allocated)
        /\ run' = [r \in Reservations |-> IF r \in jobsToRun THEN "allocated" ELSE run[r]]
        /\ UNCHANGED <<configVars, queueVars, waitingForReserve, capacity, inHand,
                       wakeAsked, wakeCapacity>>
  BY DEF AllocateCapacity, Answer, Goto
<1>2. allocated \in Int
  <2>1. asked[l] \in Nat /\ activeJobs \in Int
    BY <1>1, ProcessingAssumption DEF IInv, TypeOK
  <2>2. requested \in Nat
    BY FiniteInHand DEF IInv
  <2> QED
    BY <2>1, <2>2 DEF Smaller
<1>3. agreed # Rejected =>
        /\ allocated \in Nat
        /\ activeJobs + allocated <= agreed
        /\ Cardinality(jobsToRun) = allocated
  BY <1>1, AllocatedSlice
<1> HIDE DEF allocated, requested
<1>4. TypeOK'
  <2>1. /\ \A k \in Loops : pc'[k] = "reserve" => pc[k] = "reserve"
        /\ pc' \in [Loops -> PCs] /\ run' \in [Reservations -> RunStates]
        /\ asked' \in [Loops -> Concurrencies \cup {Rejected}]
        /\ activeJobs' \in Int
    BY <1>1, <1>2 DEF IInv, TypeOK, PCs, RunStates
  <2> QED
    BY <1>1, <2>1 DEF IInv, TypeOK, configVars, queueVars
<1>5. WithinLimit'
  BY <1>1, <1>3 DEF IInv, TypeOK, WithinLimit, configVars
<1>6. /\ inHand[l] \subseteq Reservations
      /\ \A r \in inHand[l] : run[r] = "held"
  BY <1>1 DEF IInv, TypeOK, OneOwner
<1>10. CapacityAccounting'
  <2>1. Holding' = Holding \cup jobsToRun
    BY <1>1, <1>6 DEF Holding
  <2>2. Holding \cap jobsToRun = {}
    BY <1>1, <1>6 DEF Holding
  <2>3. IsFiniteSet(jobsToRun)
    BY FiniteInHand, FS_Subset DEF IInv
  <2>4. Cardinality(Holding \cup jobsToRun) =
          Cardinality(Holding) + Cardinality(jobsToRun) - Cardinality(Holding \cap jobsToRun)
    BY <2>3, FiniteHolding, FS_Union
  <2>5. Cardinality(Holding \cap jobsToRun) = 0
    BY <2>2, FS_EmptySet
  <2>6. agreed' = agreed
    BY <1>1 DEF configVars
  <2> QED
    BY <1>1, <1>3, <2>1, <2>4, <2>5, <2>6, FiniteHolding DEF IInv, CapacityAccounting
<1>7. OneOwner'
  <2>1. inHand' = inHand
    BY <1>1
  <2>2. \A k \in Loops : pc'[k] = IF k = l THEN "dispatch" ELSE pc[k]
    BY <1>1 DEF IInv, TypeOK
  <2>3. \A r \in Reservations : run'[r] = IF r \in jobsToRun THEN "allocated" ELSE run[r]
    BY <1>1
  <2>4. \A r \in Reservations : run'[r] # run[r] => r \in inHand[l]
    BY <2>3
  <2>5. \A r \in Reservations :
          run'[r] \in {"held", "allocated"} <=> \E k \in Loops : r \in inHand'[k]
    BY <2>1, <2>3, <1>6 DEF IInv, OneOwner
  <2>6. \A k \in Loops : k # l => \A r \in inHand[k] : r \in Reservations /\ run'[r] = run[r]
    BY <2>4 DEF IInv, TypeOK, OneOwner
  <2> QED
    BY <2>1, <2>2, <2>5, <2>6 DEF IInv, OneOwner
<1>8. WaitersParked'
  BY <1>1 DEF IInv, TypeOK, WaitersParked
<1> QED
  BY <1>4, <1>5, <1>7, <1>8, <1>10 DEF IInv

(* A step of a loop that lets go of its reply: its jobs go on to run or leave
   the process, and those that hold capacity keep it. *)
LEMMA HandsOver ==
    ASSUME IInv, NEW l \in Loops,
           NEW after \in [Reservations -> RunStates],
           \A r \in Reservations :
               /\ after[r] \notin {"held", "allocated"} \/ r \notin inHand[l]
               /\ r \notin inHand[l] => after[r] = run[r]
               /\ r \in inHand[l] => (after[r] = "running" <=> run[r] = "allocated")
               /\ r \in inHand[l] => after[r] \notin {"deleting", "settled"},
           NEW to \in PCs \ {"waiting", "reserve", "allocate"}, pc[l] # "waiting",
           pc' = [pc EXCEPT ![l] = to],
           inHand' = [inHand EXCEPT ![l] = {}],
           run' = after,
           UNCHANGED <<configVars, queueVars, capacityVars, asked, capacity,
                       wakeAsked, wakeCapacity>>
    PROVE  IInv'
<1>1. TypeOK'
  BY DEF IInv, TypeOK, configVars, queueVars, capacityVars
<1>2. \A r \in inHand[l] : r \in Reservations /\ run[r] \in {"held", "allocated"}
  BY DEF IInv, TypeOK, OneOwner
<1>3. Holding' = Holding
  BY <1>2 DEF Holding, IInv, TypeOK
<1>4. CapacityAccounting' /\ WithinLimit'
  <2>1. AskedKept
    BY DEF AskedKept, IInv, TypeOK
  <2> QED
    BY <1>3, <2>1, LimitKept DEF IInv, CapacityAccounting, configVars, capacityVars
<1>5. OneOwner'
  <2>1. \A k \in Loops : inHand'[k] = IF k = l THEN {} ELSE inHand[k]
    BY DEF IInv, TypeOK
  <2>2. \A k \in Loops : pc'[k] = IF k = l THEN to ELSE pc[k]
    BY DEF IInv, TypeOK
  <2>3. \A k \in Loops : k # l => inHand[k] \cap inHand[l] = {}
    BY DEF IInv, OneOwner
  <2>4. \A k \in Loops : k # l => \A r \in inHand[k] : r \in Reservations /\ run'[r] = run[r]
    BY <2>3 DEF IInv, TypeOK
  <2>5. \A r \in Reservations :
          run'[r] \in {"held", "allocated"} <=> \E k \in Loops : r \in inHand'[k]
    <3> SUFFICES ASSUME NEW r \in Reservations
        PROVE  run'[r] \in {"held", "allocated"} <=> \E k \in Loops : r \in inHand'[k]
      OBVIOUS
    <3>1. CASE r \in inHand[l]
      BY <3>1, <2>1, <2>3
    <3>2. CASE r \notin inHand[l]
      BY <3>2, <2>1 DEF IInv, OneOwner
    <3> QED
      BY <3>1, <3>2
  <2> QED
    BY <2>1, <2>2, <2>4, <2>5 DEF IInv, OneOwner
<1>6. WaitersParked'
  BY DEF IInv, TypeOK, WaitersParked, capacityVars
<1> QED
  BY <1>1, <1>4, <1>5, <1>6 DEF IInv

LEMMA AllocateFailsStep ==
    ASSUME IInv, NEW l \in Loops, AllocateFails(l)
    PROVE  IInv'
<1> DEFINE after == [r \in Reservations |-> IF r \in inHand[l] THEN "forgotten" ELSE run[r]]
<1>1. after \in [Reservations -> RunStates]
  BY DEF IInv, TypeOK, RunStates
<1>2. /\ pc[l] = "allocate" /\ pc' = [pc EXCEPT ![l] = "backoff"]
      /\ inHand' = [inHand EXCEPT ![l] = {}] /\ run' = after
      /\ UNCHANGED <<configVars, queueVars, capacityVars, asked, capacity,
                     wakeAsked, wakeCapacity>>
  BY DEF AllocateFails, Goto
<1>3. \A r \in Reservations : r \in inHand[l] => run[r] = "held"
  BY <1>2 DEF IInv, OneOwner
<1> QED
  BY <1>1, <1>2, <1>3, HandsOver DEF PCs

LEMMA DispatchStep ==
    ASSUME IInv, NEW l \in Loops, Dispatch(l)
    PROVE  IInv'
<1> DEFINE after == [r \in Reservations |->
                        IF r \notin inHand[l] THEN run[r]
                        ELSE IF run[r] = "allocated" THEN "running" ELSE "free"]
<1>1. after \in [Reservations -> RunStates]
  BY DEF IInv, TypeOK, RunStates
<1>2. /\ pc[l] = "dispatch" /\ pc' = [pc EXCEPT ![l] = "next"]
      /\ inHand' = [inHand EXCEPT ![l] = {}] /\ run' = after
      /\ UNCHANGED <<configVars, queueVars, capacityVars, asked, capacity,
                     wakeAsked, wakeCapacity>>
  BY DEF Dispatch, Goto
<1> QED
  BY <1>1, <1>2, HandsOver DEF PCs

LEMMA LoopStepKeeps ==
    ASSUME IInv, NEW l \in Loops, LoopStep(l)
    PROVE  IInv'
BY ProcessContinuouslyStep, CalculateReserveCapacityStep, GetReserveCapacityStep,
   ReserveJobsStep, ReserveFailsStep, CheckProcessingStep, AllocateCapacityStep,
   AllocateFailsStep, DispatchStep
   DEF LoopStep, ClientReady, LoopAgain, BackedOff

-----------------------------------------------------------------------------
(* A running job goes on without touching the counter. *)
LEMMA JobStep ==
    ASSUME IInv, NEW r \in Reservations,
           NEW from \in RunStates \ {"held", "allocated"},
           NEW to \in RunStates \ {"held", "allocated"},
           from \in {"running", "deleting", "settled"} <=>
               to \in {"running", "deleting", "settled"},
           Move(r, from, to), wakeCapacity' \in [Reservations -> Int],
           wakeAsked' \in [Reservations -> Concurrencies \cup {Rejected}],
           UNCHANGED <<configVars, queueVars, capacityVars, loopVars>>
    PROVE  IInv'
<1>1. TypeOK'
  BY DEF IInv, TypeOK, Move, configVars, queueVars, capacityVars, loopVars
<1>2. Holding' = Holding
  BY DEF Holding, Move, IInv, TypeOK
<1>3. CapacityAccounting' /\ WithinLimit'
  <2>1. AskedKept
    BY DEF AskedKept, loopVars
  <2> QED
    BY <1>2, <2>1, LimitKept DEF IInv, CapacityAccounting, configVars, capacityVars
<1>4. OneOwner'
  <2>1. inHand' = inHand /\ pc' = pc
    BY DEF loopVars
  <2>2. \A s \in Reservations : s # r => run'[s] = run[s]
    BY DEF Move, IInv, TypeOK
  <2>3. \A l \in Loops : r \notin inHand[l]
    BY DEF Move, IInv, OneOwner
  <2>4. run'[r] \notin {"held", "allocated"}
    BY DEF Move, IInv, TypeOK
  <2>5. \A l \in Loops : \A s \in inHand[l] : s \in Reservations /\ run'[s] = run[s]
    BY <2>2, <2>3 DEF IInv, TypeOK
  <2>6. \A s \in Reservations :
          run'[s] \in {"held", "allocated"} <=> \E l \in Loops : s \in inHand'[l]
    BY <2>1, <2>2, <2>3, <2>4 DEF IInv, OneOwner
  <2> QED
    BY <2>1, <2>5, <2>6 DEF IInv, OneOwner
<1>5. WaitersParked'
  BY DEF IInv, WaitersParked, capacityVars, loopVars
<1> QED
  BY <1>1, <1>3, <1>4, <1>5 DEF IInv

(* The job that frees capacity was counted, so that the counter goes down with
   the set it counts. *)
LEMMA FreeCapacityStep ==
    ASSUME IInv, NEW r \in Reservations, FreeCapacity(r)
    PROVE  IInv'
<1>1. /\ run[r] = "settled"
      /\ \E to \in {"waking", "free"} : run' = [run EXCEPT ![r] = to]
      /\ \E a \in {config, wakeAsked[r]} : wakeAsked' = [wakeAsked EXCEPT ![r] = a]
      /\ activeJobs' = activeJobs - 1
      /\ UNCHANGED <<configVars, queueVars, waitingForReserve, loopVars, wakeCapacity>>
  BY DEF FreeCapacity, Move, IInv, TypeOK
<1>2. CapacityAccounting'
  <2>1. r \in Holding /\ Holding' = Holding \ {r}
    BY <1>1 DEF Holding, IInv, TypeOK
  <2>2. Cardinality(Holding \ {r}) = Cardinality(Holding) - 1
    BY <2>1, FiniteHolding, FS_RemoveElement
  <2>3. agreed' = agreed
    BY <1>1 DEF configVars
  <2> QED
    BY <1>1, <2>1, <2>2, <2>3 DEF IInv, CapacityAccounting
<1>3. TypeOK'
  <2>1. /\ run' \in [Reservations -> RunStates]
        /\ wakeAsked' \in [Reservations -> Concurrencies \cup {Rejected}]
        /\ activeJobs' \in Int
    BY <1>1 DEF IInv, TypeOK, RunStates
  <2> QED
    BY <1>1, <2>1 DEF IInv, TypeOK, configVars, queueVars, loopVars
<1>4. WithinLimit'
  <2>1. activeJobs \in Int /\ (agreed # Rejected => agreed \in Nat)
    BY ProcessingAssumption DEF IInv, TypeOK
  <2> QED
    BY <1>1, <2>1 DEF IInv, WithinLimit, configVars, loopVars
<1>5. OneOwner'
  <2>1. inHand' = inHand /\ pc' = pc
    BY <1>1 DEF loopVars
  <2>2. \A l \in Loops : r \notin inHand[l]
    BY <1>1 DEF IInv, OneOwner
  <2>3. \A s \in Reservations : s # r => run'[s] = run[s]
    BY <1>1 DEF IInv, TypeOK
  <2>4. run'[r] \notin {"held", "allocated"}
    BY <1>1 DEF IInv, TypeOK
  <2>5. \A l \in Loops : \A s \in inHand[l] : s \in Reservations /\ run'[s] = run[s]
    BY <2>2, <2>3 DEF IInv, TypeOK
  <2>6. \A s \in Reservations :
          run'[s] \in {"held", "allocated"} <=> \E l \in Loops : s \in inHand'[l]
    BY <2>1, <2>2, <2>3, <2>4 DEF IInv, OneOwner
  <2> QED
    BY <2>1, <2>5, <2>6 DEF IInv, OneOwner
<1>6. WaitersParked'
  BY <1>1 DEF IInv, WaitersParked, loopVars
<1> QED
  BY <1>2, <1>3, <1>4, <1>5, <1>6 DEF IInv

LEMMA WakeCalculateStep ==
    ASSUME IInv, NEW r \in Reservations, WakeCalculate(r)
    PROVE  IInv'
<1>1. ReserveCapacity(wakeAsked[r]) \in Int
  BY ReserveCapacityType DEF IInv, TypeOK, WakeCalculate
<1>2. /\ wakeCapacity' \in [Reservations -> Int]
      /\ wakeAsked' \in [Reservations -> Concurrencies \cup {Rejected}]
  BY <1>1 DEF IInv, TypeOK, WakeCalculate
<1> QED
  BY <1>2, JobStep DEF WakeCalculate, RunStates

(* The list is emptied in the step that resumes the loops on it. *)
LEMMA WakeWaitingStep ==
    ASSUME IInv, NEW r \in Reservations, WakeWaiting(r)
    PROVE  IInv'
<1> DEFINE woken == IF wakeCapacity[r] > 0 THEN waitingForReserve ELSE {}
<1>1. /\ run[r] = "waken" /\ run' = [run EXCEPT ![r] = "free"]
      /\ waitingForReserve' = waitingForReserve \ woken
      /\ pc' = [l \in Loops |-> IF l \in woken THEN "reserve" ELSE pc[l]]
      /\ capacity' = [l \in Loops |-> IF l \in woken THEN wakeCapacity[r] ELSE capacity[l]]
      /\ wakeCapacity' = [wakeCapacity EXCEPT ![r] = 0]
      /\ UNCHANGED <<configVars, queueVars, activeJobs, asked, inHand, wakeAsked>>
  BY DEF WakeWaiting, Move
<1>2. woken \subseteq waitingForReserve /\ (woken # {} => wakeCapacity[r] > 0)
  OBVIOUS
<1> HIDE DEF woken
<1>3. \A l \in woken : l \in Loops /\ pc[l] = "waiting" /\ inHand[l] = {}
  BY <1>2 DEF IInv, WaitersParked, OneOwner
<1>4. TypeOK'
  <2>1. /\ pc' \in [Loops -> PCs] /\ run' \in [Reservations -> RunStates]
        /\ capacity' \in [Loops -> Int] /\ wakeCapacity' \in [Reservations -> Int]
        /\ waitingForReserve' \subseteq Loops
        /\ \A l \in Loops : pc'[l] = "reserve" => capacity'[l] > 0
    BY <1>1, <1>2 DEF IInv, TypeOK, PCs, RunStates
  <2> QED
    BY <1>1, <2>1 DEF IInv, TypeOK, configVars, queueVars
<1>5. Holding' = Holding
  BY <1>1 DEF Holding, IInv, TypeOK
<1>6. CapacityAccounting' /\ WithinLimit'
  <2>1. AskedKept
    BY <1>1 DEF AskedKept
  <2> QED
    BY <1>1, <1>5, <2>1, LimitKept DEF IInv, CapacityAccounting, configVars
<1>7. OneOwner'
  <2>1. inHand' = inHand
    BY <1>1
  <2>2. \A l \in Loops : r \notin inHand[l]
    BY <1>1 DEF IInv, OneOwner
  <2>3. \A s \in Reservations : s # r => run'[s] = run[s]
    BY <1>1 DEF IInv, TypeOK
  <2>4. run'[r] = "free"
    BY <1>1 DEF IInv, TypeOK
  <2>5. \A l \in Loops : \A s \in inHand[l] : s \in Reservations /\ run'[s] = run[s]
    BY <2>2, <2>3 DEF IInv, TypeOK
  <2>6. \A s \in Reservations :
          run'[s] \in {"held", "allocated"} <=> \E l \in Loops : s \in inHand'[l]
    BY <2>1, <2>2, <2>3, <2>4 DEF IInv, OneOwner
  <2>7. \A l \in Loops : l \notin woken => pc'[l] = pc[l]
    BY <1>1
  <2>8. \A l \in Loops : l \in woken => inHand[l] = {} /\ pc'[l] = "reserve"
    BY <1>1, <1>3
  <2> QED
    BY <2>1, <2>5, <2>6, <2>7, <2>8 DEF IInv, OneOwner
<1>8. WaitersParked'
  BY <1>1, <1>2, <1>3 DEF IInv, WaitersParked
<1> QED
  BY <1>4, <1>6, <1>7, <1>8 DEF IInv

LEMMA RunStepKeeps ==
    ASSUME IInv, NEW r \in Reservations, RunStep(r)
    PROVE  IInv'
<1>1. CASE JobSucceeds(r)
  BY <1>1, JobStep DEF JobSucceeds, RunStates, IInv, TypeOK
<1>2. CASE DeleteJob(r)
  BY <1>2, JobStep DEF DeleteJob, RunStates, IInv, TypeOK
<1>3. CASE JobFails(r)
  BY <1>3, JobStep DEF JobFails, RunStates, IInv, TypeOK
<1>4. CASE WakeFails(r)
  BY <1>4, JobStep DEF WakeFails, RunStates, IInv, TypeOK
<1>5. CASE BrokerTakesBack(r)
  BY <1>5, JobStep DEF BrokerTakesBack, RunStates, IInv, TypeOK
<1> QED
  BY <1>1, <1>2, <1>3, <1>4, <1>5, FreeCapacityStep, WakeCalculateStep, WakeWaitingStep
     DEF RunStep

LEMMA StutterStep ==
    ASSUME IInv, UNCHANGED vars
    PROVE  IInv'
<1>1. UNCHANGED <<configVars, queueVars, capacityVars, loopVars, runVars>>
  BY DEF vars
<1>2. TypeOK'
  BY <1>1 DEF IInv, TypeOK, configVars, queueVars, capacityVars, loopVars, runVars
<1>3. WithinLimit'
  BY <1>1, LimitKept DEF IInv, AskedKept, capacityVars, loopVars
<1> QED
  BY <1>1, <1>2, <1>3, QuietLoops DEF configVars, capacityVars, loopVars, runVars

-----------------------------------------------------------------------------
(* The inductive invariant, whenever configure() is called and with what. *)
THEOREM Invariant == Spec => []IInv
<1>1. IInv /\ [Next \/ Reconfigure]_vars => IInv'
  BY CallerStep, LoopStepKeeps, RunStepKeeps, ReconfigureStep, StutterStep DEF Next
<1> QED
  BY InitIInv, <1>1, PTL DEF Spec

(* Every variable keeps its type, and no loop asks the broker for less than one
   job, whatever limits are set (queues.js:724-735, 757-763). *)
THEOREM TypeCorrect == Spec => []TypeOK
BY Invariant, PTL DEF IInv

(* _activeJobs is exactly the number of jobs that hold capacity, whatever
   order the continuations of all loops and jobs run in, until a limit is set
   that is below it or that meets a loop about to allocate with another. *)
THEOREM AccountingCorrect == Spec => []CapacityAccounting
BY Invariant, PTL DEF IInv

(* config.concurrency is a global limit, for any number of queues and loops, as
   long as the process agrees on it. *)
THEOREM LimitRespected == Spec => []ConcurrencyLimit
<1>1. IInv => ConcurrencyLimit
  BY DEF IInv, CapacityAccounting, WithinLimit, ConcurrencyLimit
<1> QED
  BY Invariant, <1>1, PTL

(* No job is dispatched by two loops, nor run and still in a loop's hand. *)
THEOREM OwnershipCorrect == Spec => []OneOwner
BY Invariant, PTL DEF IInv

(* The list of waiting loops is exact. *)
THEOREM WaitingListCorrect == Spec => []WaitersParked
BY Invariant, PTL DEF IInv

-----------------------------------------------------------------------------
(***************************************************************************)
(* The process implements the pool of workers: every step of a loop or a   *)
(* job takes workers, frees one, or is no step of the pool.                *)
(***************************************************************************)

(* The pool counts as this module does. *)
LEMMA PoolCardinality ==
    ASSUME NEW S PROVE Pool!Cardinality(S) = Cardinality(S)
BY Zenon DEF Pool!Cardinality, Cardinality, Pool!IsFiniteSet, IsFiniteSet

LEMMA AllocateTakes ==
    ASSUME IInv, NEW l \in Loops, AllocateCapacity(l), agreed # Rejected
    PROVE  Pool!Next
<1> DEFINE requested == Cardinality(inHand[l])
           allocated == Smaller(asked[l] - activeJobs, requested)
<1>1. PICK jobsToRun \in SUBSET inHand[l] :
        /\ asked[l] # Rejected
        /\ pc[l] = "allocate"
        /\ Cardinality(jobsToRun) = SliceLength(requested, allocated)
        /\ run' = [r \in Reservations |-> IF r \in jobsToRun THEN "allocated" ELSE run[r]]
        /\ agreed' = agreed
  BY DEF AllocateCapacity, Answer, Goto, configVars
<1>2. /\ allocated \in Nat
      /\ activeJobs + allocated <= agreed
      /\ Cardinality(jobsToRun) = allocated
  BY <1>1, AllocatedSlice
<1> HIDE DEF allocated, requested
<1>3. /\ inHand[l] \subseteq Reservations
      /\ \A r \in inHand[l] : run[r] = "held"
  BY <1>1 DEF IInv, TypeOK, OneOwner
<1>4. Holding' = Holding \cup jobsToRun /\ jobsToRun \cap Holding = {}
  BY <1>1, <1>3 DEF Holding
<1>5. IsFiniteSet(jobsToRun)
  BY FiniteInHand, FS_Subset DEF IInv
<1>6. Cardinality(Holding \cup jobsToRun) =
        Cardinality(Holding) + Cardinality(jobsToRun) - Cardinality(Holding \cap jobsToRun)
  BY <1>5, FiniteHolding, FS_Union
<1>7. Cardinality(Holding \cap jobsToRun) = 0
  BY <1>4, FS_EmptySet
<1>8. Cardinality(Holding \cup jobsToRun) <= agreed
  <2>1. Cardinality(Holding) = activeJobs
    BY DEF IInv, CapacityAccounting
  <2>2. agreed \in Nat /\ activeJobs \in Int
    BY ProcessingAssumption DEF IInv, TypeOK
  <2> QED
    BY <1>2, <1>6, <1>7, <2>1, <2>2
<1>9. jobsToRun \in SUBSET Reservations
  BY <1>3
<1>10. Pool!Take(jobsToRun)
  BY <1>1, <1>4, <1>8, PoolCardinality DEF Pool!Take
<1> QED
  BY <1>9, <1>10 DEF Pool!Next

(* The other steps of a loop are none of the pool. *)
LEMMA LoopRefines ==
    ASSUME IInv, NEW l \in Loops, LoopStep(l), ~AllocateCapacity(l)
    PROVE  UNCHANGED <<Holding, agreed>>
<1>1. CASE ReserveJobs(l)
  BY <1>1 DEF ReserveJobs, Holding, Free, configVars
<1>2. CASE AllocateFails(l) \/ Dispatch(l)
  <2>1. pc[l] \in {"allocate", "dispatch"} /\ agreed' = agreed
    BY <1>2 DEF AllocateFails, Dispatch, Goto, configVars
  <2>2. \A r \in inHand[l] : run[r] \in {"held", "allocated"} /\ r \in Reservations
    BY DEF IInv, TypeOK, OneOwner
  <2>3. pc[l] = "allocate" => \A r \in inHand[l] : run[r] = "held"
    BY DEF IInv, OneOwner
  <2> QED
    BY <1>2, <2>1, <2>2, <2>3 DEF AllocateFails, Dispatch, Goto, Holding
<1>3. CASE UNCHANGED <<run, agreed>>
  BY <1>3 DEF Holding
<1> QED
  BY <1>1, <1>2, <1>3 DEF LoopStep, ClientReady, LoopAgain, BackedOff, ProcessContinuously,
     CalculateReserveCapacity, GetReserveCapacity, ReserveFails, CheckProcessing, configVars, runVars

LEMMA RunRefines ==
    ASSUME IInv, NEW r \in Reservations, RunStep(r)
    PROVE  Pool!Next \/ UNCHANGED <<Holding, agreed>>
<1>1. CASE FreeCapacity(r)
  <2>1. r \in Holding /\ Holding' = Holding \ {r} /\ agreed' = agreed
    BY <1>1 DEF FreeCapacity, Move, Holding, IInv, TypeOK, configVars
  <2>2. Pool!Free(r)
    BY <2>1 DEF Pool!Free
  <2> QED
    BY <2>2 DEF Pool!Next
<1>2. CASE ~FreeCapacity(r)
  BY <1>2 DEF RunStep, JobSucceeds, DeleteJob, JobFails, WakeCalculate, WakeWaiting,
     WakeFails, BrokerTakesBack, Move, Holding, IInv, TypeOK, configVars
<1> QED
  BY <1>1, <1>2

(* A limit that can be agreed on is one the pool may set. *)
LEMMA ReconfigureRefines ==
    ASSUME IInv, Reconfigure, agreed # Rejected
    PROVE  Pool!Next \/ UNCHANGED <<Holding, agreed>>
<1>1. PICK c \in Concurrencies \cup {Rejected} : Configure(c)
  BY DEF Reconfigure
<1>2. Holding' = Holding
  BY <1>1 DEF Configure, runVars, Holding
<1>3. CASE agreed' = agreed
  BY <1>2, <1>3
<1>4. CASE agreed' = Rejected
  BY <1>2, <1>4 DEF Pool!Next, Pool!Lapse
<1>5. CASE c # Rejected /\ CanAgree(c)
  <2>1. agreed' = c /\ c \in Concurrencies
    BY <1>1, <1>5 DEF Configure
  <2>2. Cardinality(Holding) <= c
    BY <1>5 DEF CanAgree, IInv, CapacityAccounting
  <2>3. Pool!SetLimit(c)
    BY <1>2, <2>1, <2>2, PoolCardinality DEF Pool!SetLimit
  <2> QED
    BY <2>1, <2>3 DEF Pool!Next
<1> QED
  BY <1>1, <1>3, <1>4, <1>5 DEF Configure

(* A promise that is void stays so. *)
LEMMA StaysVoid ==
    ASSUME IInv, [Next \/ Reconfigure]_vars, agreed = Rejected
    PROVE  agreed' = Rejected
<1>1. CASE Reconfigure
  BY <1>1 DEF Reconfigure, Configure
<1>2. CASE Caller
  BY <1>2 DEF Caller, EachJob, Start, Stop, StopQueues, configVars
<1>3. CASE \E l \in Loops : LoopStep(l)
  BY <1>3 DEF LoopStep, ClientReady, LoopAgain, BackedOff, ProcessContinuously,
     CalculateReserveCapacity, GetReserveCapacity, ReserveJobs, ReserveFails,
     CheckProcessing, AllocateCapacity, AllocateFails, Dispatch, configVars
<1>4. CASE \E r \in Reservations : RunStep(r)
  BY <1>4 DEF RunStep, JobSucceeds, DeleteJob, JobFails, FreeCapacity, WakeCalculate,
     WakeWaiting, WakeFails, BrokerTakesBack, configVars
<1>5. CASE UNCHANGED vars
  BY <1>5 DEF vars, configVars
<1> QED
  BY <1>1, <1>2, <1>3, <1>4, <1>5 DEF Next

(* Every behaviour of the process is one of a pool of workers, as many as the
   limit the process agrees on. *)
THEOREM Refinement == Spec => RefinesPool
<1>1. Init => Pool!Init
  BY DEF Init, Pool!Init, Holding
<1>2. IInv /\ [Next \/ Reconfigure]_vars => [Pool!Next]_<<Holding, agreed>>
  <2> SUFFICES ASSUME IInv, [Next \/ Reconfigure]_vars
      PROVE  Pool!Next \/ UNCHANGED <<Holding, agreed>>
    OBVIOUS
  <2>1. CASE Caller
    BY <2>1 DEF Caller, EachJob, Start, Stop, StopQueues, configVars, runVars, Holding
  <2>2. CASE UNCHANGED vars
    BY <2>2 DEF vars, configVars, runVars, Holding
  <2>3. CASE agreed = Rejected
    BY <2>3, StaysVoid DEF Pool!Next, Pool!Void
  <2>4. CASE agreed # Rejected /\ (Reconfigure \/ (Next /\ ~Caller))
    BY <2>4, AllocateTakes, LoopRefines, RunRefines, ReconfigureRefines DEF Next
  <2> QED
    BY <2>1, <2>2, <2>3, <2>4
<1> QED
  BY Invariant, <1>1, <1>2, PTL DEF Spec, RefinesPool, Pool!Spec

-----------------------------------------------------------------------------
(***************************************************************************)
(* Lifecycle: which queues run, for any queues, sweeps, loops and          *)
(* reservations.                                                           *)
(***************************************************************************)

(* The sweeps visit queues of the map. *)
SweepsKnown ==
    /\ known \in Seq(Queues)
    /\ sweep \in [Sweeps -> Seq(Queues)]
    /\ visit \in [Sweeps -> {"none", "resolved", "rejected"}]
    /\ \A s \in Sweeps :
          /\ visit[s] # "none" => sweep[s] # <<>>
          /\ \A i \in DOMAIN sweep[s] : sweep[s][i] \in Known

(* Only queues that may be started are, and they have the loops. *)
StartsStartable ==
    /\ \A q \in Queues : processing[q] => q \in Startable \cap Known
    /\ OnlyStartable

LInv ==
    /\ IInv
    /\ SweepsKnown
    /\ started \in BOOLEAN /\ skipped \subseteq Known
    /\ StartsStartable
    /\ StartedQueuesProcess
    /\ ProcessingHasLoop

-----------------------------------------------------------------------------
(***************************************************************************)
(* What steps of Processing do to the loops.                               *)
(***************************************************************************)

(* Nobody but its own chain ends a loop, and only one of a stopped queue. *)
LoopsKept ==
    \A l \in Loops :
        /\ pc[l] = "idle" => pc'[l] = "idle"
        /\ pc[l] # "idle" /\ pc'[l] = "idle" => ~processing[QueueOf(l)]

LEMMA LoopStepEffect ==
    ASSUME IInv, NEW l \in Loops, LoopStep(l)
    PROVE  UNCHANGED <<configVars, queueVars>> /\ LoopsKept
<1> SUFFICES
      /\ UNCHANGED <<configVars, queueVars>>
      /\ pc[l] # "idle"
      /\ pc' = [pc EXCEPT ![l] = pc'[l]]
      /\ pc'[l] = "idle" => ~processing[QueueOf(l)]
  BY DEF LoopsKept, IInv, TypeOK
<1>0. l \in DOMAIN pc
  BY DEF IInv, TypeOK
<1> USE <1>0 DEF Goto
<1>1. CASE ClientReady(l) \/ LoopAgain(l) \/ BackedOff(l)
  BY <1>1 DEF ClientReady, LoopAgain, BackedOff, ProcessContinuously, Ask
<1>2. CASE CalculateReserveCapacity(l)
  BY <1>2 DEF CalculateReserveCapacity, Answer
<1>3. CASE GetReserveCapacity(l)
  BY <1>3 DEF GetReserveCapacity
<1>4. CASE ReserveJobs(l)
  BY <1>4 DEF ReserveJobs
<1>5. CASE ReserveFails(l)
  BY <1>5 DEF ReserveFails
<1>6. CASE CheckProcessing(l)
  BY <1>6 DEF CheckProcessing, Ask
<1>7. CASE AllocateCapacity(l) \/ AllocateFails(l)
  BY <1>7 DEF AllocateCapacity, Answer, AllocateFails
<1>8. CASE Dispatch(l)
  BY <1>8 DEF Dispatch
<1> QED
  BY <1>1, <1>2, <1>3, <1>4, <1>5, <1>6, <1>7, <1>8 DEF LoopStep

LEMMA RunStepEffect ==
    ASSUME IInv, NEW r \in Reservations, RunStep(r)
    PROVE  UNCHANGED <<configVars, queueVars>> /\ LoopsKept
<1>1. CASE WakeWaiting(r)
  <2>1. UNCHANGED <<configVars, queueVars>>
    BY <1>1 DEF WakeWaiting
  <2>2. ASSUME NEW l \in Loops
        PROVE  pc'[l] = pc[l] \/ (pc[l] = "waiting" /\ pc'[l] = "reserve")
    BY <1>1 DEF WakeWaiting, IInv, WaitersParked
  <2> QED
    BY <2>1, <2>2 DEF LoopsKept
<1>2. CASE ~WakeWaiting(r)
  <2>1. UNCHANGED <<configVars, queueVars, pc>>
    BY <1>2 DEF RunStep, JobSucceeds, DeleteJob, JobFails, FreeCapacity, WakeCalculate,
                WakeFails, BrokerTakesBack, loopVars
  <2> QED
    BY <2>1 DEF LoopsKept
<1> QED
  BY <1>1, <1>2

(* A queue that starts processing gets a loop, or the rejection it keeps. *)
LEMMA StartProcessingEffect ==
    ASSUME IInv, NEW q \in Queues, StartProcessing(q)
    PROVE  /\ \A k \in Queues : k # q => session'[k] = session[k]
           /\ \/ session'[q] = "rejected" /\ UNCHANGED pc
              \/ \E l \in IdleLoops(q) : pc' = [pc EXCEPT ![l] = "client"]
BY DEF StartProcessing, IInv, TypeOK

(* Ironium.stop(): the loops are not told. *)
LEMMA StopQueuesKeeps ==
    ASSUME IInv, NEW Q, StopQueues(Q)
    PROVE  IInv'
<1>1. TypeOK'
  BY DEF StopQueues, IInv, TypeOK, configVars, capacityVars, loopVars, runVars
<1>2. WithinLimit'
  BY LimitKept DEF StopQueues, IInv, AskedKept, capacityVars, loopVars
<1> QED
  BY <1>1, <1>2, QuietLoops DEF StopQueues, configVars, capacityVars, loopVars, runVars
-----------------------------------------------------------------------------
(***************************************************************************)
(* The steps of Lifecycle.                                                 *)
(***************************************************************************)

LEMMA KnownIsFinite ==
    ASSUME SweepsKnown
    PROVE  /\ Known \subseteq Queues
           /\ \A q \in Queues : known' = Append(known, q) => Known' = Known \cup {q}
<1>1. Known \subseteq Queues
  BY DEF SweepsKnown, Known
<1>2. ASSUME NEW q \in Queues, known' = Append(known, q) PROVE Known' = Known \cup {q}
  <2>1. DOMAIN known = 1 .. Len(known) /\ DOMAIN known' = 1 .. Len(known) + 1
    BY <1>2 DEF SweepsKnown
  <2>2. \A i \in 1 .. Len(known) : known'[i] = known[i]
    BY <1>2 DEF SweepsKnown
  <2>3. known'[Len(known) + 1] = q /\ Len(known) \in Nat
    BY <1>2 DEF SweepsKnown
  <2> QED
    BY <2>1, <2>2, <2>3 DEF Known
<1> QED
  BY <1>1, <1>2

LEMMA InitLInv == LInit => LInv
<1> SUFFICES ASSUME LInit PROVE LInv
  OBVIOUS
<1>1. IInv
  BY InitIInv DEF LInit
<1>3. SweepsKnown /\ started \in BOOLEAN /\ skipped \subseteq Known
  <2>1. /\ known = <<>> /\ sweep = [s \in Sweeps |-> <<>>]
        /\ visit = [s \in Sweeps |-> "none"]
        /\ started = FALSE /\ skipped = {}
    BY DEF LInit
  <2>2. <<>> \in Seq(Queues) /\ DOMAIN <<>> = {}
    OBVIOUS
  <2> QED
    BY <2>1, <2>2 DEF SweepsKnown
<1>4. StartsStartable /\ StartedQueuesProcess /\ ProcessingHasLoop
  BY DEF LInit, Init, StartsStartable, OnlyStartable, StartedQueuesProcess, ProcessingHasLoop
<1> QED
  BY <1>1, <1>3, <1>4 DEF LInv

(* The steps of the loops and the jobs. *)
LEMMA LoopsKeep ==
    ASSUME LInv, IInv', UNCHANGED <<configVars, queueVars, lifecycleVars>>, LoopsKept
    PROVE  LInv'
<1>1. SweepsKnown' /\ started' \in BOOLEAN /\ (skipped \subseteq Known)'
  BY DEF LInv, SweepsKnown, Known, lifecycleVars, queueVars
<1>2. StartsStartable'
  BY DEF LInv, StartsStartable, OnlyStartable, Known, LoopsKept, lifecycleVars, queueVars
<1>3. StartedQueuesProcess'
  BY DEF LInv, StartedQueuesProcess, Known, Pending, lifecycleVars, queueVars
<1>4. ProcessingHasLoop'
  BY DEF LInv, ProcessingHasLoop, LoopsKept, queueVars
<1> QED
  BY <1>1, <1>2, <1>3, <1>4 DEF LInv

(* A sweep that begins leaves those on their way alone. *)
LEMMA NewSweepEffect ==
    ASSUME SweepsKnown, NEW queues \in Seq(Queues),
           NEW first \in {"none", "resolved", "rejected"}, NewSweep(queues, first)
    PROVE  /\ sweep' \in [Sweeps -> Seq(Queues)]
           /\ visit' \in [Sweeps -> {"none", "resolved", "rejected"}]
           /\ \A s \in Sweeps : visit'[s] # "none" => sweep'[s] # <<>>
           /\ \A s \in Sweeps : sweep'[s] = sweep[s] \/ sweep'[s] = queues
           /\ \A q \in Queues : Pending(q) => Pending(q)'
           /\ \A i \in DOMAIN queues :
                 \E s \in Sweeps : \E j \in DOMAIN sweep'[s] : sweep'[s][j] = queues[i]
<1>1. CASE queues = <<>>
  BY <1>1 DEF NewSweep, SweepsKnown, Pending
<1>2. CASE queues # <<>>
  <2>1. PICK s \in Sweeps :
          /\ sweep[s] = <<>> /\ sweep' = [sweep EXCEPT ![s] = queues]
          /\ visit' = [visit EXCEPT ![s] = first]
    BY <1>2 DEF NewSweep
  <2>2. /\ sweep' \in [Sweeps -> Seq(Queues)] /\ sweep'[s] = queues
        /\ visit' \in [Sweeps -> {"none", "resolved", "rejected"}]
        /\ \A t \in Sweeps : visit'[t] # "none" => sweep'[t] # <<>>
    BY <1>2, <2>1 DEF SweepsKnown
  <2>3. ASSUME NEW q \in Queues, Pending(q) PROVE Pending(q)'
    <3>1. PICK t \in Sweeps : \E i \in DOMAIN sweep[t] : sweep[t][i] = q
      BY <2>3 DEF Pending
    <3>2. t # s /\ sweep'[t] = sweep[t]
      BY <2>1, <3>1 DEF SweepsKnown
    <3> QED
      BY <3>1, <3>2 DEF Pending
  <2> QED
    BY <2>1, <2>2, <2>3 DEF Pending, SweepsKnown
<1> QED
  BY <1>1, <1>2

LEMMA GetQueueStep ==
    ASSUME LInv, NEW q \in Queues, GetQueue(q)
    PROVE  LInv'
<1>1. Known' = Known \cup {q} /\ Known \subseteq Queues /\ known' \in Seq(Queues)
  BY KnownIsFinite DEF LInv, GetQueue, SweepsKnown
<1>2. <<q>> \in Seq(Queues) /\ DOMAIN <<q>> = {1} /\ <<q>>[1] = q
  OBVIOUS
<1>3. IInv'
  BY StutterStep DEF LInv, GetQueue, vars, queueVars
<1>4. /\ sweep' \in [Sweeps -> Seq(Queues)]
      /\ visit' \in [Sweeps -> {"none", "resolved", "rejected"}]
      /\ \A s \in Sweeps : visit'[s] # "none" => sweep'[s] # <<>>
      /\ \A s \in Sweeps : sweep'[s] = sweep[s] \/ sweep'[s] = <<q>>
      /\ \A k \in Queues : Pending(k) => Pending(k)'
      /\ started => Pending(q)'
  <2>1. CASE started
    <3>1. SweepsKnown /\ \E first \in {"none", "resolved", "rejected"} : NewSweep(<<q>>, first)
      BY <2>1 DEF GetQueue, LInv, Asked
    <3>2. PICK first \in {"none", "resolved", "rejected"} : NewSweep(<<q>>, first)
      BY <3>1
    <3> DEFINE alone == <<q>>
    <3>3. alone \in Seq(Queues) /\ 1 \in DOMAIN alone /\ alone[1] = q /\ NewSweep(alone, first)
      BY <1>2, <3>2
    <3> HIDE DEF alone
    <3>4. \E s \in Sweeps : \E j \in DOMAIN sweep'[s] : sweep'[s][j] = q
      BY <3>1, <3>3, NewSweepEffect
    <3>5. Pending(q)'
      BY <3>4 DEF Pending
    <3> QED
      BY <1>2, <3>1, <3>5, NewSweepEffect
  <2>2. CASE ~started
    BY <2>2 DEF GetQueue, LInv, SweepsKnown, Pending
  <2> QED
    BY <2>1, <2>2
<1>5. SweepsKnown'
  <2> SUFFICES ASSUME NEW s \in Sweeps, NEW i \in DOMAIN sweep'[s]
               PROVE  sweep'[s][i] \in Known'
    BY <1>1, <1>4 DEF SweepsKnown
  <2> QED
    BY <1>1, <1>2, <1>4 DEF LInv, SweepsKnown
<1>6. started' \in BOOLEAN /\ (skipped \subseteq Known)'
  BY <1>1 DEF LInv, GetQueue
<1>7. StartsStartable'
  BY <1>1 DEF LInv, StartsStartable, OnlyStartable, GetQueue, vars, queueVars, loopVars
<1>8. StartedQueuesProcess'
  BY <1>1, <1>4 DEF LInv, StartedQueuesProcess, GetQueue, vars, queueVars
<1>9. ProcessingHasLoop'
  BY DEF LInv, ProcessingHasLoop, GetQueue, vars, queueVars, loopVars
<1> QED
  BY <1>3, <1>5, <1>6, <1>7, <1>8, <1>9 DEF LInv

LEMMA StartAllStep ==
    ASSUME LInv, StartAll
    PROVE  LInv'
<1>1. Known' = Known /\ known' \in Seq(Queues) /\ known \in Seq(Queues) /\ Known \subseteq Queues
  BY KnownIsFinite DEF LInv, StartAll, SweepsKnown, Known
<1>2. IInv'
  BY StutterStep DEF LInv, StartAll, vars, queueVars
<1>3. /\ sweep' \in [Sweeps -> Seq(Queues)]
      /\ visit' \in [Sweeps -> {"none", "resolved", "rejected"}]
      /\ \A s \in Sweeps : visit'[s] # "none" => sweep'[s] # <<>>
      /\ \A s \in Sweeps : sweep'[s] = sweep[s] \/ sweep'[s] = known
      /\ \A i \in DOMAIN known :
            \E s \in Sweeps : \E j \in DOMAIN sweep'[s] : sweep'[s][j] = known[i]
  BY <1>1, NewSweepEffect DEF LInv, StartAll
<1>4. SweepsKnown'
  BY <1>1, <1>3 DEF LInv, SweepsKnown, Known
<1>5. started' \in BOOLEAN /\ (skipped \subseteq Known)'
  BY DEF LInv, StartAll
<1>6. StartsStartable'
  BY <1>1 DEF LInv, StartsStartable, OnlyStartable, StartAll, vars, queueVars, loopVars
<1>7. StartedQueuesProcess'
  <2> SUFFICES ASSUME NEW q \in Startable \cap Known' PROVE Pending(q)'
    BY DEF StartedQueuesProcess
  <2>1. PICK i \in DOMAIN known : known[i] = q
    BY <1>1 DEF Known
  <2> QED
    BY <1>3, <2>1 DEF Pending
<1>8. ProcessingHasLoop'
  BY DEF LInv, ProcessingHasLoop, StartAll, vars, queueVars, loopVars
<1> QED
  BY <1>2, <1>4, <1>5, <1>6, <1>7, <1>8 DEF LInv

LEMMA StopAllStep ==
    ASSUME LInv, StopAll
    PROVE  LInv'
<1>1. IInv'
  BY StopQueuesKeeps DEF LInv, StopAll
<1>2. SweepsKnown' /\ started' \in BOOLEAN /\ (skipped \subseteq Known)'
  BY DEF LInv, StopAll, StopQueues, SweepsKnown, Known
<1>3. StartsStartable'
  BY DEF LInv, StartsStartable, OnlyStartable, StopAll, StopQueues, Known, loopVars
<1>4. StartedQueuesProcess'
  BY DEF StartedQueuesProcess, StopAll
<1>5. ProcessingHasLoop'
  BY DEF LInv, ProcessingHasLoop, StopAll, StopQueues, loopVars
<1> QED
  BY <1>1, <1>2, <1>3, <1>4, <1>5 DEF LInv

(* What a queue that is started or gets its first handler changes. *)
LEMMA QueueStartsKeeps ==
    ASSUME LInv, NEW q \in Startable \cap Known, q \in Queues, Start(q) \/ (processing[q] /\ EachJob(q)),
           UNCHANGED known
    PROVE  /\ IInv' /\ StartsStartable' /\ ProcessingHasLoop'
           /\ \A k \in Queues : processing[k] \/ k = q <=> processing'[k]
<1>1. IInv'
  BY CallerStep DEF LInv, Caller
<1>2. /\ processing' \in [Queues -> BOOLEAN]
      /\ \A k \in Queues : processing[k] \/ k = q <=> processing'[k]
  BY DEF Start, EachJob, LInv, IInv, TypeOK
<1>3. /\ \A k \in Queues : k # q => hasHandlers'[k] = hasHandlers[k] /\ session'[k] = session[k]
      /\ \A l \in Loops : pc'[l] = pc[l] \/ (QueueOf(l) = q /\ pc'[l] = "client")
      /\ hasHandlers'[q] => \/ session'[q] = "rejected"
                            \/ \E l \in Loops : QueueOf(l) = q /\ pc'[l] # "idle"
  <2>1. CASE StartProcessing(q)
    <3>1. \A k \in Queues : k # q => hasHandlers'[k] = hasHandlers[k] /\ session'[k] = session[k]
      BY <2>1, StartProcessingEffect DEF Start, EachJob, LInv, IInv, TypeOK
    <3>2. CASE session'[q] = "rejected" /\ UNCHANGED pc
      BY <3>1, <3>2
    <3>3. CASE \E l \in IdleLoops(q) : pc' = [pc EXCEPT ![l] = "client"]
      <4>1. PICK l \in IdleLoops(q) : pc' = [pc EXCEPT ![l] = "client"]
        BY <3>3
      <4>2. l \in Loops /\ QueueOf(l) = q /\ pc'[l] = "client"
        BY <4>1 DEF IdleLoops, LInv, IInv, TypeOK
      <4>3. \A m \in Loops : pc'[m] = pc[m] \/ (QueueOf(m) = q /\ pc'[m] = "client")
        BY <4>1, <4>2
      <4> QED
        BY <3>1, <4>2, <4>3
    <3> QED
      BY <2>1, <3>2, <3>3, StartProcessingEffect DEF LInv
  <2>2. CASE ~StartProcessing(q)
    BY <2>2 DEF Start, EachJob, LInv
  <2> QED
    BY <2>1, <2>2
<1>5. StartsStartable'
  BY <1>2, <1>3 DEF LInv, StartsStartable, OnlyStartable, Known
<1>6. ProcessingHasLoop'
  <2> SUFFICES ASSUME NEW k \in Queues, processing'[k], hasHandlers'[k]
               PROVE  \/ session'[k] = "rejected"
                      \/ \E l \in Loops : QueueOf(l) = k /\ pc'[l] # "idle"
    BY DEF ProcessingHasLoop
  <2>1. CASE k = q
    BY <1>3, <2>1
  <2>2. CASE k # q
    BY <1>2, <1>3, <2>2 DEF LInv, ProcessingHasLoop
  <2> QED
    BY <2>1, <2>2
<1> QED
  BY <1>1, <1>2, <1>5, <1>6

LEMMA VisitStep ==
    ASSUME LInv, NEW s \in Sweeps, Visit(s)
    PROVE  LInv'
<1>1. UNCHANGED <<started, known, sweep, skipped, vars>>
  BY DEF Visit
<1>2. IInv'
  BY <1>1, StutterStep DEF LInv
<1>3. SweepsKnown'
  BY <1>1 DEF LInv, SweepsKnown, Known, Visit, Asked
<1>4. started' \in BOOLEAN /\ (skipped \subseteq Known)'
  BY <1>1 DEF LInv, Known
<1>5. StartsStartable' /\ StartedQueuesProcess' /\ ProcessingHasLoop'
  BY <1>1 DEF LInv, StartsStartable, OnlyStartable, StartedQueuesProcess, ProcessingHasLoop,
     Known, Pending, vars, queueVars, loopVars
<1> QED
  BY <1>2, <1>3, <1>4, <1>5 DEF LInv

LEMMA SweepStepStep ==
    ASSUME LInv, NEW s \in Sweeps, SweepStep(s)
    PROVE  LInv'
<1> DEFINE q == Head(sweep[s])
<1>1. /\ sweep[s] \in Seq(Queues) /\ sweep[s] # <<>>
      /\ sweep' = [sweep EXCEPT ![s] = Tail(sweep[s])]
      /\ visit' = [visit EXCEPT ![s] = "none"]
      /\ UNCHANGED <<started, known, skipped>> /\ Known' = Known
  BY DEF LInv, SweepsKnown, SweepStep, Known
<1>2. q \in Queues /\ q \in Known
  BY <1>1 DEF LInv, SweepsKnown
<1>3. Tail(sweep[s]) \in Seq(Queues)
  BY <1>1
<1>4. ASSUME NEW i \in DOMAIN Tail(sweep[s])
      PROVE  i + 1 \in DOMAIN sweep[s] /\ Tail(sweep[s])[i] = sweep[s][i + 1]
  BY <1>1
<1>5. SweepsKnown'
  BY <1>1, <1>3, <1>4 DEF LInv, SweepsKnown
<1>6. ASSUME NEW k \in Queues, Pending(k), k # q PROVE Pending(k)'
  <2>1. PICK t \in Sweeps : \E i \in DOMAIN sweep[t] : sweep[t][i] = k
    BY <1>6 DEF Pending
  <2>2. CASE t # s
    BY <1>1, <2>1, <2>2 DEF Pending, LInv, SweepsKnown
  <2>3. CASE t = s
    <3>1. PICK i \in DOMAIN sweep[s] : sweep[s][i] = k
      BY <2>1, <2>3
    <3>2. i - 1 \in DOMAIN Tail(sweep[s]) /\ Tail(sweep[s])[i - 1] = k
      BY <1>1, <1>6, <3>1
    <3>3. sweep'[s] = Tail(sweep[s])
      BY <1>1 DEF LInv, SweepsKnown
    <3> QED
      BY <3>2, <3>3 DEF Pending
  <2> QED
    BY <2>2, <2>3
<1>7. started' \in BOOLEAN /\ (skipped \subseteq Known)'
  BY <1>1 DEF LInv
<1>8. CASE q \in Startable /\ ~processing[q]
  <2>1. Start(q)
    BY <1>8 DEF SweepStep
  <2>2. /\ IInv' /\ StartsStartable' /\ ProcessingHasLoop'
        /\ \A k \in Queues : processing[k] \/ k = q <=> processing'[k]
    BY <1>1, <1>2, <1>8, <2>1, QueueStartsKeeps
  <2>3. StartedQueuesProcess'
    BY <1>1, <1>2, <1>6, <2>2, KnownIsFinite DEF LInv, StartedQueuesProcess
  <2> QED
    BY <1>5, <1>7, <2>2, <2>3 DEF LInv
<1>9. CASE ~(q \in Startable /\ ~processing[q])
  <2>1. UNCHANGED vars
    BY <1>9 DEF SweepStep
  <2>2. IInv'
    BY <2>1, StutterStep DEF LInv, vars, queueVars
  <2>3. StartsStartable' /\ ProcessingHasLoop'
    BY <1>1, <2>1 DEF LInv, StartsStartable, OnlyStartable, ProcessingHasLoop, vars, queueVars, loopVars
  <2>4. StartedQueuesProcess'
    BY <1>1, <1>6, <1>9, <2>1, KnownIsFinite DEF LInv, StartedQueuesProcess, vars, queueVars
  <2> QED
    BY <1>5, <1>7, <2>2, <2>3, <2>4 DEF LInv
<1> QED
  BY <1>8, <1>9

LEMMA SweepFailsStep ==
    ASSUME LInv, NEW s \in Sweeps, SweepFails(s)
    PROVE  LInv'
<1>1. /\ UNCHANGED <<started, known, vars>> /\ Known' = Known
      /\ sweep' = [sweep EXCEPT ![s] = <<>>]
      /\ visit' = [visit EXCEPT ![s] = "none"]
      /\ skipped' = skipped \cup {q \in Startable : \E i \in DOMAIN sweep[s] : sweep[s][i] = q}
  BY DEF SweepFails, Known
<1>2. IInv'
  BY <1>1, StutterStep DEF LInv, vars, queueVars
<1>3. SweepsKnown'
  BY <1>1 DEF LInv, SweepsKnown
<1>4. started' \in BOOLEAN /\ (skipped \subseteq Known)'
  BY <1>1 DEF LInv, SweepsKnown
<1>5. StartsStartable' /\ ProcessingHasLoop'
  BY <1>1 DEF LInv, StartsStartable, OnlyStartable, ProcessingHasLoop, vars, queueVars, loopVars
<1>6. ASSUME NEW q \in Startable, Pending(q) PROVE Pending(q)' \/ q \in skipped'
  BY <1>1, <1>6 DEF Pending, LInv, SweepsKnown
<1>7. StartedQueuesProcess'
  BY <1>1, <1>6 DEF LInv, StartedQueuesProcess, vars, queueVars
<1> QED
  BY <1>2, <1>3, <1>4, <1>5, <1>7 DEF LInv

LEMMA EachJobStep ==
    ASSUME LInv, NEW q \in Known, EachJob(q), UNCHANGED lifecycleVars
    PROVE  LInv'
<1>1. q \in Queues /\ Known' = Known /\ UNCHANGED <<started, known, sweep, visit, skipped>>
  BY KnownIsFinite DEF LInv, lifecycleVars, Known
<1>2. SweepsKnown' /\ started' \in BOOLEAN /\ (skipped \subseteq Known)'
  BY <1>1 DEF LInv, SweepsKnown
<1>3. StartedQueuesProcess'
  BY <1>1 DEF LInv, StartedQueuesProcess, Pending, EachJob
<1>4. CASE processing[q]
  <2>1. q \in Startable \cap Known
    BY <1>1, <1>4 DEF LInv, StartsStartable
  <2>2. IInv' /\ StartsStartable' /\ ProcessingHasLoop'
    BY <1>1, <1>4, <2>1, QueueStartsKeeps
  <2> QED
    BY <1>2, <1>3, <2>2 DEF LInv
<1>5. CASE ~processing[q]
  <2>1. IInv'
    BY <1>1, CallerStep DEF LInv, Caller
  <2>2. StartsStartable'
    BY <1>1, <1>5 DEF LInv, EachJob, StartsStartable, OnlyStartable
  <2>3. ProcessingHasLoop'
    BY <1>1, <1>5 DEF LInv, EachJob, ProcessingHasLoop, IInv, TypeOK
  <2> QED
    BY <1>2, <1>3, <2>1, <2>2, <2>3 DEF LInv
<1> QED
  BY <1>4, <1>5

(* A new configuration starts and ends nothing. *)
LEMMA ReconfigureKeeps ==
    ASSUME LInv, Reconfigure, UNCHANGED lifecycleVars
    PROVE  LInv'
<1>1. UNCHANGED <<queueVars, loopVars>>
  BY DEF Reconfigure, Configure
<1>2. IInv'
  BY ReconfigureStep DEF LInv
<1>3. UNCHANGED <<processing, session, hasHandlers, pc, started, known, sweep, visit, skipped>>
  BY <1>1 DEF queueVars, loopVars, lifecycleVars
<1>4. SweepsKnown' /\ started' \in BOOLEAN /\ (skipped \subseteq Known)'
  BY <1>3 DEF LInv, SweepsKnown, Known
<1>5. StartsStartable' /\ ProcessingHasLoop'
  BY <1>3 DEF LInv, StartsStartable, OnlyStartable, ProcessingHasLoop, Known
<1>6. StartedQueuesProcess'
  BY <1>3 DEF LInv, StartedQueuesProcess, Known, Pending
<1> QED
  BY <1>2, <1>4, <1>5, <1>6 DEF LInv

LEMMA StepLInv ==
    ASSUME LInv, [LNext]_allVars
    PROVE  LInv'
<1>1. ASSUME NEW l \in Loops, LoopStep(l), UNCHANGED lifecycleVars PROVE LInv'
  BY <1>1, LoopStepKeeps, LoopStepEffect, LoopsKeep DEF LInv
<1>2. ASSUME NEW r \in Reservations, RunStep(r), UNCHANGED lifecycleVars PROVE LInv'
  BY <1>2, RunStepKeeps, RunStepEffect, LoopsKeep DEF LInv
<1>3. CASE UNCHANGED allVars
  <2>1. UNCHANGED <<vars, lifecycleVars>>
    BY <1>3 DEF allVars
  <2>2. IInv' /\ LoopsKept /\ UNCHANGED <<configVars, queueVars, lifecycleVars>>
    BY <2>1, StutterStep DEF LInv, LoopsKept, vars, loopVars
  <2> QED
    BY <2>2, LoopsKeep
<1>4. CASE LNext
  BY <1>1, <1>2, <1>4, GetQueueStep, StartAllStep, StopAllStep, VisitStep, SweepStepStep,
     SweepFailsStep, EachJobStep, ReconfigureKeeps
  DEF LNext
<1> QED
  BY <1>3, <1>4

(* In every order of queue(), eachJob(), start(), stop(), configure() and the visits,
   the processing loops keep the invariant of Processing: its counter, its limit
   and its owners are right in the composition too. *)
THEOREM LifecycleInvariant == LSpec => []LInv
BY InitLInv, StepLInv, PTL DEF LSpec

(* A queue canStartQueue() refuses never has a loop, for any number of queues,
   sweeps and loops (queues.js:650-688, 777-782). *)
THEOREM OnlyStartableLoops == LSpec => []OnlyStartable
BY LifecycleInvariant, PTL DEF LInv, StartsStartable

(* Once start() was called and the visits are over, each queue that may be started
   and was not missed by a visit that failed is processing (queues.js:650-680). *)
THEOREM AllStartedQueuesProcess == LSpec => []StartedQueuesProcess
BY LifecycleInvariant, PTL DEF LInv

(* A processing queue with a handler has a loop or a cached rejection, however often
   it was stopped and started while loops were in flight (queues.js:239-273, 362-376). *)
THEOREM ProcessingQueuesHaveLoops == LSpec => []ProcessingHasLoop
BY LifecycleInvariant, PTL DEF LInv
=============================================================================
