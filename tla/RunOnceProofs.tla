--------------------------- MODULE RunOnceProofs ---------------------------
(***************************************************************************)
(* What runOnce() and time travel do to schedules and delayed jobs, for    *)
(* every schedule, every way the clock goes, and every number of calls,    *)
(* queues and jobs.                                                        *)
(***************************************************************************)
EXTENDS RunOnce, NextTimeProofs, FiniteSetTheorems

(* The next time is that of the last reset, and a call not yet made has no
   chain under way. *)
ScheduleInv ==
    /\ when \in Schedules /\ clock \in Moments /\ since \in Moments
    /\ next = NextFor(since)

ChainInv ==
    /\ DOMAIN call = Calls /\ DOMAIN chain = Calls
    /\ \A c \in Calls : call[c] = "none" => \A q \in Queues : chain[c][q].at = "idle"

ListInv ==
    /\ status \in [Jobs -> {"none", "ready", "delayed", "reserved", "deleted"}]
    /\ readyTime \in [Jobs -> Nat]
    /\ DelayedJobsListed

(* Only the test's steps and those of Call move the schedule's variables. *)
LEMMA ScheduleStep ==
    ASSUME ScheduleInv, [Next]_vars
    PROVE  ScheduleInv'
<1> USE DEF ScheduleInv, NextFor, time
<1>1. CASE Travel
  BY <1>1 DEF Travel
<1>2. CASE ResetSchedule
  BY <1>2 DEF ResetSchedule
<1>3. CASE PurgeQueues
  BY <1>3 DEF PurgeQueues
<1>4. ASSUME NEW j \in Jobs, QueueJob(j) \/ DelayJob(j) \/ DelayJobFails(j)
      PROVE  ScheduleInv'
  BY <1>4 DEF QueueJob, DelayJob, DelayJobFails
<1>5. ASSUME NEW c \in Calls, Call(c)
      PROVE  ScheduleInv'
  BY <1>5 DEF Call
<1>6. ASSUME NEW c \in Calls, CallStep(c)
      PROVE  ScheduleInv'
  BY <1>6 DEF CallStep, SchedulePosted, SchedulePostFails, EndRound
<1>7. ASSUME NEW c \in Calls, NEW q \in Queues, ChainStep(c, q)
      PROVE  ScheduleInv'
  BY <1>7 DEF ChainStep, Kick, KicksFail, Reserve, ReserveFails, JobSucceeds,
              DeleteFails, JobFails, HandlerQueues
<1>8. ASSUME NEW q \in Queues, ConnectionLost(q)
      PROVE  ScheduleInv'
  BY <1>8 DEF ConnectionLost
<1>9. CASE UNCHANGED vars
  BY <1>9 DEF vars
<1> QED
  BY <1>1, <1>2, <1>3, <1>4, <1>5, <1>6, <1>7, <1>8, <1>9 DEF Next

(* The next time is right for the schedule at hand. *)
LEMMA NextIsFirst ==
    ASSUME ScheduleInv
    PROVE  /\ IsFirstDue(next, Nat, since, when.start, when.every, when.end)
           /\ next \in Nat /\ since \in Nat \ {0} /\ clock \in Nat \ {0}
           /\ when.start \in Nat /\ when.every \in Nat /\ when.end \in Nat
<1>1. /\ when.start \in Nat /\ when.every \in Nat /\ when.end \in Nat
      /\ ValidSchedule(when.start, when.every, when.end)
      /\ since \in Nat \ {0} /\ clock \in Nat \ {0}
  BY RunOnceAssumption DEF ScheduleInv
<1>2. IsFirstDue(next, Nat, since, when.start, when.every, when.end)
  BY <1>1, NextScheduleIsFirstDue, Zenon DEF ScheduleInv, NextFor
<1>3. next \in Nat
  BY <1>1, NextScheduleInNat, Zenon DEF ScheduleInv, NextFor
<1> QED
  BY <1>1, <1>2, <1>3

(* The schedule's next time is its first occurrence due since it was last
   reset: NextIsFirstDue holds of every run (scheduler.js:96-144). *)
THEOREM NextIsAlwaysFirstDue == Spec => []NextIsFirstDue
<1>1. Init => ScheduleInv
  BY DEF Init, ScheduleInv, NextFor
<1>2. ScheduleInv /\ [Next]_vars => ScheduleInv'
  BY ScheduleStep
<1>3. ScheduleInv => NextIsFirstDue
  <2> SUFFICES ASSUME ScheduleInv PROVE NextIsFirstDue
    OBVIOUS
  <2>1. Moments \subseteq Nat
    BY RunOnceAssumption
  <2> QED
    BY <2>1, NextIsFirst DEF NextIsFirstDue, IsFirstDue
<1> QED
  BY <1>1, <1>2, <1>3, PTL DEF Spec

(* Chains are under way only for calls that were made. *)
LEMMA ChainStepInv ==
    ASSUME ChainInv, [Next]_vars
    PROVE  ChainInv'
<1> USE DEF ChainInv
<1>1. CASE Travel \/ ResetSchedule \/ PurgeQueues
  BY <1>1 DEF Travel, ResetSchedule, PurgeQueues
<1>2. ASSUME NEW j \in Jobs, QueueJob(j) \/ DelayJob(j) \/ DelayJobFails(j)
      PROVE  ChainInv'
  BY <1>2 DEF QueueJob, DelayJob, DelayJobFails
<1>3. ASSUME NEW c \in Calls, Round(c)
      PROVE  ChainInv'
  <2> DEFINE round == [q \in Queues |->
                         [at    |-> IF ReadyDelayedJobs(q) = {} THEN "reserving" ELSE "kicking",
                          kicks |-> ReadyDelayedJobs(q), job |-> NoJob, ran |-> FALSE]]
  <2>1. chain' = [chain EXCEPT ![c] = round] /\ call' = [call EXCEPT ![c] = "running"]
    BY <1>3 DEF Round
  <2> HIDE DEF round
  <2> QED
    BY <2>1
<1>4. ASSUME NEW c \in Calls, Call(c) \/ CallStep(c)
      PROVE  ChainInv'
  <2>1. CASE Round(c)
    BY <1>3, <2>1
  <2>2. CASE ~Round(c)
    <3>1. chain' = chain /\ \E s \in {"scheduling", "rejected", "resolved"} :
                              call' = [call EXCEPT ![c] = s]
      BY <1>4, <2>2 DEF Call, CallStep, SchedulePosted, SchedulePostFails, EndRound
    <3> QED
      BY <3>1
  <2> QED
    BY <2>1, <2>2
<1>5. ASSUME NEW c \in Calls, NEW q \in Queues, ChainStep(c, q)
      PROVE  ChainInv'
  <2>1. chain[c][q].at # "idle"
    BY <1>5 DEF ChainStep, Kick, KicksFail, Reserve, ReserveFails, JobSucceeds,
                DeleteFails, JobFails, HandlerQueues
  <2>2. chain' = chain \/ \E link : chain' = [chain EXCEPT ![c][q] = link]
    BY <1>5 DEF ChainStep, Kick, KicksFail, Reserve, ReserveFails, JobSucceeds,
                DeleteFails, JobFails, HandlerQueues, Becomes, Fails, Ran
  <2>3. call' = call \/ call' = [call EXCEPT ![c] = "rejected"]
    BY <1>5 DEF ChainStep, Kick, KicksFail, Reserve, ReserveFails, JobSucceeds,
                DeleteFails, JobFails, HandlerQueues, Fails
  <2> QED
    BY <2>1, <2>2, <2>3
<1>6. ASSUME NEW q \in Queues, ConnectionLost(q)
      PROVE  ChainInv'
  BY <1>6 DEF ConnectionLost
<1>7. CASE UNCHANGED vars
  BY <1>7 DEF vars
<1> QED
  BY <1>1, <1>2, <1>3, <1>4, <1>5, <1>6, <1>7 DEF Next

(* A call queues a job for the schedule exactly when one of its occurrences
   came since it was last reset: RunsWhenDue holds of every run
   (scheduler.js:96-105). *)
THEOREM AlwaysRunsWhenDue == Spec => RunsWhenDue
<1>1. Init => ScheduleInv /\ ChainInv
  BY DEF Init, ScheduleInv, ChainInv, NextFor, Idle
<1>2. ScheduleInv /\ ChainInv /\ [Next]_vars => ScheduleInv' /\ ChainInv'
  BY ScheduleStep, ChainStepInv
<1>3. ScheduleInv /\ ChainInv /\ [Next]_vars => [\A c \in Calls : QueuesWhatIsDue(c)]_vars
  <2> SUFFICES ASSUME ScheduleInv, ChainInv, Next, NEW c \in Calls,
                      call[c] = "none", call'[c] # "none"
               PROVE  call'[c] = "scheduling" <=>
                        \E t \in 1 .. clock :
                          /\ Occurrence(t, when.start, when.every, when.end)
                          /\ Due(t, since, when.start)
    BY DEF QueuesWhatIsDue
  <2>1. Call(c)
    <3>1. ASSUME NEW d \in Calls, Call(d) \/ CallStep(d)
          PROVE  \E s \in {"scheduling", "running", "rejected", "resolved"} :
                   call' = [call EXCEPT ![d] = s]
      BY <3>1 DEF Call, CallStep, SchedulePosted, SchedulePostFails, EndRound, Round
    <3>2. ASSUME NEW d \in Calls, CallStep(d) PROVE call[d] # "none"
      BY <3>2 DEF CallStep, SchedulePosted, SchedulePostFails, EndRound
    <3>3. ASSUME NEW d \in Calls, NEW q \in Queues, ChainStep(d, q)
          PROVE  call[d] # "none" /\ (call' = call \/ call' = [call EXCEPT ![d] = "rejected"])
      BY <3>3 DEF ChainInv, ChainStep, Kick, KicksFail, Reserve, ReserveFails,
                  JobSucceeds, DeleteFails, JobFails, HandlerQueues, Fails
    <3>4. ASSUME NEW d \in Calls, Call(d) PROVE d = c
      BY <3>1, <3>4 DEF ChainInv
    <3>5. ~\E d \in Calls : CallStep(d)
      BY <3>1, <3>2 DEF ChainInv
    <3>6. ~\E d \in Calls, q \in Queues : ChainStep(d, q)
      BY <3>3 DEF ChainInv
    <3>7. \/ Travel \/ ResetSchedule \/ PurgeQueues
          \/ \E j \in Jobs : QueueJob(j) \/ DelayJob(j) \/ DelayJobFails(j)
          \/ \E q \in Queues : ConnectionLost(q)
          => call' = call
      BY DEF Travel, ResetSchedule, PurgeQueues, QueueJob, DelayJob, DelayJobFails, ConnectionLost
    <3> QED
      BY <3>4, <3>5, <3>6, <3>7 DEF Next
  <2>2. call'[c] = "scheduling" <=> RunOnSchedule
    BY <2>1 DEF Call, Round, ChainInv
  <2>3. RunOnSchedule <=> \E t \in 1 .. clock :
                            /\ Occurrence(t, when.start, when.every, when.end)
                            /\ Due(t, since, when.start)
    <3>1. ASSUME RunOnSchedule
          PROVE  next \in 1 .. clock /\ Occurrence(next, when.start, when.every, when.end)
                                     /\ Due(next, since, when.start)
      BY <3>1, NextIsFirst DEF RunOnSchedule, IsFirstDue
    <3>2. ASSUME NEW t \in 1 .. clock, Occurrence(t, when.start, when.every, when.end),
                 Due(t, since, when.start)
          PROVE  RunOnSchedule
      <4>1. t \in Nat /\ t <= clock
        BY NextIsFirst
      <4>2. next # 0 /\ next <= t
        BY <3>2, <4>1, NextIsFirst DEF IsFirstDue
      <4> QED
        BY <4>1, <4>2, NextIsFirst DEF RunOnSchedule
    <3> QED
      BY <3>1, <3>2
  <2> QED
    BY <2>2, <2>3
<1> QED
  BY <1>1, <1>2, <1>3, PTL DEF Spec, RunsWhenDue

LEMMA ListStep ==
    ASSUME ScheduleInv, ListInv, [Next]_vars
    PROVE  ScheduleInv' /\ ListInv'
<1> USE DEF ListInv, DelayedJobsListed
<1>1. ScheduleInv'
  BY ScheduleStep
<1>2. CASE Travel \/ ResetSchedule
  BY <1>1, <1>2 DEF Travel, ResetSchedule
<1>3. CASE PurgeQueues
  BY <1>1, <1>3 DEF PurgeQueues
<1>4. ASSUME NEW j \in Jobs, QueueJob(j)
      PROVE  ListInv'
  BY <1>4 DEF QueueJob
<1>5. ASSUME NEW j \in Jobs, DelayJob(j)
      PROVE  ListInv'
  <2>1. PICK d \in Delays : readyTime' = [readyTime EXCEPT ![j] = clock + d]
    BY <1>5 DEF DelayJob
  <2>2. clock + d \in Nat \ {0}
    BY RunOnceAssumption DEF ScheduleInv
  <2> QED
    BY <1>5, <2>1, <2>2 DEF DelayJob
<1>5a. ASSUME NEW j \in Jobs, DelayJobFails(j)
       PROVE  ListInv'
  BY <1>5a DEF DelayJobFails
<1>6. ASSUME NEW c \in Calls, Call(c) \/ SchedulePostFails(c) \/ EndRound(c)
      PROVE  ListInv'
  BY <1>6 DEF Call, SchedulePostFails, EndRound, time
<1>7. ASSUME NEW c \in Calls, SchedulePosted(c)
      PROVE  ListInv'
  BY <1>7 DEF SchedulePosted
<1>8. ASSUME NEW c \in Calls, NEW q \in Queues, ChainStep(c, q)
      PROVE  ListInv'
  <2>1. CASE \E j \in Jobs : Kick(c, q, j)
    BY <2>1 DEF Kick
  <2>2. CASE KicksFail(c, q)
    BY <2>2 DEF KicksFail
  <2>3. CASE Reserve(c, q) \/ ReserveFails(c, q)
    BY <2>3 DEF Reserve, ReserveFails
  <2>4. CASE \/ JobSucceeds(c, q) \/ DeleteFails(c, q) \/ JobFails(c, q)
             \/ \E j \in Jobs : HandlerQueues(c, q, j)
    BY <2>4 DEF JobSucceeds, DeleteFails, JobFails, HandlerQueues
  <2> QED
    BY <1>8, <2>1, <2>2, <2>3, <2>4 DEF ChainStep
<1>8a. ASSUME NEW q \in Queues, ConnectionLost(q)
       PROVE  ListInv'
  BY <1>8a DEF ConnectionLost
<1>9. CASE UNCHANGED vars
  BY <1>1, <1>9 DEF vars
<1> QED
  BY <1>1, <1>2, <1>3, <1>4, <1>5, <1>5a, <1>6, <1>7, <1>8, <1>8a, <1>9 DEF Next, CallStep

(* A delayed job stays on the list until a kick is answered, unless its post failed:
   DelayedJobsListed holds of every run (queues.js:195-220, 309-326). *)
THEOREM DelayedJobsAlwaysListed == Spec => []DelayedJobsListed
<1>1. Init => ScheduleInv /\ ListInv
  BY DEF Init, ScheduleInv, ListInv, DelayedJobsListed, NextFor
<1>2. ScheduleInv /\ ListInv /\ [Next]_vars => ScheduleInv' /\ ListInv'
  BY ListStep
<1> QED
  BY <1>1, <1>2, PTL DEF Spec, ListInv

-----------------------------------------------------------------------------
(***************************************************************************)
(* Who runs what: the jobs of the chains whose connection was not lost are *)
(* the reserved ones, each held by one.                                    *)
(***************************************************************************)

Links == [at : {"idle", "kicking", "reserving", "running", "done", "failed"},
          kicks : SUBSET Jobs, job : Jobs \cup {NoJob}, ran : BOOLEAN]

WellFormed(link) ==
    /\ link \in Links
    /\ link.at = "kicking" <=> link.kicks # {}
    /\ link.at = "running" <=> link.job # NoJob

CallsTyped ==
    /\ call \in [Calls -> {"none", "scheduling", "running", "resolved", "rejected"}]
    /\ alone \in BOOLEAN /\ failures \in 0 .. MaxFailures

LinksTyped ==
    /\ chain \in [Calls -> [Queues -> Links]]
    /\ \A c \in Calls, q \in Queues : WellFormed(chain[c][q])

Holds(c, q, j) == chain[c][q].job = j /\ <<c, q>> \notin cut

RunByOne ==
    /\ \A j \in Jobs : status[j] = "reserved" <=> \E c \in Calls, q \in Queues : Holds(c, q, j)
    /\ \A c, d \in Calls, q, r \in Queues, j \in Jobs :
          Holds(c, q, j) /\ Holds(d, r, j) => c = d /\ q = r

(* What a chain runs was queued on its queue, and only running chains are cut. *)
JobsKnown ==
    /\ \A c \in Calls, q \in Queues, j \in Jobs :
          chain[c][q].job = j => status[j] # "none" /\ QueueOf[j] = q
    /\ cut \in SUBSET (Calls \X Queues) /\ unlisted \in SUBSET Jobs
    /\ \A c \in Calls, q \in Queues : <<c, q>> \in cut => chain[c][q].at = "running"

(* The test waits for one call at a time, and its round follows the post of the
   schedule's job. *)
Patient ==
    /\ \A c \in Calls : call[c] \in {"none", "scheduling"} =>
                            \A q \in Queues : chain[c][q] = Idle
    /\ \A c, d \in Calls : Waiting(c) /\ Waiting(d) => c = d
    /\ \A c \in Calls : call[c] = "scheduling" => \E j \in Jobs : CanSchedule(j)

RunInv ==
    ScheduleInv /\ ListInv /\ CallsTyped /\ LinksTyped /\ RunByOne /\ JobsKnown /\ Patient

LEMMA IdleWellFormed ==
    WellFormed(Idle) /\ WellFormed([Idle EXCEPT !.at = "failed"])
BY DEF WellFormed, Links, Idle

Others(c, q) ==
    \A d \in Calls, r \in Queues : <<d, r>> # <<c, q>> => chain'[d][r] = chain[d][r]

(* One link of one chain is replaced. *)
LEMMA LinkReplaced ==
    ASSUME LinksTyped, NEW c \in Calls, NEW q \in Queues, NEW link, WellFormed(link),
           Becomes(c, q, link)
    PROVE  /\ LinksTyped'
           /\ chain'[c][q] = link /\ Others(c, q)
<1>1. chain' = [chain EXCEPT ![c][q] = link] /\ link \in Links
  BY DEF Becomes, WellFormed
<1>2. chain' \in [Calls -> [Queues -> Links]]
  BY <1>1 DEF LinksTyped
<1>3. chain'[c][q] = link
  BY <1>1 DEF LinksTyped
<1>4. Others(c, q)
  BY <1>1 DEF LinksTyped, Others
<1>5. \A d \in Calls, r \in Queues : WellFormed(chain'[d][r])
  BY <1>3, <1>4 DEF LinksTyped, Others
<1> QED
  BY <1>2, <1>3, <1>4, <1>5 DEF LinksTyped, WellFormed, Links

(* What every step of a chain has in common. *)
LEMMA ChainStepEffect ==
    ASSUME RunInv, NEW c \in Calls, NEW q \in Queues, ChainStep(c, q)
    PROVE  /\ UnderWay(c, q) /\ call[c] \notin {"none", "scheduling"}
           /\ CallsTyped'
           /\ call' = call \/ call' = [call EXCEPT ![c] = "rejected"]
           /\ \A j \in Jobs : CanSchedule(j) => CanSchedule(j)'
           /\ UNCHANGED <<time, alone>>
<1>1. UnderWay(c, q)
  BY DEF ChainStep, Kick, KicksFail, Reserve, ReserveFails, HandlerQueues, JobSucceeds,
         DeleteFails, JobFails, UnderWay
<1>2. call[c] \notin {"none", "scheduling"}
  BY <1>1 DEF RunInv, Patient, UnderWay, Idle
<1>3. call' = call \/ call' = [call EXCEPT ![c] = "rejected"]
  BY DEF ChainStep, Kick, KicksFail, Reserve, ReserveFails, HandlerQueues, JobSucceeds,
         DeleteFails, JobFails, Fails
<1>4. UNCHANGED <<time, alone>>
  BY DEF ChainStep, Kick, KicksFail, Reserve, ReserveFails, HandlerQueues, JobSucceeds,
         DeleteFails, JobFails
<1>5. failures' \in 0 .. MaxFailures
  <2>1. failures' = failures \/ (failures < MaxFailures /\ failures' = failures + 1)
    BY DEF ChainStep, Kick, KicksFail, Reserve, ReserveFails, HandlerQueues, JobSucceeds,
           DeleteFails, JobFails
  <2> QED
    BY <2>1, RunOnceAssumption DEF RunInv, CallsTyped
<1>6. CallsTyped'
  BY <1>3, <1>4, <1>5 DEF RunInv, CallsTyped
<1>7. ASSUME NEW j \in Jobs, CanSchedule(j)
      PROVE  CanSchedule(j)'
  <2>1. status[j] = "none" /\ QueueOf[j] = ScheduleQueue
    BY <1>7 DEF CanSchedule
  <2>2. \A d \in Calls, r \in Queues : chain[d][r].job # j
    BY <2>1 DEF RunInv, JobsKnown
  <2>3. status'[j] = "none"
    <3>1. CASE \E i \in Jobs : Kick(c, q, i)
      BY <2>1, <3>1 DEF Kick, RunInv, ListInv
    <3>2. CASE KicksFail(c, q)
      BY <2>1, <3>2 DEF KicksFail, RunInv, ListInv
    <3>3. CASE Reserve(c, q) \/ ReserveFails(c, q)
      BY <2>1, <3>3 DEF Reserve, ReserveFails, RunInv, ListInv
    <3>4. CASE JobSucceeds(c, q) \/ DeleteFails(c, q) \/ JobFails(c, q)
      BY <2>1, <2>2, <3>4 DEF JobSucceeds, DeleteFails, JobFails, RunInv, ListInv
    <3>5. CASE \E i \in Jobs : HandlerQueues(c, q, i)
      BY <2>1, <3>5 DEF HandlerQueues, CanQueue, RunInv, ListInv
    <3> QED
      BY <3>1, <3>2, <3>3, <3>4, <3>5 DEF ChainStep
  <2> QED
    BY <2>1, <2>3 DEF CanSchedule
<1> QED
  BY <1>1, <1>2, <1>3, <1>4, <1>6, <1>7

LEMMA ChainStepPatient ==
    ASSUME RunInv, NEW c \in Calls, NEW q \in Queues, ChainStep(c, q), LinksTyped',
           Others(c, q)
    PROVE  Patient'
<1>1. /\ call[c] \notin {"none", "scheduling"}
      /\ call' = call \/ call' = [call EXCEPT ![c] = "rejected"]
      /\ \A j \in Jobs : CanSchedule(j) => CanSchedule(j)'
  BY ChainStepEffect
<1>2. \A d \in Calls : call'[d] \in {"none", "scheduling"} => d # c /\ call'[d] = call[d]
  BY <1>1 DEF RunInv, CallsTyped
<1>3. \A d \in Calls : Waiting(d)' => Waiting(d)
  BY <1>1 DEF RunInv, CallsTyped, Waiting
<1>4. \A d \in Calls : call'[d] \in {"none", "scheduling"} =>
                            \A r \in Queues : chain'[d][r] = Idle
  BY <1>2 DEF RunInv, Patient, Others
<1>5. \A d \in Calls : call'[d] = "scheduling" => \E j \in Jobs : CanSchedule(j)'
  BY <1>1, <1>2 DEF RunInv, Patient
<1> QED
  BY <1>3, <1>4, <1>5 DEF RunInv, Patient

(* The jobs K are put back or done with, and nobody else's reservation changes. *)
Keeps(K) ==
    \A c \in Calls, q \in Queues, j \in Jobs :
        Holds(c, q, j)' <=> Holds(c, q, j) /\ j \notin K

StaysReserved(K) ==
    \A j \in Jobs : status'[j] = "reserved" <=> status[j] = "reserved" /\ j \notin K

LEMMA RunByOneKeeps ==
    ASSUME RunInv, NEW K, Keeps(K), StaysReserved(K)
    PROVE  RunByOne'
<1>1. \A j \in Jobs : status'[j] = "reserved" <=>
                           \E c \in Calls, q \in Queues : Holds(c, q, j)'
  BY DEF RunInv, RunByOne, Keeps, StaysReserved
<1>2. \A c, d \in Calls, q, r \in Queues, j \in Jobs :
         Holds(c, q, j)' /\ Holds(d, r, j)' => c = d /\ q = r
  BY DEF RunInv, RunByOne, Keeps
<1> QED
  BY <1>1, <1>2 DEF RunByOne

(* A chain that is not running a job before and after. *)
LEMMA RunByOneKept ==
    ASSUME RunInv, NEW c \in Calls, NEW q \in Queues, Others(c, q), cut' = cut,
           chain[c][q].job = NoJob, chain'[c][q].job = NoJob, StaysReserved({})
    PROVE  RunByOne'
<1>1. \A d \in Calls, r \in Queues : chain'[d][r].job = chain[d][r].job
  BY DEF Others
<1>2. Keeps({})
  BY <1>1 DEF Keeps, Holds
<1> QED
  BY <1>2, RunByOneKeeps

(* A chain that is through with its job, and takes it from whoever else has it. *)
LEMMA RunByOneReleased ==
    ASSUME RunInv, NEW c \in Calls, NEW q \in Queues, Others(c, q), TakesJob(c, q),
           chain[c][q].at = "running", chain'[c][q].job = NoJob,
           StaysReserved({chain[c][q].job})
    PROVE  RunByOne'
<1> DEFINE k == chain[c][q].job
<1>1. k \in Jobs /\ NoJob \notin Jobs
  BY RunOnceAssumption DEF RunInv, LinksTyped, WellFormed, Links
<1>2. ASSUME NEW d \in Calls, NEW r \in Queues
      PROVE  <<d, r>> \in cut' <=>
                (<<d, r>> \in cut \/ chain[d][r].job = k) /\ <<d, r>> # <<c, q>>
  BY DEF TakesJob, Runners
<1>3. ASSUME NEW d \in Calls, NEW r \in Queues, NEW j \in Jobs
      PROVE  Holds(d, r, j)' <=> Holds(d, r, j) /\ j \notin {k}
  <2>1. CASE <<d, r>> = <<c, q>>
    <3>1. d = c /\ r = q
      BY <2>1
    <3>2. chain'[d][r].job # j
      BY <1>1, <3>1
    <3>3. chain[d][r].job = k
      BY <3>1
    <3> QED
      BY <3>2, <3>3 DEF Holds
  <2>2. CASE <<d, r>> # <<c, q>>
    <3>1. chain'[d][r] = chain[d][r]
      BY <2>2 DEF Others
    <3>2. <<d, r>> \in cut' <=> <<d, r>> \in cut \/ chain[d][r].job = k
      BY <1>2, <2>2
    <3> HIDE DEF k
    <3> QED
      BY <3>1, <3>2 DEF Holds
  <2> QED
    BY <2>1, <2>2
<1>4. Keeps({k})
  BY <1>3 DEF Keeps
<1> QED
  BY <1>4, RunByOneKeeps

(* The jobs of the chains stay known when one chain gets another link. *)
LEMMA JobsKnownKept ==
    ASSUME RunInv, NEW c \in Calls, NEW q \in Queues, Others(c, q), LinksTyped',
           \A j \in Jobs : status[j] # "none" => status'[j] # "none",
           \A j \in Jobs : chain'[c][q].job = j => status'[j] # "none" /\ QueueOf[j] = q,
           \/ TakesJob(c, q) /\ chain[c][q].at = "running"
           \/ cut' = cut \ {<<c, q>>}
           \/ cut' = cut /\ chain[c][q].at # "running",
           unlisted' = unlisted
    PROVE  JobsKnown'
<1>1. ASSUME NEW d \in Calls, NEW r \in Queues, NEW j \in Jobs, chain'[d][r].job = j
      PROVE  status'[j] # "none" /\ QueueOf[j] = r
  <2>1. CASE d = c /\ r = q
    BY <1>1, <2>1
  <2>2. CASE ~(d = c /\ r = q)
    <3>1. chain'[d][r] = chain[d][r]
      BY <2>2 DEF Others
    <3> QED
      BY <1>1, <3>1 DEF RunInv, JobsKnown
  <2> QED
    BY <2>1, <2>2
<1>2. <<c, q>> \notin cut'
  BY DEF TakesJob, RunInv, JobsKnown
<1>3. cut' \in SUBSET (Calls \X Queues)
  BY DEF TakesJob, Runners, RunInv, JobsKnown
<1>4. ASSUME NEW d \in Calls, NEW r \in Queues, <<d, r>> \in cut'
      PROVE  chain'[d][r].at = "running"
  <2>1. <<d, r>> # <<c, q>>
    BY <1>2, <1>4
  <2>2. chain'[d][r] = chain[d][r]
    BY <2>1 DEF Others
  <2>3. CASE <<d, r>> \in cut
    BY <2>2, <2>3 DEF RunInv, JobsKnown
  <2>4. CASE <<d, r>> \notin cut
    <3>1. TakesJob(c, q) /\ chain[c][q].at = "running"
      BY <1>4, <2>4
    <3>2. chain[d][r].job = chain[c][q].job
      BY <1>4, <2>4, <3>1 DEF TakesJob, Runners
    <3>3. chain[d][r].at = "running"
      BY <3>1, <3>2 DEF RunInv, LinksTyped, WellFormed
    <3> QED
      BY <2>2, <3>3
  <2> QED
    BY <2>3, <2>4
<1> QED
  BY <1>1, <1>3, <1>4 DEF JobsKnown, RunInv

(* What a step of a chain does to who runs what. *)
Runs(c, q) ==
    /\ LinksTyped' /\ RunByOne' /\ JobsKnown' /\ Others(c, q)
    /\ chain'[c][q].kicks \subseteq chain[c][q].kicks

LEMMA KickRuns ==
    ASSUME RunInv, NEW c \in Calls, NEW q \in Queues, NEW j \in Jobs, Kick(c, q, j)
    PROVE  Runs(c, q) /\ chain'[c][q] = AfterKick(chain[c][q], j)
<1>1. /\ chain[c][q].at = "kicking" /\ Becomes(c, q, AfterKick(chain[c][q], j))
      /\ UNCHANGED <<cut, unlisted>>
  BY DEF Kick
<1>2. /\ StaysReserved({})
      /\ \A k \in Jobs : status[k] # "none" => status'[k] # "none"
  BY DEF Kick, RunInv, ListInv, StaysReserved
<1>3. LinksTyped /\ WellFormed(chain[c][q])
  BY DEF RunInv, LinksTyped
<1>4. /\ WellFormed(AfterKick(chain[c][q], j))
      /\ AfterKick(chain[c][q], j).job = chain[c][q].job
      /\ AfterKick(chain[c][q], j).kicks \subseteq chain[c][q].kicks
  BY <1>1, <1>3 DEF WellFormed, Links, AfterKick
<1>5. LinksTyped' /\ chain'[c][q] = AfterKick(chain[c][q], j) /\ Others(c, q)
  BY <1>1, <1>3, <1>4, LinkReplaced
<1>6. chain[c][q].job = NoJob /\ NoJob \notin Jobs
  BY <1>1, <1>3, RunOnceAssumption DEF WellFormed
<1>7. RunByOne'
  BY <1>1, <1>2, <1>4, <1>5, <1>6, RunByOneKept
<1>8. JobsKnown'
  BY <1>1, <1>2, <1>4, <1>5, <1>6, JobsKnownKept
<1> QED
  BY <1>4, <1>5, <1>7, <1>8 DEF Runs

(* A chain that fails is out of the way of the others. *)
LEMMA FailsRuns ==
    ASSUME RunInv, NEW c \in Calls, NEW q \in Queues, Fails(c, q), unlisted' = unlisted,
           \A j \in Jobs : status[j] # "none" => status'[j] # "none",
           \/ chain[c][q].at # "running" /\ StaysReserved({}) /\ cut' = cut
           \/ /\ chain[c][q].at = "running" /\ TakesJob(c, q)
              /\ StaysReserved({chain[c][q].job})
    PROVE  Runs(c, q)
<1> DEFINE failed == [Idle EXCEPT !.at = "failed"]
<1>1. LinksTyped /\ WellFormed(chain[c][q]) /\ Becomes(c, q, failed)
  BY DEF RunInv, LinksTyped, Fails
<1>2. failed.job = NoJob /\ failed.kicks = {} /\ WellFormed(failed)
  BY IdleWellFormed DEF Idle
<1> HIDE DEF failed
<1>3. /\ LinksTyped' /\ chain'[c][q].job = NoJob /\ chain'[c][q].kicks = {}
      /\ Others(c, q)
  BY <1>1, <1>2, LinkReplaced
<1>4. NoJob \notin Jobs
  BY RunOnceAssumption
<1>5. JobsKnown'
  BY <1>3, <1>4, JobsKnownKept
<1>6. CASE chain[c][q].at # "running"
  <2>1. chain[c][q].job = NoJob
    BY <1>1, <1>6 DEF WellFormed
  <2>2. RunByOne'
    BY <1>3, <1>6, <2>1, RunByOneKept
  <2> QED
    BY <1>3, <1>5, <2>2 DEF Runs
<1>7. CASE chain[c][q].at = "running"
  <2>1. RunByOne'
    BY <1>3, <1>7, RunByOneReleased
  <2> QED
    BY <1>3, <1>5, <2>1 DEF Runs
<1> QED
  BY <1>6, <1>7

LEMMA ReserveRuns ==
    ASSUME RunInv, NEW c \in Calls, NEW q \in Queues, Reserve(c, q)
    PROVE  Runs(c, q)
<1> DEFINE ready == {j \in Jobs : QueueOf[j] = q /\ status[j] = "ready"}
<1>1. LinksTyped /\ WellFormed(chain[c][q]) /\ chain[c][q].at = "reserving"
      /\ chain[c][q].job = NoJob /\ NoJob \notin Jobs /\ UNCHANGED <<cut, unlisted>>
  BY RunOnceAssumption DEF RunInv, LinksTyped, Reserve, WellFormed
<1>2. CASE ready = {}
  <2> DEFINE link == [chain[c][q] EXCEPT !.at = "done"]
  <2>1. Becomes(c, q, link) /\ status' = status
    BY <1>2 DEF Reserve
  <2>2. WellFormed(link) /\ link.job = NoJob /\ link.kicks = chain[c][q].kicks
    BY <1>1 DEF WellFormed, Links
  <2> HIDE DEF link
  <2>3. LinksTyped' /\ chain'[c][q] = link /\ Others(c, q)
    BY <1>1, <2>1, <2>2, LinkReplaced
  <2>4. RunByOne'
    BY <1>1, <2>1, <2>2, <2>3, RunByOneKept DEF StaysReserved
  <2>5. JobsKnown'
    BY <1>1, <2>1, <2>2, <2>3, JobsKnownKept
  <2> QED
    BY <2>2, <2>3, <2>4, <2>5 DEF Runs
<1>3. CASE ready # {}
  <2>1. PICK j \in ready : /\ status' = [status EXCEPT ![j] = "reserved"]
                           /\ Becomes(c, q, [chain[c][q] EXCEPT !.at = "running", !.job = j])
    BY <1>3 DEF Reserve
  <2> DEFINE link == [chain[c][q] EXCEPT !.at = "running", !.job = j]
  <2>2. j \in Jobs /\ QueueOf[j] = q /\ status[j] = "ready"
    OBVIOUS
  <2>3. WellFormed(link) /\ link.job = j /\ link.kicks = chain[c][q].kicks
    BY <1>1, <2>2 DEF WellFormed, Links
  <2> HIDE DEF link
  <2>4. LinksTyped' /\ chain'[c][q] = link /\ Others(c, q)
    BY <1>1, <2>1, <2>3, LinkReplaced DEF link
  <2>5. \A i \in Jobs : status'[i] = IF i = j THEN "reserved" ELSE status[i]
    BY <2>1 DEF RunInv, ListInv
  <2>6. <<c, q>> \notin cut
    BY <1>1 DEF RunInv, JobsKnown
  <2>7. ASSUME NEW d \in Calls, NEW r \in Queues, NEW i \in Jobs
        PROVE  Holds(d, r, i)' <=> Holds(d, r, i) \/ (d = c /\ r = q /\ i = j)
    <3>1. CASE d = c /\ r = q
      BY <1>1, <2>3, <2>4, <2>6, <3>1 DEF Holds
    <3>2. CASE ~(d = c /\ r = q)
      <4>1. chain'[d][r] = chain[d][r]
        BY <2>4, <3>2 DEF Others
      <4> QED
        BY <1>1, <3>2, <4>1 DEF Holds
    <3> QED
      BY <3>1, <3>2
  <2>8. \A d \in Calls, r \in Queues : ~Holds(d, r, j)
    BY <2>2 DEF RunInv, RunByOne
  <2>9. RunByOne'
    <3>1. \A i \in Jobs : status'[i] = "reserved" <=>
                               \E d \in Calls, r \in Queues : Holds(d, r, i)'
      BY <2>5, <2>7 DEF RunInv, RunByOne
    <3>2. \A d, e \in Calls, r, p \in Queues, i \in Jobs :
             Holds(d, r, i)' /\ Holds(e, p, i)' => d = e /\ r = p
      BY <2>7, <2>8 DEF RunInv, RunByOne
    <3> QED
      BY <3>1, <3>2 DEF RunByOne
  <2>10. JobsKnown'
    BY <1>1, <2>2, <2>3, <2>4, <2>5, JobsKnownKept
  <2> QED
    BY <2>3, <2>4, <2>9, <2>10 DEF Runs
<1> QED
  BY <1>2, <1>3

LEMMA RanRuns ==
    ASSUME RunInv, NEW c \in Calls, NEW q \in Queues, JobSucceeds(c, q) \/ DeleteFails(c, q)
    PROVE  Runs(c, q) /\ chain'[c][q].ran
<1> DEFINE link == [chain[c][q] EXCEPT !.at = "reserving", !.job = NoJob, !.ran = TRUE]
<1>1. /\ LinksTyped /\ WellFormed(chain[c][q]) /\ chain[c][q].at = "running"
      /\ Becomes(c, q, link) /\ unlisted' = unlisted /\ NoJob \notin Jobs
  BY RunOnceAssumption DEF RunInv, LinksTyped, JobSucceeds, DeleteFails, Ran
<1>2. WellFormed(link) /\ link.job = NoJob /\ link.ran /\ link.kicks = chain[c][q].kicks
  BY <1>1 DEF WellFormed, Links
<1> HIDE DEF link
<1>3. LinksTyped' /\ chain'[c][q] = link /\ Others(c, q)
  BY <1>1, <1>2, LinkReplaced
<1>4. CASE JobSucceeds(c, q)
  <2>1. TakesJob(c, q) /\ status' = [status EXCEPT ![chain[c][q].job] = "deleted"]
    BY <1>4 DEF JobSucceeds
  <2>2. chain[c][q].job \in Jobs
    BY <1>1 DEF WellFormed, Links
  <2>3. /\ StaysReserved({chain[c][q].job})
        /\ \A j \in Jobs : status[j] # "none" => status'[j] # "none"
    BY <2>1, <2>2 DEF RunInv, ListInv, StaysReserved
  <2>4. RunByOne'
    BY <1>1, <1>2, <1>3, <2>1, <2>3, RunByOneReleased
  <2>5. JobsKnown'
    BY <1>1, <1>2, <1>3, <2>1, <2>3, JobsKnownKept
  <2> QED
    BY <1>2, <1>3, <2>4, <2>5 DEF Runs
<1>5. CASE DeleteFails(c, q)
  <2>1. <<c, q>> \in cut /\ cut' = cut \ {<<c, q>>} /\ status' = status
    BY <1>5 DEF DeleteFails
  <2>2. ASSUME NEW d \in Calls, NEW r \in Queues, NEW j \in Jobs
        PROVE  Holds(d, r, j)' <=> Holds(d, r, j)
    <3>1. CASE d = c /\ r = q
      BY <1>1, <1>2, <1>3, <2>1, <3>1 DEF Holds
    <3>2. CASE ~(d = c /\ r = q)
      <4>1. chain'[d][r] = chain[d][r] /\ <<d, r>> # <<c, q>>
        BY <1>3, <3>2 DEF Others
      <4> QED
        BY <2>1, <4>1 DEF Holds
    <3> QED
      BY <3>1, <3>2
  <2>3. Keeps({}) /\ StaysReserved({})
    BY <2>1, <2>2 DEF Keeps, StaysReserved
  <2>4. RunByOne'
    BY <2>3, RunByOneKeeps
  <2>5. JobsKnown'
    BY <1>1, <1>2, <1>3, <2>1, JobsKnownKept
  <2> QED
    BY <1>2, <1>3, <2>4, <2>5 DEF Runs
<1> QED
  BY <1>4, <1>5

(* Nothing that the chains hold changes. *)
LEMMA SameChains ==
    ASSUME RunInv, UNCHANGED <<chain, cut>>, unlisted' \in SUBSET Jobs, StaysReserved({}),
           \A j \in Jobs : status[j] # "none" => status'[j] # "none"
    PROVE  LinksTyped' /\ RunByOne' /\ JobsKnown'
<1>1. LinksTyped'
  BY DEF RunInv, LinksTyped
<1>2. Keeps({})
  BY DEF Keeps, Holds
<1>3. RunByOne'
  BY <1>2, RunByOneKeeps
<1>4. JobsKnown'
  BY DEF RunInv, JobsKnown
<1> QED
  BY <1>1, <1>3, <1>4

LEMMA ChainStepRuns ==
    ASSUME RunInv, NEW c \in Calls, NEW q \in Queues, ChainStep(c, q)
    PROVE  Runs(c, q)
<1>1. CASE \E j \in Jobs : Kick(c, q, j)
  BY <1>1, KickRuns
<1>2. CASE KicksFail(c, q)
  <2>1. /\ chain[c][q].at # "running" /\ Fails(c, q) /\ UNCHANGED <<cut, unlisted>>
        /\ StaysReserved({}) /\ \A j \in Jobs : status[j] # "none" => status'[j] # "none"
    BY <1>2 DEF KicksFail, RunInv, ListInv, StaysReserved
  <2> QED
    BY <2>1, FailsRuns
<1>3. CASE ReserveFails(c, q)
  <2>1. /\ chain[c][q].at # "running" /\ Fails(c, q) /\ UNCHANGED <<cut, unlisted>>
        /\ StaysReserved({}) /\ \A j \in Jobs : status[j] # "none" => status'[j] # "none"
    BY <1>3 DEF ReserveFails, StaysReserved
  <2> QED
    BY <2>1, FailsRuns
<1>4. CASE Reserve(c, q)
  BY <1>4, ReserveRuns
<1>5. CASE JobSucceeds(c, q) \/ DeleteFails(c, q)
  BY <1>5, RanRuns
<1>6. CASE JobFails(c, q)
  <2>1. /\ chain[c][q].at = "running" /\ Fails(c, q) /\ TakesJob(c, q) /\ unlisted' = unlisted
        /\ status' = [status EXCEPT ![chain[c][q].job] = IF @ = "reserved" THEN "ready" ELSE @]
    BY <1>6 DEF JobFails
  <2>2. chain[c][q].job \in Jobs
    BY <2>1 DEF RunInv, LinksTyped, WellFormed, Links
  <2>3. /\ StaysReserved({chain[c][q].job})
        /\ \A j \in Jobs : status[j] # "none" => status'[j] # "none"
    BY <2>1, <2>2 DEF RunInv, ListInv, StaysReserved
  <2> QED
    BY <2>1, <2>3, FailsRuns
<1>7. CASE \E j \in Jobs : HandlerQueues(c, q, j)
  <2>1. /\ UNCHANGED <<chain, cut, unlisted>> /\ StaysReserved({})
        /\ \A j \in Jobs : status[j] # "none" => status'[j] # "none"
    BY <1>7 DEF HandlerQueues, CanQueue, RunInv, ListInv, StaysReserved
  <2>2. unlisted' \in SUBSET Jobs
    BY <2>1 DEF RunInv, JobsKnown
  <2> QED
    BY <2>1, <2>2, SameChains DEF Runs, Others
<1> QED
  BY <1>1, <1>2, <1>3, <1>4, <1>5, <1>6, <1>7 DEF ChainStep

(* A round of a call whose chains run no job. *)
LEMMA RoundRuns ==
    ASSUME RunInv, NEW c \in Calls, Round(c), \A q \in Queues : chain[c][q].at # "running",
           StaysReserved({}), \A j \in Jobs : status[j] # "none" => status'[j] # "none",
           UNCHANGED <<cut, unlisted>>
    PROVE  /\ LinksTyped' /\ RunByOne' /\ JobsKnown'
           /\ call' = [call EXCEPT ![c] = "running"] /\ alone' \in BOOLEAN
           /\ \A q \in Queues :
                 chain'[c][q] = [at    |-> IF ReadyDelayedJobs(q) = {} THEN "reserving" ELSE "kicking",
                                 kicks |-> ReadyDelayedJobs(q), job |-> NoJob, ran |-> FALSE]
           /\ \A d \in Calls : d # c => chain'[d] = chain[d]
<1> DEFINE link(q) == [at    |-> IF ReadyDelayedJobs(q) = {} THEN "reserving" ELSE "kicking",
                       kicks |-> ReadyDelayedJobs(q), job |-> NoJob, ran |-> FALSE]
<1>1. \A q \in Queues : WellFormed(link(q)) /\ link(q).job = NoJob /\ link(q) \in Links
  BY DEF WellFormed, Links, ReadyDelayedJobs
<1>2. chain' = [chain EXCEPT ![c] = [q \in Queues |-> link(q)]]
  BY DEF Round
<1>3. call' = [call EXCEPT ![c] = "running"] /\ alone' \in BOOLEAN
  BY DEF Round
<1>4. \A q \in Queues : chain[c][q].job = NoJob
  BY DEF RunInv, LinksTyped, WellFormed
<1> HIDE DEF link
<1>5. /\ \A q \in Queues : chain'[c][q] = link(q)
      /\ \A d \in Calls : d # c => chain'[d] = chain[d]
  BY <1>2 DEF RunInv, LinksTyped
<1>6. LinksTyped'
  <2>1. chain' \in [Calls -> [Queues -> Links]]
    BY <1>1, <1>2 DEF RunInv, LinksTyped
  <2>2. \A d \in Calls, q \in Queues : WellFormed(chain'[d][q])
    BY <1>1, <1>5 DEF RunInv, LinksTyped
  <2> QED
    BY <2>1, <2>2 DEF LinksTyped, WellFormed, Links
<1>7. \A d \in Calls, q \in Queues : chain'[d][q].job = chain[d][q].job
  BY <1>1, <1>4, <1>5
<1>8. RunByOne'
  <2>1. Keeps({})
    BY <1>7 DEF Keeps, Holds
  <2> QED
    BY <2>1, RunByOneKeeps
<1>9. JobsKnown'
  <2>1. \A q \in Queues : <<c, q>> \notin cut
    BY DEF RunInv, JobsKnown
  <2>2. \A d \in Calls, q \in Queues : <<d, q>> \in cut' => chain'[d][q].at = "running"
    BY <1>5, <2>1 DEF RunInv, JobsKnown
  <2> QED
    BY <1>7, <2>2 DEF RunInv, JobsKnown
<1> QED
  BY <1>3, <1>5, <1>6, <1>8, <1>9 DEF link

(* The test's steps between its calls leave the chains alone. *)
LEMMA TestStepRuns ==
    ASSUME RunInv, UNCHANGED <<call, chain, alone, cut>>, failures' \in 0 .. MaxFailures,
           unlisted' \in SUBSET Jobs, \A c \in Calls : ~Waiting(c),
           StaysReserved({}), \A j \in Jobs : status[j] # "none" => status'[j] # "none"
    PROVE  CallsTyped' /\ LinksTyped' /\ RunByOne' /\ JobsKnown' /\ Patient'
<1>1. CallsTyped' /\ LinksTyped' /\ RunByOne' /\ JobsKnown'
  BY SameChains DEF RunInv, CallsTyped
<1>2. Patient'
  BY DEF RunInv, Patient, Waiting
<1> QED
  BY <1>1, <1>2

LEMMA CallRuns ==
    ASSUME RunInv, NEW c \in Calls, Call(c)
    PROVE  CallsTyped' /\ LinksTyped' /\ RunByOne' /\ JobsKnown' /\ Patient'
<1>1. /\ \A d \in Calls : ~Waiting(d)
      /\ call[c] = "none" /\ status' = status /\ failures' = failures
      /\ RunOnSchedule => \E j \in Jobs : CanSchedule(j)
      /\ UNCHANGED <<cut, unlisted>> /\ StaysReserved({})
  BY DEF Call, TestRuns, StaysReserved
<1>2. \A q \in Queues : chain[c][q].at # "running"
  <2>1. \A q \in Queues : chain[c][q] = Idle
    BY <1>1 DEF RunInv, Patient
  <2>2. Idle.at # "running"
    BY DEF Idle
  <2> QED
    BY <2>1, <2>2
<1>3. CASE RunOnSchedule
  <2>1. call' = [call EXCEPT ![c] = "scheduling"] /\ UNCHANGED <<chain, alone>>
    BY <1>3 DEF Call
  <2>2. CallsTyped' /\ LinksTyped' /\ RunByOne' /\ JobsKnown'
    <3>1. unlisted' \in SUBSET Jobs
      BY <1>1 DEF RunInv, JobsKnown
    <3> QED
      BY <1>1, <2>1, <3>1, SameChains DEF RunInv, CallsTyped
  <2>3. Patient'
    BY <1>1, <1>2, <1>3, <2>1 DEF RunInv, CallsTyped, Patient, Waiting, CanSchedule
  <2> QED
    BY <2>2, <2>3
<1>4. CASE ~RunOnSchedule
  <2>1. Round(c)
    BY <1>4 DEF Call
  <2>2. /\ LinksTyped' /\ RunByOne' /\ JobsKnown'
        /\ call' = [call EXCEPT ![c] = "running"] /\ alone' \in BOOLEAN
        /\ \A d \in Calls : d # c => chain'[d] = chain[d]
    BY <1>1, <1>2, <2>1, RoundRuns
  <2>3. CallsTyped'
    BY <1>1, <2>2 DEF RunInv, CallsTyped
  <2>4. Patient'
    BY <1>1, <2>2 DEF RunInv, CallsTyped, Patient, Waiting
  <2> QED
    BY <2>2, <2>3, <2>4
<1> QED
  BY <1>3, <1>4

(* The job of the schedule that is queued. *)
LEMMA ScheduledJob ==
    ASSUME RunInv, NEW c \in Calls, call[c] = "scheduling",
           status' = [status EXCEPT ![CHOOSE j \in Jobs : CanSchedule(j)] = "ready"]
    PROVE  /\ StaysReserved({})
           /\ \A j \in Jobs : status[j] # "none" => status'[j] # "none"
           /\ \A j \in Jobs : status'[j] = "delayed" => status[j] = "delayed"
<1>1. PICK j \in Jobs : CanSchedule(j) /\ status' = [status EXCEPT ![j] = "ready"]
  <2>1. \E j \in Jobs : CanSchedule(j)
    BY DEF RunInv, Patient
  <2>2. DEFINE j == CHOOSE j \in Jobs : CanSchedule(j)
  <2>3. j \in Jobs /\ CanSchedule(j)
    BY <2>1
  <2> QED
    BY <2>3
<1> QED
  BY <1>1 DEF CanSchedule, RunInv, ListInv, StaysReserved

LEMMA CallStepRuns ==
    ASSUME RunInv, NEW c \in Calls, CallStep(c)
    PROVE  CallsTyped' /\ LinksTyped' /\ RunByOne' /\ JobsKnown' /\ Patient'
<1>1. Waiting(c) /\ \A d \in Calls : Waiting(d) => d = c
  BY DEF CallStep, SchedulePosted, SchedulePostFails, EndRound, RunInv, Patient, Waiting
<1>2. \A d \in Calls : d # c => call[d] # "scheduling"
  BY <1>1 DEF Waiting
<1>3. CASE SchedulePosted(c)
  <2>1. call[c] = "scheduling" /\ Round(c) /\ failures' = failures
    BY <1>3 DEF SchedulePosted
  <2>2. \A q \in Queues : chain[c][q].at # "running"
    BY <2>1 DEF RunInv, Patient, Idle
  <2>3. /\ StaysReserved({}) /\ UNCHANGED <<cut, unlisted>>
        /\ \A j \in Jobs : status[j] # "none" => status'[j] # "none"
    BY <1>3, ScheduledJob DEF SchedulePosted
  <2>5. /\ LinksTyped' /\ RunByOne' /\ JobsKnown'
        /\ call' = [call EXCEPT ![c] = "running"] /\ alone' \in BOOLEAN
        /\ \A d \in Calls : d # c => chain'[d] = chain[d]
    BY <2>1, <2>2, <2>3, RoundRuns
  <2>6. CallsTyped'
    BY <2>1, <2>5 DEF RunInv, CallsTyped
  <2>7. Patient'
    BY <1>1, <1>2, <2>5 DEF RunInv, CallsTyped, Patient, Waiting
  <2> QED
    BY <2>5, <2>6, <2>7
<1>4. CASE SchedulePostFails(c)
  <2>1. /\ failures < MaxFailures /\ failures' = failures + 1
        /\ call' = [call EXCEPT ![c] = "rejected"]
        /\ UNCHANGED <<chain, alone, cut, unlisted>>
    BY <1>4 DEF SchedulePostFails
  <2>2. failures' \in 0 .. MaxFailures
    BY <2>1, RunOnceAssumption DEF RunInv, CallsTyped
  <2>3. StaysReserved({}) /\ \A j \in Jobs : status[j] # "none" => status'[j] # "none"
    <3>1. CASE status' = status
      BY <3>1 DEF StaysReserved
    <3>2. CASE status' # status
      BY <1>4, <3>2, ScheduledJob DEF SchedulePostFails
    <3> QED
      BY <3>1, <3>2
  <2>5. CallsTyped'
    BY <2>1, <2>2 DEF RunInv, CallsTyped
  <2>6. unlisted' \in SUBSET Jobs
    BY <2>1 DEF RunInv, JobsKnown
  <2>4. Patient'
    BY <1>1, <1>2, <2>1 DEF RunInv, CallsTyped, Patient, Waiting
  <2> QED
    BY <2>1, <2>3, <2>4, <2>5, <2>6, SameChains
<1>5. CASE EndRound(c)
  <2>1. /\ call[c] = "running" /\ status' = status /\ failures' = failures
        /\ \A q \in Queues : chain[c][q].at # "running"
        /\ UNCHANGED <<cut, unlisted>> /\ StaysReserved({})
    BY <1>5 DEF EndRound, StaysReserved
  <2>2. CASE Round(c)
    <3>1. /\ LinksTyped' /\ RunByOne' /\ JobsKnown'
          /\ call' = [call EXCEPT ![c] = "running"] /\ alone' \in BOOLEAN
          /\ \A d \in Calls : d # c => chain'[d] = chain[d]
      BY <2>1, <2>2, RoundRuns
    <3>2. CallsTyped'
      BY <2>1, <3>1 DEF RunInv, CallsTyped
    <3>3. Patient'
      BY <1>1, <1>2, <3>1 DEF RunInv, CallsTyped, Patient, Waiting
    <3> QED
      BY <3>1, <3>2, <3>3
  <2>3. CASE call' = [call EXCEPT ![c] = "resolved"] /\ UNCHANGED <<chain, alone>>
    <3>1. CallsTyped' /\ LinksTyped' /\ RunByOne' /\ JobsKnown'
      <4>1. unlisted' \in SUBSET Jobs
        BY <2>1 DEF RunInv, JobsKnown
      <4> QED
        BY <2>1, <2>3, <4>1, SameChains DEF RunInv, CallsTyped
    <3>2. Patient'
      BY <1>1, <1>2, <2>3 DEF RunInv, CallsTyped, Patient, Waiting
    <3> QED
      BY <3>1, <3>2
  <2> QED
    BY <1>5, <2>2, <2>3 DEF EndRound
<1> QED
  BY <1>3, <1>4, <1>5 DEF CallStep

(* The jobs of the queue are put back, and its chains lose them. *)
LEMMA ConnectionLostRuns ==
    ASSUME RunInv, NEW q \in Queues, ConnectionLost(q)
    PROVE  CallsTyped' /\ LinksTyped' /\ RunByOne' /\ JobsKnown' /\ Patient'
<1> DEFINE K == {j \in Jobs : QueueOf[j] = q}
<1>1. /\ UNCHANGED <<call, chain, alone, unlisted>>
      /\ failures < MaxFailures /\ failures' = failures + 1
      /\ status' = [j \in Jobs |-> IF QueueOf[j] = q /\ status[j] = "reserved" THEN "ready"
                                    ELSE status[j]]
      /\ cut' = cut \cup {<<c, q>> : c \in {d \in Calls : chain[d][q].at = "running"}}
  BY DEF ConnectionLost
<1>2. CallsTyped' /\ LinksTyped'
  <2>1. failures' \in 0 .. MaxFailures
    BY <1>1, RunOnceAssumption DEF RunInv, CallsTyped
  <2> QED
    BY <1>1, <2>1 DEF RunInv, CallsTyped, LinksTyped
<1>3. ASSUME NEW d \in Calls, NEW r \in Queues
      PROVE  <<d, r>> \in cut' <=> <<d, r>> \in cut \/ (r = q /\ chain[d][q].at = "running")
  BY <1>1
<1>4. ASSUME NEW d \in Calls, NEW r \in Queues, NEW j \in Jobs
      PROVE  Holds(d, r, j)' <=> Holds(d, r, j) /\ j \notin K
  <2>1. chain[d][r].job = j => QueueOf[j] = r /\ chain[d][r].at = "running"
    BY RunOnceAssumption DEF RunInv, JobsKnown, LinksTyped, WellFormed
  <2> QED
    BY <1>1, <1>3, <2>1 DEF Holds
<1>5. RunByOne'
  <2>1. StaysReserved(K)
    BY <1>1 DEF StaysReserved
  <2>2. Keeps(K)
    BY <1>4 DEF Keeps
  <2> QED
    BY <2>1, <2>2, RunByOneKeeps
<1>6. JobsKnown'
  <2>1. \A c \in Calls, r \in Queues, j \in Jobs :
           chain'[c][r].job = j => status'[j] # "none" /\ QueueOf[j] = r
    BY <1>1 DEF RunInv, JobsKnown
  <2>2. cut' \in SUBSET (Calls \X Queues)
    BY <1>1 DEF RunInv, JobsKnown
  <2>3. \A c \in Calls, r \in Queues : <<c, r>> \in cut' => chain'[c][r].at = "running"
    BY <1>1, <1>3 DEF RunInv, JobsKnown
  <2> QED
    BY <1>1, <2>1, <2>2, <2>3 DEF RunInv, JobsKnown
<1>7. Patient'
  <2>1. \A j \in Jobs : CanSchedule(j) => CanSchedule(j)'
    BY <1>1 DEF CanSchedule
  <2> QED
    BY <1>1, <2>1 DEF RunInv, Patient, Waiting
<1> QED
  BY <1>2, <1>5, <1>6, <1>7

LEMMA RunInvStep ==
    ASSUME RunInv, [Next]_vars
    PROVE  RunInv'
<1>1. ScheduleInv' /\ ListInv'
  BY ScheduleStep, ListStep DEF RunInv
<1>1a. failures \in 0 .. MaxFailures /\ unlisted \in SUBSET Jobs
  BY DEF RunInv, CallsTyped, JobsKnown
<1>2. CASE Travel \/ ResetSchedule
  <2>1. /\ UNCHANGED <<call, chain, alone, cut, unlisted, failures>>
        /\ \A c \in Calls : ~Waiting(c)
        /\ StaysReserved({}) /\ \A j \in Jobs : status[j] # "none" => status'[j] # "none"
    BY <1>2 DEF Travel, ResetSchedule, TestRuns, StaysReserved
  <2> QED
    BY <1>1, <1>1a, <2>1, TestStepRuns DEF RunInv
<1>3. CASE PurgeQueues
  <2>1. /\ UNCHANGED <<call, chain, alone, cut, unlisted, failures>>
        /\ \A c \in Calls : ~Waiting(c)
        /\ StaysReserved({}) /\ \A j \in Jobs : status[j] # "none" => status'[j] # "none"
    BY <1>3 DEF PurgeQueues, TestRuns, RunInv, ListInv, StaysReserved
  <2> QED
    BY <1>1, <1>1a, <2>1, TestStepRuns DEF RunInv
<1>4. ASSUME NEW j \in Jobs, QueueJob(j) \/ DelayJob(j) \/ DelayJobFails(j)
      PROVE  RunInv'
  <2>1. /\ UNCHANGED <<call, chain, alone, cut>> /\ \A c \in Calls : ~Waiting(c)
        /\ StaysReserved({}) /\ \A i \in Jobs : status[i] # "none" => status'[i] # "none"
    BY <1>4 DEF QueueJob, DelayJob, DelayJobFails, CanQueue, TestRuns, RunInv, ListInv,
                StaysReserved
  <2>2. unlisted' \in SUBSET Jobs
    BY <1>1a, <1>4 DEF QueueJob, DelayJob, DelayJobFails
  <2>3. failures' \in 0 .. MaxFailures
    <3>1. failures' = failures \/ (failures < MaxFailures /\ failures' = failures + 1)
      BY <1>4 DEF QueueJob, DelayJob, DelayJobFails
    <3> QED
      BY <1>1a, <3>1, RunOnceAssumption
  <2> QED
    BY <1>1, <2>1, <2>2, <2>3, TestStepRuns DEF RunInv
<1>5. ASSUME NEW c \in Calls, Call(c)
      PROVE  RunInv'
  BY <1>1, <1>5, CallRuns DEF RunInv
<1>6. ASSUME NEW c \in Calls, CallStep(c)
      PROVE  RunInv'
  BY <1>1, <1>6, CallStepRuns DEF RunInv
<1>7. ASSUME NEW c \in Calls, NEW q \in Queues, ChainStep(c, q)
      PROVE  RunInv'
  <2>1. LinksTyped' /\ RunByOne' /\ JobsKnown' /\ Others(c, q)
    BY <1>7, ChainStepRuns DEF Runs
  <2>2. CallsTyped'
    BY <1>7, ChainStepEffect
  <2>3. Patient'
    BY <1>7, <2>1, ChainStepPatient
  <2> QED
    BY <1>1, <2>1, <2>2, <2>3 DEF RunInv
<1>8. ASSUME NEW q \in Queues, ConnectionLost(q)
      PROVE  RunInv'
  BY <1>1, <1>8, ConnectionLostRuns DEF RunInv
<1>9. CASE UNCHANGED vars
  <2>1. CallsTyped' /\ LinksTyped' /\ Patient'
    BY <1>9 DEF vars, RunInv, CallsTyped, LinksTyped, Patient, Waiting, CanSchedule
  <2>2. RunByOne' /\ JobsKnown'
    BY <1>9 DEF vars, RunInv, RunByOne, JobsKnown, Holds
  <2> QED
    BY <1>1, <2>1, <2>2 DEF RunInv
<1> QED
  BY <1>2, <1>3, <1>4, <1>5, <1>6, <1>7, <1>8, <1>9 DEF Next

LEMMA InitRunInv == Init => RunInv
<1> SUFFICES ASSUME Init PROVE RunInv
  OBVIOUS
<1>1. ScheduleInv /\ ListInv
  BY DEF Init, ScheduleInv, ListInv, NextFor, DelayedJobsListed
<1>2. \A c \in Calls, q \in Queues : chain[c][q] = Idle /\ chain[c][q].job = NoJob
  BY DEF Init, Idle
<1>3. CallsTyped
  BY RunOnceAssumption DEF Init, CallsTyped
<1>4. LinksTyped
  BY <1>2, IdleWellFormed DEF Init, LinksTyped, WellFormed
<1>5. RunByOne /\ JobsKnown
  BY <1>2, RunOnceAssumption DEF Init, RunByOne, JobsKnown, Holds
<1>6. Patient
  BY <1>2 DEF Init, Patient, Waiting
<1> QED
  BY <1>1, <1>3, <1>4, <1>5, <1>6 DEF RunInv

(* Each reserved job is run by exactly one chain whose connection was not lost,
   and such a chain runs no other job, whatever the chains of lost connections do
   to theirs: TypeOK holds of every run (queues.js:349-359, 485-511, 548-552). *)
THEOREM ReservedJobsRunOnce == Spec => []TypeOK
<1>1. RunInv => TypeOK
  <2> SUFFICES ASSUME RunInv PROVE TypeOK
    OBVIOUS
  <2>1. next \in Nat
    BY NextIsFirst DEF RunInv
  <2>2. ASSUME NEW c \in Calls, NEW q \in Queues
        PROVE  /\ chain[c][q].at \in {"idle", "kicking", "reserving", "running", "done", "failed"}
               /\ (chain[c][q].at = "kicking") = (chain[c][q].kicks # {})
               /\ (chain[c][q].at = "running") = (chain[c][q].job # NoJob)
    BY DEF RunInv, LinksTyped, WellFormed, Links
  <2>3. ASSUME NEW j \in Jobs
        PROVE  Cardinality(Holders(j)) = IF status[j] = "reserved" THEN 1 ELSE 0
    <3>1. \A c \in Calls, q \in Queues : <<c, q>> \in Holders(j) <=> Holds(c, q, j)
      BY DEF Holders, Runners, Holds
    <3>2. Holders(j) \subseteq Calls \X Queues
      BY DEF Holders, Runners
    <3>3. CASE status[j] = "reserved"
      <4>1. PICK c \in Calls, q \in Queues : Holds(c, q, j)
        BY <3>3 DEF RunInv, RunByOne
      <4>2. Holders(j) = {<<c, q>>}
        BY <3>1, <3>2, <4>1 DEF RunInv, RunByOne
      <4> QED
        BY <3>3, <4>2, FS_Singleton
    <3>4. CASE status[j] # "reserved"
      <4>1. Holders(j) = {}
        BY <3>1, <3>2, <3>4 DEF RunInv, RunByOne
      <4> QED
        BY <3>4, <4>1, FS_EmptySet
    <3> QED
      BY <3>3, <3>4
  <2> QED
    BY <2>1, <2>2, <2>3 DEF RunInv, ScheduleInv, ListInv, CallsTyped, JobsKnown, TypeOK
<1> QED
  BY <1>1, InitRunInv, RunInvStep, PTL DEF Spec

-----------------------------------------------------------------------------
(***************************************************************************)
(* What a call that resolves leaves behind.                                *)
(***************************************************************************)

(* No chain of another call is under way in a round that began alone. *)
Alone ==
    \A c \in Calls : call[c] = "running" /\ alone =>
        \A d \in Calls \ {c}, q \in Queues : ~UnderWay(d, q)

OwnKicks == \A c \in Calls, q \in Queues : \A j \in chain[c][q].kicks : QueueOf[j] = q

(* As long as no chain of such a round ran a job, what can be run is seen by the
   chain of its queue. *)
NothingRan(c) == \A q \in Queues : ~chain[c][q].ran /\ chain[c][q].at # "running"

Seen(c, j) ==
    /\ status[j] = "delayed" /\ readyTime[j] <= clock =>
          j \in chain[c][QueueOf[j]].kicks \/ j \in unlisted
    /\ status[j] = "ready" => chain[c][QueueOf[j]].at # "done"

RoundSees ==
    \A c \in Calls : call[c] = "running" /\ alone /\ NothingRan(c) =>
        \A j \in Jobs : Seen(c, j)

DrainInv == RunInv /\ Alone /\ OwnKicks /\ RoundSees

LEMMA RoundDrains ==
    ASSUME DrainInv, NEW c \in Calls, Round(c),
           \A q \in Queues : chain[c][q].at # "running",
           StaysReserved({}), \A j \in Jobs : status[j] # "none" => status'[j] # "none",
           \A j \in Jobs : status'[j] = "delayed" => status[j] = "delayed",
           UNCHANGED <<clock, readyTime, cut, unlisted>>, \A d \in Calls : Waiting(d) => d = c
    PROVE  Alone' /\ OwnKicks' /\ RoundSees'
<1>1. /\ call' = [call EXCEPT ![c] = "running"]
      /\ \A q \in Queues :
            chain'[c][q] = [at    |-> IF ReadyDelayedJobs(q) = {} THEN "reserving" ELSE "kicking",
                            kicks |-> ReadyDelayedJobs(q), job |-> NoJob, ran |-> FALSE]
      /\ \A d \in Calls : d # c => chain'[d] = chain[d]
  BY RoundRuns DEF DrainInv
<1>2. \A d \in Calls : call'[d] = "running" => d = c
  BY <1>1 DEF DrainInv, RunInv, CallsTyped, Waiting
<1>3. Alone'
  <2>1. alone' = \A d \in Calls \ {c}, q \in Queues : ~UnderWay(d, q)
    BY DEF Round
  <2>2. \A d \in Calls \ {c}, q \in Queues : UnderWay(d, q)' <=> UnderWay(d, q)
    BY <1>1 DEF UnderWay
  <2>3. ASSUME alone', NEW d \in Calls \ {c}, NEW q \in Queues
        PROVE  ~UnderWay(d, q)'
    <3>1. ~UnderWay(d, q)
      BY <2>1, <2>3, Zenon
    <3> QED
      BY <2>2, <3>1
  <2>4. ASSUME NEW e \in Calls, call'[e] = "running", alone',
               NEW d \in Calls \ {e}, NEW q \in Queues
        PROVE  ~UnderWay(d, q)'
    <3>1. e = c
      BY <1>2, <2>4
    <3> QED
      BY <2>3, <2>4, <3>1
  <2> QED
    BY <2>4 DEF Alone, UnderWay
<1>4. ASSUME NEW q \in Queues
      PROVE  chain'[c][q].kicks = ReadyDelayedJobs(q) /\ chain'[c][q].at # "done"
  <2> DEFINE at == IF ReadyDelayedJobs(q) = {} THEN "reserving" ELSE "kicking"
  <2>1. chain'[c][q] = [at |-> at, kicks |-> ReadyDelayedJobs(q), job |-> NoJob, ran |-> FALSE]
    BY <1>1
  <2>2. at # "done"
    OBVIOUS
  <2> HIDE DEF at
  <2> QED
    BY <2>1, <2>2
<1>5. OwnKicks'
  <2>1. \A q \in Queues : \A j \in ReadyDelayedJobs(q) : QueueOf[j] = q
    BY DEF ReadyDelayedJobs
  <2> QED
    BY <1>1, <1>4, <2>1 DEF DrainInv, OwnKicks
<1>6. ASSUME NEW j \in Jobs
      PROVE  Seen(c, j)'
  <2>1. QueueOf[j] \in Queues
    BY RunOnceAssumption
  <2>2. ASSUME status'[j] = "delayed", readyTime'[j] <= clock', j \notin unlisted'
        PROVE  j \in ReadyDelayedJobs(QueueOf[j])
    <3>1. readyTime[j] \in Nat /\ readyTime[j] > 0 /\ clock \in Nat
      BY <2>2, RunOnceAssumption DEF DrainInv, RunInv, ListInv, DelayedJobsListed, ScheduleInv
    <3> QED
      BY <2>2, <3>1 DEF ReadyDelayedJobs
  <2> QED
    BY <1>4, <2>1, <2>2 DEF Seen
<1> QED
  BY <1>2, <1>3, <1>5, <1>6 DEF RoundSees

(* A chain of the call that runs alone leaves what it did not see to no one. *)
LEMMA ChainStepSees ==
    ASSUME DrainInv, NEW c \in Calls, NEW q \in Queues, ChainStep(c, q),
           call'[c] = "running", alone, NothingRan(c)', NEW j \in Jobs
    PROVE  Seen(c, j)'
<1>1. /\ \A d \in Calls, r \in Queues : <<d, r>> # <<c, q>> => chain'[d][r] = chain[d][r]
      /\ UNCHANGED <<time, unlisted>> /\ call[c] = "running"
  <2>1. unlisted' = unlisted
    BY DEF ChainStep, Kick, KicksFail, Reserve, ReserveFails, HandlerQueues, JobSucceeds,
           DeleteFails, JobFails
  <2> QED
    BY <2>1, ChainStepRuns, ChainStepEffect DEF DrainInv, RunInv, CallsTyped, Runs, Others
<1>2. \A r \in Queues : r # q => chain'[c][r] = chain[c][r]
  BY <1>1
<1>3. clock' = clock /\ unlisted' = unlisted /\ QueueOf[j] \in Queues
  BY <1>1, RunOnceAssumption DEF time
<1>4. ~Fails(c, q)
  BY DEF Fails, DrainInv, RunInv, CallsTyped
<1>5. CASE \E i \in Jobs : Kick(c, q, i)
  <2>1. PICK i \in Jobs : Kick(c, q, i)
    BY <1>5
  <2>2. /\ chain'[c][q] = AfterKick(chain[c][q], i)
        /\ i \in chain[c][q].kicks /\ chain[c][q].at = "kicking"
        /\ IF status[i] = "delayed"
           THEN /\ status' = [status EXCEPT ![i] = "ready"]
                /\ readyTime' = [readyTime EXCEPT ![i] = 0]
           ELSE UNCHANGED <<status, readyTime>>
    BY <2>1, KickRuns DEF Kick, DrainInv
  <2>3. /\ chain'[c][q].kicks = chain[c][q].kicks \ {i} /\ chain'[c][q].at # "done"
        /\ chain'[c][q].ran = chain[c][q].ran
    BY <2>2 DEF AfterKick, DrainInv, RunInv, LinksTyped, Links
  <2>4. NothingRan(c)
    BY <1>2, <2>2, <2>3 DEF NothingRan
  <2>5. Seen(c, j)
    BY <1>1, <2>4 DEF DrainInv, RoundSees
  <2>6. QueueOf[i] = q
    BY <2>2 DEF DrainInv, OwnKicks
  <2>7. CASE j = i
    <3>1. status'[j] # "delayed"
      BY <2>2, <2>7 DEF DrainInv, RunInv, ListInv
    <3> QED
      BY <2>3, <2>6, <2>7, <3>1 DEF Seen
  <2>8. CASE j # i
    <3>1. status'[j] = status[j] /\ readyTime'[j] = readyTime[j]
      BY <2>2, <2>8 DEF DrainInv, RunInv, ListInv
    <3> QED
      BY <1>2, <1>3, <2>3, <2>5, <2>8, <3>1 DEF Seen
  <2> QED
    BY <2>7, <2>8
<1>6. CASE Reserve(c, q)
  <2>1. chain[c] \in [Queues -> Links] /\ chain[c][q].at = "reserving"
    BY <1>6 DEF Reserve, DrainInv, RunInv, LinksTyped
  <2>2. {i \in Jobs : QueueOf[i] = q /\ status[i] = "ready"} = {}
    <3>1. SUFFICES ASSUME NEW i, Becomes(c, q, [chain[c][q] EXCEPT !.at = "running", !.job = i])
                   PROVE  FALSE
      BY <1>6 DEF Reserve
    <3>2. chain'[c][q] = [chain[c][q] EXCEPT !.at = "running", !.job = i]
      BY <3>1 DEF Becomes, DrainInv, RunInv, LinksTyped
    <3>3. chain'[c][q].at = "running"
      BY <2>1, <3>2 DEF Links
    <3> QED
      BY <3>3 DEF NothingRan
  <2>3. /\ Becomes(c, q, [chain[c][q] EXCEPT !.at = "done"])
        /\ UNCHANGED <<status, readyTime>>
    BY <1>6, <2>2 DEF Reserve
  <2>4. chain'[c][q] = [chain[c][q] EXCEPT !.at = "done"]
    BY <2>3 DEF Becomes, DrainInv, RunInv, LinksTyped
  <2>5. chain'[c][q].kicks = chain[c][q].kicks /\ chain'[c][q].ran = chain[c][q].ran
    BY <2>1, <2>4 DEF Links
  <2>6. NothingRan(c)
    BY <1>2, <2>1, <2>5 DEF NothingRan
  <2>7. Seen(c, j)
    BY <1>1, <2>6 DEF DrainInv, RoundSees
  <2> QED
    BY <1>2, <1>3, <2>2, <2>3, <2>5, <2>7 DEF Seen
<1>7. CASE JobSucceeds(c, q) \/ DeleteFails(c, q)
  <2>1. chain'[c][q].ran
    BY <1>7, RanRuns DEF DrainInv
  <2> QED
    BY <2>1 DEF NothingRan
<1>8. ~\E i \in Jobs : HandlerQueues(c, q, i)
  BY DEF HandlerQueues, NothingRan
<1> QED
  BY <1>4, <1>5, <1>6, <1>7, <1>8 DEF ChainStep, KicksFail, ReserveFails, JobFails

LEMMA ChainStepDrains ==
    ASSUME DrainInv, NEW c \in Calls, NEW q \in Queues, ChainStep(c, q)
    PROVE  Alone' /\ OwnKicks' /\ RoundSees'
<1>1. /\ \A d \in Calls, r \in Queues : <<d, r>> # <<c, q>> => chain'[d][r] = chain[d][r]
      /\ chain'[c][q].kicks \subseteq chain[c][q].kicks
      /\ UnderWay(c, q) /\ alone' = alone
      /\ \A d \in Calls : call'[d] = "running" => call[d] = "running"
  BY ChainStepRuns, ChainStepEffect DEF DrainInv, RunInv, CallsTyped, Runs, Others
<1>2. \A d \in Calls : call'[d] = "running" /\ alone => d = c
  BY <1>1 DEF DrainInv, Alone
<1>3. Alone'
  BY <1>1, <1>2 DEF DrainInv, Alone, UnderWay
<1>4. OwnKicks'
  BY <1>1 DEF DrainInv, OwnKicks
<1>5. RoundSees'
  BY <1>1, <1>2, ChainStepSees DEF RoundSees
<1> QED
  BY <1>3, <1>4, <1>5

LEMMA DrainInvStep ==
    ASSUME DrainInv, [Next]_vars
    PROVE  DrainInv'
<1>1. RunInv'
  BY RunInvStep DEF DrainInv
<1>2. ASSUME UNCHANGED <<call, chain, alone>>, \A c \in Calls : ~Waiting(c)
      PROVE  Alone' /\ OwnKicks' /\ RoundSees'
  BY <1>2 DEF DrainInv, Alone, OwnKicks, RoundSees, Waiting
<1>3. CASE \/ Travel \/ ResetSchedule \/ PurgeQueues
            \/ \E j \in Jobs : QueueJob(j) \/ DelayJob(j) \/ DelayJobFails(j)
  <2>1. UNCHANGED <<call, chain, alone>> /\ \A c \in Calls : ~Waiting(c)
    BY <1>3 DEF Travel, ResetSchedule, PurgeQueues, QueueJob, DelayJob, DelayJobFails, TestRuns
  <2> QED
    BY <1>1, <1>2, <2>1 DEF DrainInv
<1>4. ASSUME NEW c \in Calls, Call(c)
      PROVE  Alone' /\ OwnKicks' /\ RoundSees'
  <2>1. /\ \A d \in Calls : ~Waiting(d)
        /\ call[c] = "none" /\ UNCHANGED <<clock, status, readyTime, cut, unlisted>>
        /\ StaysReserved({})
    BY <1>4 DEF Call, TestRuns, StaysReserved
  <2>2. \A q \in Queues : chain[c][q].at # "running"
    BY <2>1 DEF DrainInv, RunInv, Patient, Idle
  <2>3. CASE Round(c)
    BY <2>1, <2>2, <2>3, RoundDrains
  <2>4. CASE call' = [call EXCEPT ![c] = "scheduling"] /\ UNCHANGED <<chain, alone>>
    <3>1. \A d \in Calls : call'[d] # "running"
      BY <2>1, <2>4 DEF DrainInv, RunInv, CallsTyped, Waiting
    <3> QED
      BY <2>4, <3>1 DEF DrainInv, Alone, OwnKicks, RoundSees
  <2> QED
    BY <1>4, <2>3, <2>4 DEF Call
<1>5. ASSUME NEW c \in Calls, CallStep(c)
      PROVE  Alone' /\ OwnKicks' /\ RoundSees'
  <2>1. Waiting(c) /\ \A d \in Calls : Waiting(d) => d = c
    BY <1>5 DEF CallStep, SchedulePosted, SchedulePostFails, EndRound, DrainInv, RunInv, Patient,
                Waiting
  <2>2. CASE Round(c)
    <3>1. /\ UNCHANGED <<clock, readyTime, cut, unlisted>>
          /\ \A q \in Queues : chain[c][q].at # "running"
      <4>1. UNCHANGED <<clock, readyTime, cut, unlisted>>
        BY <1>5 DEF CallStep, SchedulePosted, SchedulePostFails, EndRound, time
      <4>2. call[c] = "scheduling" \/ \A q \in Queues : chain[c][q].at = "done"
        BY <1>5 DEF CallStep, SchedulePosted, SchedulePostFails, EndRound
      <4>3. call[c] = "scheduling" => \A q \in Queues : chain[c][q] = Idle
        BY DEF DrainInv, RunInv, Patient
      <4>4. Idle.at # "running"
        BY DEF Idle
      <4> QED
        BY <4>1, <4>2, <4>3, <4>4
    <3>2. /\ StaysReserved({}) /\ \A j \in Jobs : status[j] # "none" => status'[j] # "none"
          /\ \A j \in Jobs : status'[j] = "delayed" => status[j] = "delayed"
      <4>1. CASE SchedulePosted(c) \/ (SchedulePostFails(c) /\ status' # status)
        BY <4>1, ScheduledJob DEF SchedulePosted, SchedulePostFails, DrainInv
      <4>2. CASE EndRound(c) \/ status' = status
        BY <4>2 DEF EndRound, StaysReserved
      <4> QED
        BY <1>5, <4>1, <4>2 DEF CallStep
    <3> QED
      BY <2>1, <2>2, <3>1, <3>2, RoundDrains
  <2>3. CASE ~Round(c)
    <3>1. /\ chain' = chain
          /\ \E s \in {"rejected", "resolved"} : call' = [call EXCEPT ![c] = s]
      BY <1>5, <2>3 DEF CallStep, SchedulePosted, SchedulePostFails, EndRound
    <3>2. \A d \in Calls : call'[d] # "running"
      BY <2>1, <3>1 DEF DrainInv, RunInv, CallsTyped, Waiting
    <3> QED
      BY <3>1, <3>2 DEF DrainInv, Alone, OwnKicks, RoundSees
  <2> QED
    BY <2>2, <2>3
<1>6. ASSUME NEW c \in Calls, NEW q \in Queues, ChainStep(c, q)
      PROVE  Alone' /\ OwnKicks' /\ RoundSees'
  BY <1>6, ChainStepDrains
<1>7. ASSUME NEW q \in Queues, ConnectionLost(q)
      PROVE  Alone' /\ OwnKicks' /\ RoundSees'
  <2>1. UNCHANGED <<clock, readyTime, call, chain, alone, unlisted>>
    BY <1>7 DEF ConnectionLost, time
  <2>2. ASSUME NEW c \in Calls, call[c] = "running", alone, NothingRan(c), NEW j \in Jobs
        PROVE  Seen(c, j)'
    <3>1. \A d \in Calls, r \in Queues : chain[d][r].at # "running"
      BY <2>2 DEF DrainInv, Alone, UnderWay, NothingRan
    <3>2. FALSE
      BY <1>7, <3>1 DEF ConnectionLost
    <3> QED
      BY <3>2
  <2>3. RoundSees'
    BY <2>1, <2>2 DEF RoundSees, NothingRan
  <2> QED
    BY <2>1, <2>3 DEF DrainInv, Alone, OwnKicks, UnderWay
<1>8. CASE UNCHANGED vars
  BY <1>1, <1>8 DEF vars, DrainInv, Alone, OwnKicks, RoundSees, Seen, NothingRan, UnderWay
<1> QED
  BY <1>1, <1>3, <1>4, <1>5, <1>6, <1>7, <1>8 DEF Next, DrainInv

(* When a call whose last round began alone resolves, no job is left that a
   handler could run: ResolvedMeansDrained holds of every run (queues.js:698-709,
   278-292, index.js:156-163). *)
THEOREM ResolvedCallsDrain == Spec => ResolvedMeansDrained
<1>1. Init => DrainInv
  BY InitRunInv DEF Init, DrainInv, Alone, OwnKicks, RoundSees, Idle
<1>2. DrainInv /\ [Next]_vars => DrainInv'
  BY DrainInvStep
<1>3. DrainInv /\ [Next]_vars =>
        [\A c \in Calls : Waiting(c) /\ call'[c] = "resolved" /\ alone => Drained']_vars
  <2> SUFFICES ASSUME DrainInv, Next, NEW c \in Calls, Waiting(c), call'[c] = "resolved", alone
               PROVE  Drained'
    OBVIOUS
  <2>1. /\ call[c] = "running" /\ \A q \in Queues : chain[c][q].at = "done" /\ ~chain[c][q].ran
        /\ UNCHANGED <<clock, status, readyTime, unlisted>>
    <3>1. EndRound(c)
      <4>1. ~(\/ Travel \/ ResetSchedule \/ PurgeQueues
              \/ \E j \in Jobs : QueueJob(j) \/ DelayJob(j) \/ DelayJobFails(j))
        BY DEF Travel, ResetSchedule, PurgeQueues, QueueJob, DelayJob, DelayJobFails, TestRuns
      <4>2. ASSUME NEW d \in Calls, NEW q \in Queues, ChainStep(d, q)
            PROVE  FALSE
        <5>1. call' = call \/ call' = [call EXCEPT ![d] = "rejected"]
          BY <4>2, ChainStepEffect DEF DrainInv
        <5> QED
          BY <5>1 DEF DrainInv, RunInv, CallsTyped, Waiting
      <4>3. ASSUME NEW d \in Calls, Call(d)
            PROVE  FALSE
        BY <4>3 DEF Call, TestRuns
      <4>4. ASSUME NEW d \in Calls, CallStep(d)
            PROVE  d = c
        BY <4>4 DEF CallStep, SchedulePosted, SchedulePostFails, EndRound, DrainInv, RunInv,
                    Patient, Waiting
      <4>5. ASSUME NEW q \in Queues, ConnectionLost(q)
            PROVE  FALSE
        BY <4>5 DEF ConnectionLost, Waiting
      <4>7. CallStep(c)
        BY <4>1, <4>2, <4>3, <4>4, <4>5 DEF Next
      <4>6. ~SchedulePosted(c) /\ ~SchedulePostFails(c)
        BY DEF SchedulePosted, SchedulePostFails, Round, DrainInv, RunInv, CallsTyped
      <4> QED
        BY <4>6, <4>7 DEF CallStep
    <3>2. ~Round(c)
      BY DEF Round, DrainInv, RunInv, CallsTyped
    <3> QED
      BY <3>1, <3>2 DEF EndRound, time
  <2>2. NothingRan(c)
    BY <2>1 DEF NothingRan
  <2>3. ASSUME NEW j \in Jobs
        PROVE  /\ status[j] \notin {"ready", "reserved"}
               /\ status[j] = "delayed" => readyTime[j] > clock \/ j \in unlisted
    <3>1. Seen(c, j) /\ QueueOf[j] \in Queues
      BY <2>1, <2>2, RunOnceAssumption DEF DrainInv, RoundSees
    <3>2. chain[c][QueueOf[j]].at = "done" /\ chain[c][QueueOf[j]].kicks = {}
      BY <2>1, <3>1 DEF DrainInv, RunInv, LinksTyped, WellFormed
    <3>3. status[j] # "reserved"
      <4>1. SUFFICES ASSUME NEW d \in Calls, NEW q \in Queues, Holds(d, q, j)
                     PROVE  FALSE
        BY DEF DrainInv, RunInv, RunByOne
      <4>2. chain[d][q].at = "running"
        BY <4>1, RunOnceAssumption DEF DrainInv, RunInv, LinksTyped, WellFormed, Holds
      <4> QED
        BY <2>1, <4>2 DEF DrainInv, Alone, UnderWay
    <3>4. status[j] = "delayed" => ~(readyTime[j] <= clock) \/ j \in unlisted
      BY <3>1, <3>2 DEF Seen
    <3>5. readyTime[j] \in Nat /\ clock \in Nat
      BY RunOnceAssumption DEF DrainInv, RunInv, ListInv, ScheduleInv
    <3> QED
      BY <3>1, <3>2, <3>3, <3>4, <3>5 DEF Seen
  <2> QED
    BY <2>1, <2>3 DEF Drained
<1> QED
  BY <1>1, <1>2, <1>3, PTL DEF Spec, ResolvedMeansDrained

=============================================================================
