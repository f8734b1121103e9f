---------------------------- MODULE ScheduleMutex ----------------------------
(***************************************************************************)
(* One scheduled job in several processes, of which a mutex lets one queue *)
(* each occurrence: canScheduleJob() with IronCache or Redis               *)
(* (lib/iron_cache_mutex.js, lib/redis_mutex.js) under                     *)
(* Schedule._queueNext and _queueJob (lib/scheduler.js).                   *)
(*                                                                         *)
(* When its timer fires, a process asks for the key of the job.  Whoever   *)
(* finds no key stores it, for Ttl, and queues the job; the others are     *)
(* refused.  The key carries the name of the job and not the occurrence,   *)
(* and nobody deletes it.  A request that fails is tried again after       *)
(* RetryDelay if the job runs once or at a long interval.                  *)
(*                                                                         *)
(* Time is in ticks.  A timer fires at most MaxSkew after its occurrence,  *)
(* clocks that differ included; a request takes at most MaxDelay.          *)
(***************************************************************************)
EXTENDS Integers, FiniteSets

CONSTANTS
    Processes,      (* the processes that schedule the job                    *)
    Intervals,      (* Schedule.every, 0 for a job that runs once             *)
    Occurrences,    (* how many occurrences there are (bound)                 *)
    Ttl,            (* TTL_SECONDS                                            *)
    RetryDelay,     (* five seconds                                           *)
    RetryAbove,     (* ten minutes: shorter intervals are not retried         *)
    MaxSkew,        (* how late a timer may fire                              *)
    MaxDelay,       (* the longest way of a request                           *)
    MaxFailures,    (* how many requests and processes fail (bound)           *)
    MaxAgain        (* how often a job that runs once is started again (bound) *)

(* The last part is what the mutex relies on: the timers of all processes fire
   and ask while the key of the first is there. *)
ASSUME ScheduleMutexAssumption ==
    /\ IsFiniteSet(Processes) /\ Processes # {}
    /\ Intervals \subseteq Nat
    /\ {Occurrences, Ttl, RetryDelay} \subseteq Nat \ {0}
    /\ {RetryAbove, MaxSkew, MaxDelay, MaxFailures, MaxAgain} \subseteq Nat
    /\ \A e \in Intervals : e > 0 => e > Ttl
    /\ MaxSkew + MaxDelay < Ttl

VARIABLES
    every,      (* the interval of this schedule; it does not change          *)
    now,
    key,        (* ticks until the key expires, 0 if there is none            *)
    stage,      (* process -> occurrence -> where its attempt is              *)
    left,       (* process -> occurrence -> ticks left of that                *)
    queued,     (* occurrence -> how often its job was queued                 *)
    failed,     (* history: occurrence -> the requests that failed            *)
    again       (* history: starts of a job that runs once after its time     *)

vars == <<every, now, key, stage, left, queued, failed, again>>

Stages == { "waiting",      \* for the timer
            "asking",       \* the request for the key is on its way
            "posting",      \* the key was stored, the job is on its way
            "retrying",     \* after a failure
            "queued", "refused", "lost",
            "missed" }      \* the process was down

InFlight == { "asking", "posting", "retrying" }

(* The occurrences of this schedule, and when they are due. *)
Turns == IF every = 0 THEN {1} ELSE 1 .. Occurrences

Due(k) == (k - 1) * every

Retried == every = 0 \/ every > RetryAbove

Init ==
    /\ every \in Intervals
    /\ now = 0
    /\ key = 0
    /\ stage = [p \in Processes |-> [k \in 1 .. Occurrences |-> "waiting"]]
    /\ left = [p \in Processes |-> [k \in 1 .. Occurrences |-> 0]]
    /\ queued = [k \in 1 .. Occurrences |-> 0]
    /\ failed = [k \in 1 .. Occurrences |-> 0]
    /\ again = 0

Goto(p, k, from, to, ticks) ==
    /\ stage[p][k] = from
    /\ stage' = [stage EXCEPT ![p][k] = to]
    /\ left' = [left EXCEPT ![p][k] = ticks]

(* The timer: _queueNext asks for the key. *)
Fire(p, k) ==
    /\ now >= Due(k)
    /\ Goto(p, k, "waiting", "asking", MaxDelay)
    /\ UNCHANGED <<every, now, key, queued, failed, again>>

(* Variant: the key is stored whether or not there is one. *)
LaxAsk(p, k) ==
    /\ Goto(p, k, "asking", "posting", MaxDelay)
    /\ key' = Ttl
    /\ UNCHANGED <<every, now, queued, failed, again>>

(* The request for the key arrives. *)
Ask(p, k) ==
    /\ \/ /\ key = 0
          /\ key' = Ttl
          /\ Goto(p, k, "asking", "posting", MaxDelay)
       \/ /\ key > 0
          /\ Goto(p, k, "asking", "refused", 0)
          /\ UNCHANGED key
    /\ UNCHANGED <<every, now, queued, failed, again>>

Post(p, k) ==
    /\ Goto(p, k, "posting", "queued", 0)
    /\ queued' = [queued EXCEPT ![k] = @ + 1]
    /\ UNCHANGED <<every, now, key, failed, again>>

-----------------------------------------------------------------------------
(***************************************************************************)
(* Failures.                                                               *)
(***************************************************************************)

Fail(p, k, from) ==
    /\ failed[k] < MaxFailures
    /\ failed' = [failed EXCEPT ![k] = @ + 1]
    /\ IF Retried THEN Goto(p, k, from, "retrying", RetryDelay)
       ELSE Goto(p, k, from, "lost", 0)
    /\ UNCHANGED <<every, now, again>>

(* The cache answers with an error, or its answer is lost. *)
AskFails(p, k) ==
    /\ Fail(p, k, "asking")
    /\ UNCHANGED key \/ (key = 0 /\ key' = Ttl)
    /\ UNCHANGED queued

(* The job could not be queued, or it was and the answer is lost. *)
PostFails(p, k) ==
    /\ Fail(p, k, "posting")
    /\ queued' = queued \/ queued' = [queued EXCEPT ![k] = @ + 1]
    /\ UNCHANGED key

(* The timer of the retry: _queueNext again. *)
Retry(p, k) ==
    /\ left[p][k] = 0
    /\ Goto(p, k, "retrying", "asking", MaxDelay)
    /\ UNCHANGED <<every, now, key, queued, failed, again>>

(* The process ends and is started again: a recurring job goes on with the next
   occurrence.  What was on its way may have arrived. *)
Restart(p) ==
    LET cut    == { k \in Turns : stage[p][k] \in InFlight }
        missed == { k \in Turns : stage[p][k] = "waiting" /\ Due(k) <= now }
        asked  == { k \in cut : stage[p][k] = "asking" }
        posted == { k \in cut : stage[p][k] = "posting" }
    IN  /\ cut \cup missed # {}
        /\ \A k \in cut : failed[k] < MaxFailures
        /\ failed' = [k \in 1 .. Occurrences |-> IF k \in cut THEN failed[k] + 1 ELSE failed[k]]
        /\ stage' = [stage EXCEPT ![p] = [k \in 1 .. Occurrences |->
                         IF k \in cut THEN "lost" ELSE IF k \in missed THEN "missed" ELSE @[k]]]
        /\ left' = [left EXCEPT ![p] = [k \in 1 .. Occurrences |-> IF k \in cut THEN 0 ELSE @[k]]]
        /\ UNCHANGED key \/ (asked # {} /\ key = 0 /\ key' = Ttl)
        /\ \E stored \in SUBSET posted :
              queued' = [k \in 1 .. Occurrences |->
                            IF k \in stored THEN queued[k] + 1 ELSE queued[k]]
        /\ UNCHANGED <<every, now, again>>

(* A job that runs once is started after its time, by a process that was started
   again or only its schedules: _next is null, or past, the delay is negative and
   the timer fires at once. *)
StartAgain(p) ==
    /\ every = 0
    /\ again < MaxAgain
    /\ \E from \in {"queued", "refused", "lost", "missed"} : Goto(p, 1, from, "asking", MaxDelay)
    /\ again' = again + 1
    /\ UNCHANGED <<every, now, key, queued, failed>>

Down(n) == IF n > 0 THEN n - 1 ELSE 0

Settled(k) == \A p \in Processes : stage[p][k] \notin InFlight \cup {"waiting"}

(* Variant: the key does not expire. *)
EternalTick ==
    /\ \E k \in Turns : ~Settled(k)
    /\ \A p \in Processes, k \in Turns :
          /\ stage[p][k] = "waiting" => now < Due(k) + MaxSkew
          /\ stage[p][k] \in InFlight => left[p][k] > 0
    /\ now' = now + 1
    /\ left' = [p \in Processes |-> [k \in 1 .. Occurrences |-> Down(left[p][k])]]
    /\ UNCHANGED <<every, key, stage, queued, failed, again>>

Tick ==
    /\ \E k \in Turns : ~Settled(k)
    /\ \A p \in Processes, k \in Turns :
          /\ stage[p][k] = "waiting" => now < Due(k) + MaxSkew
          /\ stage[p][k] \in InFlight => left[p][k] > 0
    /\ now' = now + 1
    /\ key' = Down(key)
    /\ left' = [p \in Processes |-> [k \in 1 .. Occurrences |-> Down(left[p][k])]]
    /\ UNCHANGED <<every, stage, queued, failed, again>>

Next ==
    \/ \E p \in Processes, k \in Turns :
          \/ Fire(p, k) \/ Ask(p, k) \/ Post(p, k)
          \/ AskFails(p, k) \/ PostFails(p, k) \/ Retry(p, k)
    \/ \E p \in Processes : Restart(p) \/ StartAgain(p)
    \/ Tick

Spec == Init /\ [][Next]_vars

-----------------------------------------------------------------------------
(* Every variable keeps its type. *)
TypeOK ==
    /\ every \in Intervals
    /\ now \in Nat
    /\ key \in 0 .. Ttl
    /\ stage \in [Processes -> [1 .. Occurrences -> Stages]]
    /\ left \in [Processes -> [1 .. Occurrences -> Nat]]
    /\ queued \in [1 .. Occurrences -> Nat]
    /\ failed \in [1 .. Occurrences -> 0 .. MaxFailures]
    /\ again \in 0 .. MaxAgain

(* "decide which one worker is allowed to schedule the job": an occurrence is
   queued once, and once more at most for each of its requests that failed and,
   if it is the only one, for each time the job was started after it. *)
OncePerFailure == \A k \in Turns : queued[k] <= 1 + failed[k] + again

(* When the last request of an occurrence for the key arrives, at the latest:
   each one that failed makes room for a retry. *)
LastAsk(k) ==
    Due(k) + MaxSkew + MaxDelay + failed[k] * (2 * MaxDelay + RetryDelay)

(* The mutex loses no occurrence: if a process was there, the job is queued,
   unless a request failed for this occurrence, or the last request of an earlier
   one could be so late that its key lasts into this one: because the interval
   leaves no room for the key of a process that was late, or because it was
   retried again and again. *)
KeyOfEarlier(k) == \E j \in 1 .. k - 1 : LastAsk(j) + Ttl > Due(k)

QueuedUnlessFailed ==
    \A k \in Turns :
        Settled(k) =>
            \/ queued[k] > 0
            \/ failed[k] > 0
            \/ KeyOfEarlier(k)
            \/ \A p \in Processes : stage[p][k] = "missed"

=============================================================================
