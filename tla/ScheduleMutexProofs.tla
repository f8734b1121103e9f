------------------------- MODULE ScheduleMutexProofs -------------------------
(***************************************************************************)
(* Proofs about ScheduleMutex: the key of a scheduled job lets one process *)
(* queue an occurrence, and loses none, for any number of processes and    *)
(* occurrences, any interval, and any failures.                            *)
(***************************************************************************)
EXTENDS ScheduleMutex, FiniteSetTheorems, TLAPS

(* An attempt is where it is in its time, and tells of its failures.  A job that
   runs once may be started again at any time. *)
InTime(p, k) ==
    /\ stage[p][k] = "waiting" => now <= Due(k) + MaxSkew
    /\ stage[p][k] # "waiting" => now >= Due(k)
    /\ every > 0 =>
          /\ stage[p][k] = "asking" => now + left[p][k] <= LastAsk(k)
          /\ stage[p][k] = "posting" => now + left[p][k] <= LastAsk(k) + MaxDelay
          /\ stage[p][k] = "retrying" => now + left[p][k] + MaxDelay <= LastAsk(k)
    /\ stage[p][k] \in {"retrying", "lost"} => failed[k] > 0
    /\ stage[p][k] = "queued" => queued[k] > 0

AttemptsInTime == \A p \in Processes, k \in Turns : InTime(p, k)

(* Somebody got the key for the occurrence, or a request failed. *)
Tried(k) ==
    \/ queued[k] > 0
    \/ failed[k] > 0
    \/ \E p \in Processes : stage[p][k] = "posting"

(* A key was stored for one of the occurrences, no later than by its last request. *)
OwnedBy(k) ==
    /\ Due(k) <= now
    /\ every > 0 => now + key <= LastAsk(k) + Ttl
    /\ Tried(k)

KeyOwned == key > 0 => \E k \in Turns : OwnedBy(k)

RefusedForKey ==
    \A p \in Processes, k \in Turns :
        stage[p][k] = "refused" => Tried(k) \/ KeyOfEarlier(k)

(* The attempts that may queue the occurrence or will ask again for the right to,
   after the time at which a process asks that had no failure. *)
Late(p, k) == now + left[p][k] > Due(k) + MaxSkew + MaxDelay

Contenders(k) ==
    { p \in Processes : \/ stage[p][k] \in {"posting", "retrying"}
                        \/ stage[p][k] = "asking" /\ Late(p, k) }

(* What may make up for the job being queued once more. *)
Faults(k) == failed[k] + again

(* Each of them, and each time the job was queued, is the fault of a failure or of
   a start after the time, but for one: and that one came with a key that outlasts
   all first requests. *)
Count(k) == queued[k] + Cardinality(Contenders(k))

ContendersCounted ==
    \A k \in Turns :
        /\ Count(k) <= Faults(k) + 1
        /\ Count(k) <= Faults(k) \/ now + key >= Due(k) + Ttl

MInv ==
    /\ TypeOK /\ AttemptsInTime
    /\ KeyOwned /\ RefusedForKey
    /\ ContendersCounted

-----------------------------------------------------------------------------
(***************************************************************************)
(* Arithmetic of the occurrences.                                          *)
(***************************************************************************)

LEMMA ConstantTypes ==
    /\ IsFiniteSet(Processes) /\ Processes # {}
    /\ Intervals \subseteq Nat
    /\ Occurrences \in Nat \ {0} /\ Ttl \in Nat \ {0} /\ RetryDelay \in Nat \ {0}
    /\ MaxSkew \in Nat /\ MaxDelay \in Nat /\ MaxFailures \in Nat /\ MaxAgain \in Nat
    /\ \A e \in Intervals : e > 0 => e > Ttl
    /\ MaxSkew + MaxDelay < Ttl
BY ScheduleMutexAssumption

LEMMA Products ==
    ASSUME NEW n \in Nat, NEW c \in Nat
    PROVE  /\ n * c \in Nat
           /\ n = 0 => n * c = 0
           /\ n # 0 => n * c >= c
           /\ (n + 1) * c = n * c + c
OBVIOUS

LEMMA TurnsTyped ==
    ASSUME TypeOK
    PROVE  every \in Nat /\ Turns \subseteq 1 .. Occurrences /\ Turns \subseteq Nat
BY ConstantTypes DEF TypeOK, Turns

LEMMA FirstTurn ==
    ASSUME TypeOK
    PROVE  1 \in Turns /\ (every = 0 => Turns = {1})
BY ConstantTypes DEF Turns

LEMMA DueType ==
    ASSUME TypeOK, NEW k \in 1 .. Occurrences
    PROVE  Due(k) \in Nat
BY ConstantTypes DEF TypeOK, Due

(* Two occurrences are an interval apart, longer than a key lasts. *)
LEMMA DueApart ==
    ASSUME TypeOK, NEW j \in Turns, NEW k \in Turns, j < k
    PROVE  /\ Due(j) + every <= Due(k)
           /\ every > Ttl
<1>0. every \in Nat /\ j \in Nat /\ k \in Nat
  BY TurnsTyped
<1>1. k - j \in Nat \ {0}
  BY <1>0
<1>2. every # 0
  BY DEF Turns
<1>3. (k - j) * every >= every
  BY <1>0, <1>1, Products
<1>4. (k - 1) * every = (j - 1) * every + (k - j) * every
  BY <1>0
<1>5. every > Ttl
  BY <1>0, <1>2, ConstantTypes DEF TypeOK
<1>6. Due(j) \in Nat /\ Due(k) \in Nat
  BY TurnsTyped, DueType
<1>7. (k - j) * every \in Nat
  BY <1>0, <1>1, Products
<1> DEFINE gap == (k - j) * every
<1>8. Due(k) = Due(j) + gap /\ gap \in Nat /\ gap >= every
  BY <1>3, <1>4, <1>7 DEF Due
<1> HIDE DEF gap
<1> QED
  BY <1>0, <1>5, <1>6, <1>8

LEMMA LastAskType ==
    ASSUME TypeOK, NEW k \in 1 .. Occurrences
    PROVE  /\ LastAsk(k) \in Nat
           /\ LastAsk(k) >= Due(k) + MaxSkew + MaxDelay
           /\ failed[k] = 0 => LastAsk(k) = Due(k) + MaxSkew + MaxDelay
<1> DEFINE room == failed[k] * (2 * MaxDelay + RetryDelay)
<1>0. failed[k] \in Nat /\ 2 * MaxDelay + RetryDelay \in Nat
  BY ConstantTypes DEF TypeOK
<1>1. room \in Nat /\ (failed[k] = 0 => room = 0)
  BY <1>0, Products
<1>2. LastAsk(k) = Due(k) + MaxSkew + MaxDelay + room
  BY DEF LastAsk
<1> HIDE DEF room
<1> QED
  BY <1>1, <1>2, DueType, ConstantTypes

(* A failure makes room for a retry. *)
LEMMA LastAskGrows ==
    ASSUME TypeOK, TypeOK', UNCHANGED every, NEW k \in 1 .. Occurrences
    PROVE  /\ Due(k)' = Due(k)
           /\ failed'[k] = failed[k] => LastAsk(k)' = LastAsk(k)
           /\ failed'[k] = failed[k] + 1 => LastAsk(k)' = LastAsk(k) + 2 * MaxDelay + RetryDelay
<1>1. Due(k)' = Due(k)
  BY DEF Due
<1>2. /\ LastAsk(k) = Due(k) + MaxSkew + MaxDelay + failed[k] * (2 * MaxDelay + RetryDelay)
      /\ LastAsk(k)' = Due(k) + MaxSkew + MaxDelay + failed'[k] * (2 * MaxDelay + RetryDelay)
  BY <1>1 DEF LastAsk
<1> DEFINE more == 2 * MaxDelay + RetryDelay
           room == failed[k] * more
           next == failed'[k] * more
<1>3. failed[k] \in Nat /\ more \in Nat
  BY ConstantTypes DEF TypeOK
<1>4. /\ room \in Nat
      /\ failed'[k] = failed[k] => next = room
      /\ failed'[k] = failed[k] + 1 => next = room + more
  BY <1>3, Products
<1>5. LastAsk(k) = Due(k) + MaxSkew + MaxDelay + room /\ LastAsk(k)' = Due(k) + MaxSkew + MaxDelay + next
  BY <1>2
<1>6. Due(k) \in Nat /\ MaxSkew \in Nat /\ MaxDelay \in Nat /\ RetryDelay \in Nat
  BY DueType, ConstantTypes
<1>7. /\ failed'[k] = failed[k] => LastAsk(k)' = LastAsk(k)
      /\ failed'[k] = failed[k] + 1 => LastAsk(k)' = LastAsk(k) + more
  <2> HIDE DEF room, next, more
  <2> QED
    BY <1>3, <1>4, <1>5, <1>6
<1> QED
  BY <1>1, <1>6, <1>7, LastAskType

-----------------------------------------------------------------------------
(***************************************************************************)
(* What a step does.                                                       *)
(***************************************************************************)

LEMMA GotoTyped ==
    ASSUME TypeOK, NEW p \in Processes, NEW k \in Turns,
           NEW from, NEW to \in Stages, NEW ticks \in Nat, Goto(p, k, from, to, ticks)
    PROVE  /\ stage' \in [Processes -> [1 .. Occurrences -> Stages]]
           /\ left' \in [Processes -> [1 .. Occurrences -> Nat]]
BY TurnsTyped DEF TypeOK, Goto

LEMMA GotoMoves ==
    ASSUME TypeOK, NEW p \in Processes, NEW k \in Turns,
           NEW from, NEW to, NEW ticks, Goto(p, k, from, to, ticks)
    PROVE  /\ stage[p][k] = from /\ stage'[p][k] = to /\ left'[p][k] = ticks
           /\ \A q \in Processes, j \in Turns :
                 q # p \/ j # k => stage'[q][j] = stage[q][j] /\ left'[q][j] = left[q][j]
BY TurnsTyped DEF TypeOK, Goto

LEMMA FailTyped ==
    ASSUME TypeOK, NEW p \in Processes, NEW k \in Turns, NEW from, Fail(p, k, from)
    PROVE  /\ stage' \in [Processes -> [1 .. Occurrences -> Stages]]
           /\ left' \in [Processes -> [1 .. Occurrences -> Nat]]
           /\ failed' \in [1 .. Occurrences -> 0 .. MaxFailures]
<1>1. RetryDelay \in Nat /\ 0 \in Nat /\ "retrying" \in Stages /\ "lost" \in Stages
  BY ConstantTypes DEF Stages
<1>2. \/ Goto(p, k, from, "retrying", RetryDelay)
      \/ Goto(p, k, from, "lost", 0)
  BY DEF Fail
<1>3. failed' \in [1 .. Occurrences -> 0 .. MaxFailures]
  <2>1. MaxFailures \in Nat /\ k \in 1 .. Occurrences
    BY TurnsTyped, ConstantTypes
  <2>2. failed[k] \in 0 .. MaxFailures /\ failed[k] < MaxFailures
    BY <2>1 DEF TypeOK, Fail
  <2>3. failed[k] + 1 \in 0 .. MaxFailures
    BY <2>1, <2>2
  <2> QED
    BY <2>1, <2>3 DEF TypeOK, Fail
<1> QED
  BY <1>1, <1>2, <1>3, GotoTyped

(* A failure is counted, and sends the attempt to be retried or ends it. *)
LEMMA FailMoves ==
    ASSUME TypeOK, NEW p \in Processes, NEW k \in Turns, NEW from, Fail(p, k, from)
    PROVE  /\ stage[p][k] = from
           /\ \/ stage'[p][k] = "retrying" /\ left'[p][k] = RetryDelay
              \/ stage'[p][k] = "lost" /\ left'[p][k] = 0
           /\ \A q \in Processes, j \in Turns :
                 q # p \/ j # k => stage'[q][j] = stage[q][j] /\ left'[q][j] = left[q][j]
           /\ failed'[k] = failed[k] + 1
           /\ \A j \in 1 .. Occurrences : j # k => failed'[j] = failed[j]
           /\ every' = every /\ now' = now /\ again' = again
<1>1. \/ Goto(p, k, from, "retrying", RetryDelay)
      \/ Goto(p, k, from, "lost", 0)
  BY DEF Fail
<1>2. /\ failed'[k] = failed[k] + 1
      /\ \A j \in 1 .. Occurrences : j # k => failed'[j] = failed[j]
      /\ every' = every /\ now' = now /\ again' = again
  BY TurnsTyped DEF TypeOK, Fail
<1> QED
  BY <1>1, <1>2, GotoMoves

LEMMA TypesStep ==
    ASSUME TypeOK, [Next]_vars
    PROVE  TypeOK'
<1>1. ASSUME NEW p \in Processes, NEW k \in Turns, Fire(p, k)
      PROVE  TypeOK'
  BY <1>1, GotoTyped, ConstantTypes DEF Fire, TypeOK, Stages
<1>2. ASSUME NEW p \in Processes, NEW k \in Turns, Ask(p, k)
      PROVE  TypeOK'
  <2>1. key' \in 0 .. Ttl
    BY <1>2, ConstantTypes DEF Ask, TypeOK
  <2>2. \/ Goto(p, k, "asking", "posting", MaxDelay)
        \/ Goto(p, k, "asking", "refused", 0)
    BY <1>2 DEF Ask
  <2>3. MaxDelay \in Nat /\ "posting" \in Stages /\ "refused" \in Stages
    BY ConstantTypes DEF Stages
  <2> QED
    BY <1>2, <2>1, <2>2, <2>3, GotoTyped DEF Ask, TypeOK
<1>3. ASSUME NEW p \in Processes, NEW k \in Turns, Post(p, k)
      PROVE  TypeOK'
  <2>1. queued' \in [1 .. Occurrences -> Nat]
    BY <1>3, TurnsTyped DEF Post, TypeOK
  <2> QED
    BY <1>3, <2>1, GotoTyped DEF Post, TypeOK, Stages
<1>4. ASSUME NEW p \in Processes, NEW k \in Turns, AskFails(p, k)
      PROVE  TypeOK'
  <2>1. key' \in 0 .. Ttl
    BY <1>4, ConstantTypes DEF AskFails, TypeOK
  <2> QED
    BY <1>4, <2>1, FailTyped, FailMoves DEF AskFails, TypeOK
<1>5. ASSUME NEW p \in Processes, NEW k \in Turns, PostFails(p, k)
      PROVE  TypeOK'
  <2>1. queued' \in [1 .. Occurrences -> Nat]
    BY <1>5, TurnsTyped DEF PostFails, TypeOK
  <2> QED
    BY <1>5, <2>1, FailTyped, FailMoves DEF PostFails, TypeOK
<1>6. ASSUME NEW p \in Processes, NEW k \in Turns, Retry(p, k)
      PROVE  TypeOK'
  BY <1>6, GotoTyped, ConstantTypes DEF Retry, TypeOK, Stages
<1>7. ASSUME NEW p \in Processes, Restart(p)
      PROVE  TypeOK'
  <2> DEFINE cut == { k \in Turns : stage[p][k] \in InFlight }
  <2>1. failed' \in [1 .. Occurrences -> 0 .. MaxFailures]
    <3>1. \A k \in cut : failed[k] < MaxFailures
      BY <1>7 DEF Restart
    <3>2. failed' = [k \in 1 .. Occurrences |-> IF k \in cut THEN failed[k] + 1 ELSE failed[k]]
      BY <1>7 DEF Restart
    <3> HIDE DEF cut
    <3>3. ASSUME NEW k \in 1 .. Occurrences
          PROVE  (IF k \in cut THEN failed[k] + 1 ELSE failed[k]) \in 0 .. MaxFailures
      <4>1. failed[k] \in 0 .. MaxFailures /\ MaxFailures \in Nat
        BY ConstantTypes DEF TypeOK
      <4> QED
        BY <3>1, <4>1
    <3> QED
      BY <3>2, <3>3
  <2>2. stage' \in [Processes -> [1 .. Occurrences -> Stages]]
    BY <1>7 DEF Restart, TypeOK, Stages
  <2>3. left' \in [Processes -> [1 .. Occurrences -> Nat]]
    BY <1>7 DEF Restart, TypeOK
  <2>4. queued' \in [1 .. Occurrences -> Nat]
    <3>1. PICK stored : queued' = [k \in 1 .. Occurrences |->
                                     IF k \in stored THEN queued[k] + 1 ELSE queued[k]]
      BY <1>7 DEF Restart
    <3>2. \A k \in 1 .. Occurrences :
             (IF k \in stored THEN queued[k] + 1 ELSE queued[k]) \in Nat
      BY DEF TypeOK
    <3> QED
      BY <3>1, <3>2
  <2>5. key' \in 0 .. Ttl
    BY <1>7, ConstantTypes DEF Restart, TypeOK
  <2>6. every' = every /\ now' = now /\ again' = again
    BY <1>7 DEF Restart
  <2> QED
    BY <2>1, <2>2, <2>3, <2>4, <2>5, <2>6 DEF TypeOK
<1>7a. ASSUME NEW p \in Processes, StartAgain(p)
       PROVE  TypeOK'
  <2>1. /\ stage' \in [Processes -> [1 .. Occurrences -> Stages]]
        /\ left' \in [Processes -> [1 .. Occurrences -> Nat]]
    <3>1. PICK from : Goto(p, 1, from, "asking", MaxDelay)
      BY <1>7a DEF StartAgain
    <3>2. 1 \in Turns /\ MaxDelay \in Nat /\ "asking" \in Stages
      BY FirstTurn, ConstantTypes DEF Stages
    <3> QED
      BY <3>1, <3>2, GotoTyped
  <2>2. again' \in 0 .. MaxAgain
    BY <1>7a, ConstantTypes DEF StartAgain, TypeOK
  <2> QED
    BY <1>7a, <2>1, <2>2 DEF StartAgain, TypeOK
<1>8. ASSUME Tick
      PROVE  TypeOK'
  <2>1. left' \in [Processes -> [1 .. Occurrences -> Nat]]
    <3>1. left' = [p \in Processes |-> [k \in 1 .. Occurrences |-> Down(left[p][k])]]
      BY <1>8 DEF Tick
    <3>2. ASSUME NEW p \in Processes, NEW k \in 1 .. Occurrences
          PROVE  Down(left[p][k]) \in Nat
      <4>1. left[p][k] \in Nat
        BY DEF TypeOK
      <4> QED
        BY <4>1 DEF Down
    <3> QED
      BY <3>1, <3>2
  <2>2. key' \in 0 .. Ttl
    BY <1>8, ConstantTypes DEF Tick, TypeOK, Down
  <2> QED
    BY <1>8, <2>1, <2>2 DEF Tick, TypeOK
<1>9. CASE UNCHANGED vars
  BY <1>9 DEF vars, TypeOK
<1> QED
  BY <1>1, <1>2, <1>3, <1>4, <1>5, <1>6, <1>7, <1>7a, <1>8, <1>9 DEF Next

(* Restart() ends what is in flight as a failure, and misses what is due. *)
LEMMA RestartMoves ==
    ASSUME TypeOK, NEW p \in Processes, Restart(p)
    PROVE  /\ \A q \in Processes, j \in Turns :
                 q # p => stage'[q][j] = stage[q][j] /\ left'[q][j] = left[q][j]
           /\ \A j \in Turns :
                 \/ /\ stage[p][j] \in InFlight /\ stage'[p][j] = "lost"
                    /\ left'[p][j] = 0 /\ failed'[j] = failed[j] + 1
                 \/ /\ stage[p][j] = "waiting" /\ Due(j) <= now /\ stage'[p][j] = "missed"
                    /\ left'[p][j] = left[p][j] /\ failed'[j] = failed[j]
                 \/ /\ stage[p][j] \notin InFlight /\ stage'[p][j] = stage[p][j]
                    /\ left'[p][j] = left[p][j] /\ failed'[j] = failed[j]
           /\ \A j \in Turns :
                 \/ queued'[j] = queued[j]
                 \/ /\ queued'[j] = queued[j] + 1 /\ failed'[j] = failed[j] + 1
                    /\ stage[p][j] = "posting"
           /\ UNCHANGED <<every, now, again>>
<1>1. UNCHANGED <<every, now, again>>
  BY DEF Restart
<1>2. \A q \in Processes, j \in Turns :
         q # p => stage'[q][j] = stage[q][j] /\ left'[q][j] = left[q][j]
  BY DEF Restart, TypeOK
<1>3. ASSUME NEW j \in Turns
      PROVE  \/ /\ stage[p][j] \in InFlight /\ stage'[p][j] = "lost"
                /\ left'[p][j] = 0 /\ failed'[j] = failed[j] + 1
             \/ /\ stage[p][j] = "waiting" /\ Due(j) <= now /\ stage'[p][j] = "missed"
                /\ left'[p][j] = left[p][j] /\ failed'[j] = failed[j]
             \/ /\ stage[p][j] \notin InFlight /\ stage'[p][j] = stage[p][j]
                /\ left'[p][j] = left[p][j] /\ failed'[j] = failed[j]
  BY TurnsTyped DEF Restart, TypeOK, InFlight
<1>4. ASSUME NEW j \in Turns
      PROVE  \/ queued'[j] = queued[j]
             \/ /\ queued'[j] = queued[j] + 1 /\ failed'[j] = failed[j] + 1
                /\ stage[p][j] = "posting"
  <2>1. PICK stored \in SUBSET { k \in Turns : stage[p][k] = "posting" } :
            queued' = [k \in 1 .. Occurrences |->
                          IF k \in stored THEN queued[k] + 1 ELSE queued[k]]
    BY DEF Restart, InFlight
  <2>2. queued'[j] = IF j \in stored THEN queued[j] + 1 ELSE queued[j]
    BY <2>1, TurnsTyped
  <2> QED
    BY <1>3, <2>1, <2>2 DEF InFlight
<1> QED
  BY <1>1, <1>2, <1>3, <1>4

(* What a cut request may have left. *)
LEMMA RestartKey ==
    ASSUME TypeOK, NEW p \in Processes, Restart(p)
    PROVE  \/ key' = key
           \/ /\ key = 0 /\ key' = Ttl
              /\ \E j \in Turns : stage[p][j] = "asking" /\ failed'[j] = failed[j] + 1
<1>1. ASSUME NEW j \in Turns, stage[p][j] = "asking"
      PROVE  failed'[j] = failed[j] + 1
  BY <1>1, RestartMoves DEF InFlight
<1> QED
  BY <1>1 DEF Restart, InFlight

(* A job that runs once asks again. *)
LEMMA StartAgainMoves ==
    ASSUME TypeOK, NEW p \in Processes, StartAgain(p)
    PROVE  /\ every = 0 /\ 1 \in Turns /\ Turns = {1}
           /\ stage[p][1] \in {"queued", "refused", "lost", "missed"}
           /\ stage'[p][1] = "asking" /\ left'[p][1] = MaxDelay
           /\ \A q \in Processes, j \in Turns :
                 q # p \/ j # 1 => stage'[q][j] = stage[q][j] /\ left'[q][j] = left[q][j]
           /\ again' = again + 1
           /\ UNCHANGED <<every, now, key, queued, failed>>
<1>1. every = 0 /\ 1 \in Turns /\ Turns = {1}
  BY FirstTurn DEF StartAgain
<1>2. PICK from \in {"queued", "refused", "lost", "missed"} :
          Goto(p, 1, from, "asking", MaxDelay)
  BY DEF StartAgain
<1> QED
  BY <1>1, <1>2, GotoMoves DEF StartAgain

(* Time only passes for attempts that have some left. *)
LEMMA TickMoves ==
    ASSUME TypeOK, Tick
    PROVE  /\ \A q \in Processes, j \in Turns :
                 /\ stage'[q][j] = stage[q][j]
                 /\ stage[q][j] = "waiting" => now < Due(j) + MaxSkew
                 /\ stage[q][j] \in InFlight => left'[q][j] + 1 = left[q][j]
           /\ now' = now + 1
           /\ key' = IF key > 0 THEN key - 1 ELSE 0
           /\ UNCHANGED <<every, stage, queued, failed, again>>
<1>1. /\ now' = now + 1 /\ key' = IF key > 0 THEN key - 1 ELSE 0
      /\ UNCHANGED <<every, stage, queued, failed, again>>
  BY DEF Tick, Down
<1>2. ASSUME NEW q \in Processes, NEW j \in Turns, stage[q][j] \in InFlight
      PROVE  left'[q][j] + 1 = left[q][j]
  <2>1. left[q][j] \in Nat /\ left[q][j] > 0
    BY <1>2, TurnsTyped DEF Tick, TypeOK
  <2>2. left'[q][j] = Down(left[q][j])
    BY <1>2, TurnsTyped DEF Tick
  <2> QED
    BY <2>1, <2>2 DEF Down
<1>3. \A q \in Processes, j \in Turns : stage[q][j] = "waiting" => now < Due(j) + MaxSkew
  BY DEF Tick
<1> QED
  BY <1>1, <1>2, <1>3

(* No count goes down, and with them the time for the last request. *)
Grows(k) ==
    /\ Due(k)' = Due(k)
    /\ queued'[k] >= queued[k] /\ failed'[k] >= failed[k] /\ again' >= again
    /\ failed'[k] = failed[k] => LastAsk(k)' = LastAsk(k)
    /\ failed'[k] = failed[k] + 1 => LastAsk(k)' = LastAsk(k) + 2 * MaxDelay + RetryDelay
    /\ LastAsk(k)' >= LastAsk(k)
    /\ LastAsk(k)' \in Nat

LEMMA StepGrows ==
    ASSUME TypeOK, TypeOK', [Next]_vars
    PROVE  /\ every' = every /\ Turns' = Turns
           /\ now' >= now /\ now' + key' >= now + key
           /\ \A k \in Turns : Grows(k)
<1>1. /\ every' = every
      /\ \A k \in Turns : queued'[k] >= queued[k]
      /\ \A k \in Turns : failed'[k] = failed[k] \/ failed'[k] = failed[k] + 1
      /\ again' >= again
  <2>0. /\ \A k \in Turns : queued[k] \in Nat /\ failed[k] \in Nat
        /\ \A k \in Turns : k \in 1 .. Occurrences
        /\ again \in Nat
    <3>1. again \in 0 .. MaxAgain /\ MaxAgain \in Nat
      BY ConstantTypes DEF TypeOK
    <3>2. again \in Nat
      BY <3>1
    <3> QED
      BY <3>2, TurnsTyped DEF TypeOK
  <2>1. ASSUME NEW p \in Processes, NEW k \in Turns,
               Fire(p, k) \/ Ask(p, k) \/ Retry(p, k)
        PROVE  UNCHANGED <<every, queued, failed, again>>
    BY <2>1 DEF Fire, Ask, Retry
  <2>2. ASSUME NEW p \in Processes, NEW k \in Turns, Post(p, k)
        PROVE  /\ every' = every /\ failed' = failed /\ again' = again
               /\ \A j \in Turns : queued'[j] >= queued[j]
    BY <2>0, <2>2 DEF Post, TypeOK
  <2>3. ASSUME NEW p \in Processes, NEW k \in Turns, AskFails(p, k)
        PROVE  <1>1
    BY <2>0, <2>3, FailMoves DEF AskFails
  <2>4. ASSUME NEW p \in Processes, NEW k \in Turns, PostFails(p, k)
        PROVE  <1>1
    <3>1. Fail(p, k, "posting") /\ (queued' = queued \/ queued' = [queued EXCEPT ![k] = @ + 1])
      BY <2>4 DEF PostFails
    <3>2. ASSUME NEW j \in Turns
          PROVE  queued'[j] >= queued[j]
      <4>1. queued \in [1 .. Occurrences -> Nat]
        BY DEF TypeOK
      <4>2. k \in 1 .. Occurrences /\ j \in 1 .. Occurrences
        BY <2>0
      <4>3. queued[j] \in Nat
        BY <4>1, <4>2
      <4>4. CASE queued' = queued
        BY <4>3, <4>4
      <4>5. CASE queued' = [queued EXCEPT ![k] = @ + 1]
        BY <4>1, <4>2, <4>3, <4>5
      <4> QED
        BY <3>1, <4>4, <4>5
    <3> QED
      BY <2>0, <3>1, <3>2, FailMoves
  <2>5. ASSUME NEW p \in Processes, Restart(p)
        PROVE  <1>1
    BY <2>0, <2>5, RestartMoves
  <2>5a. ASSUME NEW p \in Processes, StartAgain(p)
         PROVE  <1>1
    BY <2>0, <2>5a, StartAgainMoves
  <2>6. ASSUME Tick
        PROVE  <1>1
    BY <2>0, <2>6 DEF Tick
  <2>7. CASE UNCHANGED vars
    BY <2>0, <2>7 DEF vars
  <2> QED
    BY <2>0, <2>1, <2>2, <2>3, <2>4, <2>5, <2>5a, <2>6, <2>7 DEF Next
<1>2. now' >= now /\ now' + key' >= now + key
  <2>0. now \in Nat /\ key \in 0 .. Ttl /\ Ttl \in Nat
    BY ConstantTypes DEF TypeOK
  <2>1. CASE now' = now /\ (key' = key \/ (key = 0 /\ key' = Ttl))
    BY <2>0, <2>1
  <2>2. CASE Tick
    BY <2>0, <2>2, TickMoves
  <2>3. ASSUME NEW p \in Processes, NEW k \in Turns,
               \/ Fire(p, k) \/ Ask(p, k) \/ Post(p, k)
               \/ AskFails(p, k) \/ PostFails(p, k) \/ Retry(p, k)
        PROVE  now' = now /\ (key' = key \/ (key = 0 /\ key' = Ttl))
    BY <2>3 DEF Fire, Ask, Post, AskFails, PostFails, Fail, Retry
  <2>4. ASSUME NEW p \in Processes, Restart(p)
        PROVE  now' = now /\ (key' = key \/ (key = 0 /\ key' = Ttl))
    BY <2>4 DEF Restart
  <2>4a. ASSUME NEW p \in Processes, StartAgain(p)
         PROVE  now' = now /\ key' = key
    BY <2>4a DEF StartAgain
  <2>5. CASE UNCHANGED vars
    BY <2>1, <2>5 DEF vars
  <2> QED
    BY <2>1, <2>2, <2>3, <2>4, <2>4a, <2>5 DEF Next
<1>3. ASSUME NEW k \in Turns
      PROVE  Grows(k)
  <2>1. k \in 1 .. Occurrences /\ queued[k] \in Nat /\ failed[k] \in Nat
    BY TurnsTyped DEF TypeOK
  <2>2. /\ LastAsk(k) \in Nat /\ MaxDelay \in Nat /\ RetryDelay \in Nat
    BY <2>1, LastAskType, ConstantTypes
  <2>3. /\ Due(k)' = Due(k)
        /\ failed'[k] = failed[k] => LastAsk(k)' = LastAsk(k)
        /\ failed'[k] = failed[k] + 1 => LastAsk(k)' = LastAsk(k) + 2 * MaxDelay + RetryDelay
    BY <1>1, <2>1, LastAskGrows
  <2> QED
    BY <1>1, <2>1, <2>2, <2>3 DEF Grows
<1> QED
  BY <1>1, <1>2, <1>3 DEF Turns

-----------------------------------------------------------------------------
(***************************************************************************)
(* The times of the attempts.                                              *)
(***************************************************************************)

(* An attempt that does not move stays in its time while others move. *)
LEMMA InTimeKept ==
    ASSUME TypeOK, TypeOK', NEW p \in Processes, NEW k \in Turns, InTime(p, k), Grows(k),
           now' = now, every' = every,
           stage'[p][k] = stage[p][k], left'[p][k] = left[p][k]
    PROVE  InTime(p, k)'
<1>1. /\ now \in Nat /\ left[p][k] \in Nat /\ Due(k) \in Nat /\ LastAsk(k) \in Nat
      /\ LastAsk(k)' \in Nat /\ failed[k] \in Nat /\ failed'[k] \in Nat
      /\ queued[k] \in Nat /\ queued'[k] \in Nat
      /\ MaxDelay \in Nat /\ MaxSkew \in Nat
  <2>1. k \in 1 .. Occurrences
    BY TurnsTyped
  <2>2. LastAsk(k) \in Nat /\ LastAsk(k)' \in Nat
    BY <2>1, LastAskType DEF Grows
  <2>3. /\ now \in Nat /\ left[p][k] \in Nat
        /\ failed[k] \in Nat /\ failed'[k] \in Nat
        /\ queued[k] \in Nat /\ queued'[k] \in Nat
    BY <2>1, ConstantTypes DEF TypeOK
  <2> QED
    BY <2>1, <2>2, <2>3, DueType, ConstantTypes
<1> QED
  BY <1>1 DEF InTime, Grows

LEMMA AttemptsStep ==
    ASSUME TypeOK, TypeOK', AttemptsInTime, [Next]_vars
    PROVE  AttemptsInTime'
<1>0. /\ Turns' = Turns /\ every' = every
      /\ \A j \in Turns : Grows(j)
  BY StepGrows
<1>00. \A q \in Processes, j \in Turns :
         /\ now \in Nat /\ left[q][j] \in Nat /\ Due(j) \in Nat /\ LastAsk(j) \in Nat
         /\ failed[j] \in Nat /\ queued[j] \in Nat
         /\ failed'[j] \in Nat /\ queued'[j] \in Nat
         /\ MaxDelay \in Nat /\ MaxSkew \in Nat /\ RetryDelay \in Nat
         /\ LastAsk(j) >= Due(j) + MaxSkew + MaxDelay
  <2>1. \A j \in Turns : j \in 1 .. Occurrences
    BY TurnsTyped
  <2>2. ASSUME NEW q \in Processes, NEW j \in Turns
        PROVE  /\ now \in Nat /\ left[q][j] \in Nat
               /\ failed[j] \in Nat /\ queued[j] \in Nat
               /\ failed'[j] \in Nat /\ queued'[j] \in Nat
    <3>1. j \in 1 .. Occurrences /\ MaxFailures \in Nat
      BY <2>1, ConstantTypes
    <3>2. failed[j] \in 0 .. MaxFailures /\ failed'[j] \in 0 .. MaxFailures
      BY <3>1 DEF TypeOK
    <3>3. now \in Nat /\ left[q][j] \in Nat /\ queued[j] \in Nat /\ queued'[j] \in Nat
      BY <3>1 DEF TypeOK
    <3> QED
      BY <3>1, <3>2, <3>3
  <2> QED
    BY <2>1, <2>2, LastAskType, DueType, ConstantTypes
<1>000. \A q \in Processes, j \in Turns :
           now' = now /\ stage'[q][j] = stage[q][j] /\ left'[q][j] = left[q][j] => InTime(q, j)'
  BY <1>0, InTimeKept DEF AttemptsInTime
<1> DEFINE Others(p, k) ==
               \A q \in Processes, j \in Turns :
                  q # p \/ j # k => stage'[q][j] = stage[q][j] /\ left'[q][j] = left[q][j]
<1>1. ASSUME NEW p \in Processes, NEW k \in Turns, Fire(p, k)
      PROVE  AttemptsInTime'
  <2>1. /\ stage[p][k] = "waiting" /\ stage'[p][k] = "asking" /\ left'[p][k] = MaxDelay
        /\ Others(p, k) /\ now' = now /\ now >= Due(k)
    BY <1>1, GotoMoves DEF Fire
  <2>2. InTime(p, k)'
    BY <1>0, <1>00, <2>1 DEF AttemptsInTime, InTime, Grows
  <2> QED
    BY <1>0, <1>000, <2>1, <2>2 DEF AttemptsInTime
<1>2. ASSUME NEW p \in Processes, NEW k \in Turns, Ask(p, k)
      PROVE  AttemptsInTime'
  <2>1. /\ stage[p][k] = "asking"
        /\ \/ stage'[p][k] = "posting" /\ left'[p][k] = MaxDelay
           \/ stage'[p][k] = "refused" /\ left'[p][k] = 0
        /\ Others(p, k) /\ now' = now
    BY <1>2, GotoMoves DEF Ask
  <2>2. InTime(p, k)'
    BY <1>0, <1>00, <2>1 DEF AttemptsInTime, InTime, Grows
  <2> QED
    BY <1>0, <1>000, <2>1, <2>2 DEF AttemptsInTime
<1>3. ASSUME NEW p \in Processes, NEW k \in Turns, Post(p, k)
      PROVE  AttemptsInTime'
  <2>1. /\ stage[p][k] = "posting" /\ stage'[p][k] = "queued" /\ left'[p][k] = 0
        /\ Others(p, k) /\ now' = now
    BY <1>3, GotoMoves DEF Post
  <2>2. queued'[k] > 0
    BY <1>00, <1>3, TurnsTyped DEF Post, TypeOK
  <2>3. InTime(p, k)'
    BY <1>0, <1>00, <2>1, <2>2 DEF AttemptsInTime, InTime, Grows
  <2> QED
    BY <1>0, <1>000, <2>1, <2>3 DEF AttemptsInTime
<1>4. ASSUME NEW p \in Processes, NEW k \in Turns, NEW from \in {"asking", "posting"},
             Fail(p, k, from)
      PROVE  AttemptsInTime'
  <2>1. /\ stage[p][k] = from
        /\ \/ stage'[p][k] = "retrying" /\ left'[p][k] = RetryDelay
           \/ stage'[p][k] = "lost" /\ left'[p][k] = 0
        /\ Others(p, k) /\ now' = now
        /\ failed'[k] = failed[k] + 1
    BY <1>4, FailMoves
  <2>1a. /\ InTime(p, k) /\ Due(k)' = Due(k) /\ every' = every
         /\ LastAsk(k)' = LastAsk(k) + 2 * MaxDelay + RetryDelay
    BY <1>0, <2>1 DEF AttemptsInTime, Grows
  <2>1b. stage'[p][k] = "retrying" /\ every > 0 => now' + left'[p][k] + MaxDelay <= LastAsk(k)'
    <3>1. CASE stage'[p][k] = "retrying" /\ every > 0
      <4>1. left'[p][k] = RetryDelay
        BY <2>1, <3>1
      <4>2. now <= LastAsk(k) + MaxDelay
        BY <1>00, <2>1, <2>1a, <3>1 DEF InTime
      <4> QED
        BY <1>00, <2>1, <2>1a, <4>1, <4>2
    <3> QED
      BY <3>1
  <2>1c. now' >= Due(k)' /\ failed'[k] > 0
    BY <1>00, <2>1, <2>1a DEF InTime
  <2>2. InTime(p, k)'
    BY <2>1, <2>1a, <2>1b, <2>1c DEF InTime
  <2> QED
    BY <1>0, <1>000, <2>1, <2>2 DEF AttemptsInTime
<1>5. ASSUME NEW p \in Processes, NEW k \in Turns, Retry(p, k)
      PROVE  AttemptsInTime'
  <2>1. /\ stage[p][k] = "retrying" /\ stage'[p][k] = "asking"
        /\ left[p][k] = 0 /\ left'[p][k] = MaxDelay
        /\ Others(p, k) /\ now' = now
    BY <1>5, GotoMoves DEF Retry
  <2>2. InTime(p, k)'
    BY <1>0, <1>00, <2>1 DEF AttemptsInTime, InTime, Grows
  <2> QED
    BY <1>0, <1>000, <2>1, <2>2 DEF AttemptsInTime
<1>6. ASSUME NEW p \in Processes, Restart(p)
      PROVE  AttemptsInTime'
  <2>1. ASSUME NEW j \in Turns
        PROVE  InTime(p, j)'
    BY <1>0, <1>00, <1>000, <1>6, RestartMoves DEF AttemptsInTime, InTime, Grows, InFlight
  <2> QED
    BY <1>0, <1>000, <1>6, <2>1, RestartMoves DEF AttemptsInTime
<1>6a. ASSUME NEW p \in Processes, StartAgain(p)
       PROVE  AttemptsInTime'
  <2>1. /\ every = 0 /\ Turns = {1} /\ stage[p][1] # "waiting" /\ stage'[p][1] = "asking"
        /\ Others(p, 1) /\ now' = now
    BY <1>6a, StartAgainMoves
  <2>2. InTime(p, 1)'
    BY <1>0, <1>00, <2>1 DEF AttemptsInTime, InTime, Grows
  <2> QED
    BY <1>0, <1>000, <2>1, <2>2 DEF AttemptsInTime
<1>7. ASSUME Tick
      PROVE  AttemptsInTime'
  <2>1. ASSUME NEW q \in Processes, NEW j \in Turns
        PROVE  InTime(q, j)'
    <3>1. /\ stage'[q][j] = stage[q][j]
          /\ stage[q][j] = "waiting" => now < Due(j) + MaxSkew
          /\ stage[q][j] \in InFlight => left'[q][j] + 1 = left[q][j]
          /\ now' = now + 1 /\ failed' = failed /\ queued' = queued
          /\ every' = every
      BY <1>7, TickMoves
    <3>2. left'[q][j] \in Nat
      <4>1. j \in 1 .. Occurrences
        BY TurnsTyped
      <4>2. left' \in [Processes -> [1 .. Occurrences -> Nat]]
        BY DEF TypeOK
      <4> QED
        BY <4>1, <4>2
    <3>3. InTime(q, j) /\ Grows(j)
      BY <1>0 DEF AttemptsInTime
    <3>4. Due(j)' = Due(j) /\ LastAsk(j)' = LastAsk(j)
      BY <3>1, <3>3 DEF Grows
    <3>5. /\ stage'[q][j] = "waiting" => now' <= Due(j)' + MaxSkew
          /\ stage'[q][j] # "waiting" => now' >= Due(j)'
      BY <1>00, <3>1, <3>3, <3>4 DEF InTime
    <3>6. stage[q][j] \in InFlight => now' + left'[q][j] = now + left[q][j]
      BY <1>00, <3>1, <3>2
    <3>7. every' > 0 =>
             /\ stage'[q][j] = "asking" => now' + left'[q][j] <= LastAsk(j)'
             /\ stage'[q][j] = "posting" => now' + left'[q][j] <= LastAsk(j)' + MaxDelay
             /\ stage'[q][j] = "retrying" => now' + left'[q][j] + MaxDelay <= LastAsk(j)'
      BY <3>1, <3>3, <3>4, <3>6 DEF InTime, InFlight
    <3> QED
      BY <3>1, <3>3, <3>5, <3>7 DEF InTime
  <2> QED
    BY <1>0, <2>1 DEF AttemptsInTime
<1>8. CASE UNCHANGED vars
  BY <1>0, <1>000, <1>8 DEF vars, AttemptsInTime
<1> QED
  BY <1>1, <1>2, <1>3, <1>4, <1>5, <1>6, <1>6a, <1>7, <1>8 DEF Next, AskFails, PostFails

-----------------------------------------------------------------------------
(***************************************************************************)
(* The key and those it refuses.                                           *)
(***************************************************************************)

LEMMA TurnTypes ==
    ASSUME TypeOK, NEW p \in Processes, NEW k \in Turns
    PROVE  /\ k \in 1 .. Occurrences /\ k \in Nat
           /\ now \in Nat /\ key \in Nat /\ left[p][k] \in Nat
           /\ queued[k] \in Nat /\ failed[k] \in Nat
           /\ Due(k) \in Nat /\ LastAsk(k) \in Nat
           /\ MaxDelay \in Nat /\ MaxSkew \in Nat /\ Ttl \in Nat \ {0}
           /\ every \in Nat /\ again \in Nat
<1>1. k \in 1 .. Occurrences /\ k \in Nat /\ MaxFailures \in Nat /\ Ttl \in Nat
  BY TurnsTyped, ConstantTypes
<1>2. failed[k] \in 0 .. MaxFailures /\ key \in 0 .. Ttl
  BY <1>1 DEF TypeOK
<1>3. now \in Nat /\ left[p][k] \in Nat /\ queued[k] \in Nat /\ every \in Nat /\ again \in Nat
  BY <1>1, ConstantTypes DEF TypeOK
<1> QED
  BY <1>1, <1>2, <1>3, DueType, LastAskType, ConstantTypes

LEMMA LeftStaysTyped ==
    ASSUME TypeOK', NEW p \in Processes, NEW k \in 1 .. Occurrences
    PROVE  left'[p][k] \in Nat
<1>1. left' \in [Processes -> [1 .. Occurrences -> Nat]]
  BY DEF TypeOK
<1> QED
  BY <1>1

(* Where an attempt may go. *)
LEMMA StagesStep ==
    ASSUME TypeOK, [Next]_vars, NEW p \in Processes, NEW k \in Turns,
           stage'[p][k] # stage[p][k]
    PROVE  \/ stage'[p][k] = "asking" /\ stage[p][k] # "posting"
           \/ stage'[p][k] \in {"posting", "refused"} /\ Ask(p, k)
           \/ stage'[p][k] = "queued" /\ Post(p, k)
           \/ stage'[p][k] \in {"retrying", "lost"} /\ failed'[k] = failed[k] + 1
           \/ stage'[p][k] = "missed" /\ stage[p][k] = "waiting"
<1>1. ASSUME NEW q \in Processes, NEW j \in Turns, NEW from, NEW to, NEW ticks,
             Goto(q, j, from, to, ticks)
      PROVE  q = p /\ j = k /\ stage[p][k] = from /\ stage'[p][k] = to
  BY <1>1, GotoMoves
<1>2. ASSUME NEW q \in Processes, NEW j \in Turns, NEW from, Fail(q, j, from)
      PROVE  stage'[p][k] \in {"retrying", "lost"} /\ failed'[k] = failed[k] + 1
  BY <1>2, FailMoves
<1>3. ASSUME NEW q \in Processes, NEW j \in Turns, Fire(q, j) \/ Retry(q, j)
      PROVE  stage'[p][k] = "asking" /\ stage[p][k] \in {"waiting", "retrying"}
  BY <1>1, <1>3 DEF Fire, Retry
<1>4. ASSUME NEW q \in Processes, NEW j \in Turns, Ask(q, j)
      PROVE  stage'[p][k] \in {"posting", "refused"} /\ Ask(p, k)
  <2>1. \/ Goto(q, j, "asking", "posting", MaxDelay)
        \/ Goto(q, j, "asking", "refused", 0)
    BY <1>4 DEF Ask
  <2> QED
    BY <1>1, <1>4, <2>1
<1>5. ASSUME NEW q \in Processes, NEW j \in Turns, Post(q, j)
      PROVE  stage'[p][k] = "queued" /\ Post(p, k)
  <2>1. Goto(q, j, "posting", "queued", 0)
    BY <1>5 DEF Post
  <2> QED
    BY <1>1, <1>5, <2>1
<1>6. ASSUME NEW q \in Processes, Restart(q)
      PROVE  \/ stage'[p][k] = "lost" /\ failed'[k] = failed[k] + 1
             \/ stage'[p][k] = "missed" /\ stage[p][k] = "waiting"
  BY <1>6, RestartMoves
<1>6a. ASSUME NEW q \in Processes, StartAgain(q)
       PROVE  stage'[p][k] = "asking" /\ stage[p][k] # "posting"
  BY <1>6a, StartAgainMoves
<1>7. ~Tick
  BY DEF Tick
<1>8. ~UNCHANGED vars
  BY DEF vars
<1> QED
  BY <1>2, <1>3, <1>4, <1>5, <1>6, <1>6a, <1>7, <1>8 DEF Next, AskFails, PostFails

(* Whoever has the key queues the job or fails. *)
LEMMA TriedStays ==
    ASSUME TypeOK, TypeOK', [Next]_vars, NEW k \in Turns, Tried(k)
    PROVE  Tried(k)'
<1>1. Grows(k)
  BY StepGrows
<1>2. PICK p \in Processes : TRUE
  BY ConstantTypes
<1>3. /\ k \in 1 .. Occurrences
      /\ queued[k] \in Nat /\ failed[k] \in Nat
      /\ queued'[k] \in Nat /\ failed'[k] \in Nat
  <2>1. k \in 1 .. Occurrences /\ MaxFailures \in Nat
    BY TurnsTyped, ConstantTypes
  <2>2. failed[k] \in 0 .. MaxFailures /\ failed'[k] \in 0 .. MaxFailures
    BY <2>1 DEF TypeOK
  <2> QED
    BY <2>1, <2>2 DEF TypeOK
<1>4. CASE queued[k] > 0 \/ failed[k] > 0
  BY <1>1, <1>3, <1>4 DEF Grows, Tried
<1>5. ASSUME NEW q \in Processes, stage[q][k] = "posting"
      PROVE  Tried(k)'
  <2>1. CASE stage'[q][k] = stage[q][k]
    BY <1>5, <2>1 DEF Tried
  <2>2. CASE stage'[q][k] # stage[q][k]
    <3>1. CASE failed'[k] = failed[k] + 1
      BY <1>3, <3>1 DEF Tried
    <3>2. CASE Post(q, k)
      <4>1. queued'[k] = queued[k] + 1
        BY <1>3, <3>2 DEF Post, TypeOK
      <4> QED
        BY <1>3, <4>1 DEF Tried
    <3>3. ~Ask(q, k)
      BY <1>5 DEF Ask, Goto
    <3> QED
      BY <1>5, <2>2, <3>1, <3>2, <3>3, StagesStep
  <2> QED
    BY <2>1, <2>2
<1> QED
  BY <1>4, <1>5 DEF Tried

(* A new key belongs to the occurrence of the request that stored it. *)
LEMMA KeyStep ==
    ASSUME TypeOK, TypeOK', AttemptsInTime, KeyOwned, [Next]_vars
    PROVE  KeyOwned'
<1>0. /\ Turns' = Turns /\ now' >= now /\ every' = every
      /\ \A k \in Turns : Grows(k)
  BY StepGrows
<1>1. ASSUME key' > 0, key' + now' = key + now, key > 0
      PROVE  KeyOwned'
  <2>1. PICK k \in Turns : OwnedBy(k)
    BY <1>1 DEF KeyOwned
  <2>2. Tried(k)' /\ Grows(k)
    BY <1>0, <2>1, TriedStays DEF OwnedBy
  <2>3. PICK p \in Processes : TRUE
    BY ConstantTypes
  <2>4. Due(k)' <= now' /\ (every' > 0 => now' + key' <= LastAsk(k)' + Ttl)
    <3>1. now' \in Nat /\ key' \in Nat
      BY ConstantTypes DEF TypeOK
    <3> QED
      BY <1>0, <1>1, <2>1, <2>2, <3>1, TurnTypes, <2>3 DEF Grows, OwnedBy
  <2> QED
    BY <1>0, <2>2, <2>4 DEF KeyOwned, OwnedBy
<1>2. ASSUME NEW p \in Processes, NEW k \in Turns, stage[p][k] = "asking",
             key' = Ttl, now' = now,
             stage'[p][k] = "posting" \/ failed'[k] = failed[k] + 1
      PROVE  KeyOwned'
  <2>1. (every > 0 => now + left[p][k] <= LastAsk(k)) /\ now >= Due(k)
    BY <1>2 DEF AttemptsInTime, InTime
  <2>2. Due(k)' <= now' /\ (every' > 0 => now' + key' <= LastAsk(k)' + Ttl)
    BY <1>0, <1>2, <2>1, TurnTypes DEF Grows
  <2>3. Tried(k)'
    BY <1>2, TurnTypes DEF Tried
  <2> QED
    BY <1>0, <2>2, <2>3 DEF KeyOwned, OwnedBy
<1>3. ASSUME key' = key, now' = now
      PROVE  KeyOwned'
  <2>1. CASE key' > 0
    BY <1>1, <1>3, <2>1
  <2> QED
    BY <2>1 DEF KeyOwned
<1>4. ASSUME NEW p \in Processes, NEW k \in Turns, Ask(p, k)
      PROVE  KeyOwned'
  <2>1. CASE key' = key
    BY <1>3, <1>4, <2>1 DEF Ask
  <2>2. CASE key' = Ttl /\ Goto(p, k, "asking", "posting", MaxDelay)
    BY <1>2, <1>4, <2>2, GotoMoves DEF Ask
  <2> QED
    BY <1>4, <2>1, <2>2 DEF Ask
<1>5. ASSUME NEW p \in Processes, NEW k \in Turns, AskFails(p, k)
      PROVE  KeyOwned'
  <2>1. CASE key' = key
    BY <1>3, <1>5, <2>1, FailMoves DEF AskFails
  <2>2. CASE key' = Ttl
    BY <1>2, <1>5, <2>2, FailMoves DEF AskFails
  <2> QED
    BY <1>5, <2>1, <2>2 DEF AskFails
<1>6. ASSUME Tick
      PROVE  KeyOwned'
  <2>1. CASE key' > 0
    <3>1. key' + now' = key + now /\ key > 0
      <4>1. now \in Nat /\ key \in 0 .. Ttl /\ Ttl \in Nat
        BY ConstantTypes DEF TypeOK
      <4> QED
        BY <1>6, <2>1, <4>1, TickMoves
    <3> QED
      BY <1>1, <2>1, <3>1
  <2> QED
    BY <2>1 DEF KeyOwned
<1>7. ASSUME NEW p \in Processes, NEW k \in Turns,
             Fire(p, k) \/ Post(p, k) \/ PostFails(p, k) \/ Retry(p, k)
      PROVE  KeyOwned'
  BY <1>3, <1>7, FailMoves DEF Fire, Post, PostFails, Retry
<1>8. ASSUME NEW p \in Processes, Restart(p)
      PROVE  KeyOwned'
  <2>1. now' = now
    BY <1>8 DEF Restart
  <2>2. CASE key' = key
    BY <1>3, <2>1, <2>2
  <2>3. CASE key' # key
    <3>1. PICK j \in Turns : stage[p][j] = "asking" /\ failed'[j] = failed[j] + 1
      BY <1>8, <2>3, RestartKey
    <3>2. key' = Ttl
      BY <1>8, <2>3, RestartKey
    <3> QED
      BY <1>2, <2>1, <3>1, <3>2
  <2> QED
    BY <2>2, <2>3
<1>8a. ASSUME NEW p \in Processes, StartAgain(p)
       PROVE  KeyOwned'
  BY <1>3, <1>8a DEF StartAgain
<1>9. CASE UNCHANGED vars
  BY <1>3, <1>9 DEF vars
<1> QED
  BY <1>4, <1>5, <1>6, <1>7, <1>8, <1>8a, <1>9 DEF Next

(* The key that refuses a request is of the same occurrence, which was tried, or
   of an earlier one; of a later one it can only be after a failure. *)
LEMMA RefusedStep ==
    ASSUME TypeOK, TypeOK', AttemptsInTime, KeyOwned, RefusedForKey, [Next]_vars
    PROVE  RefusedForKey'
<1>0. /\ Turns' = Turns
      /\ \A k \in Turns : Grows(k)
  BY StepGrows
<1>1. ASSUME NEW k \in Turns, KeyOfEarlier(k)
      PROVE  KeyOfEarlier(k)'
  <2>1. PICK j \in 1 .. k - 1 : LastAsk(j) + Ttl > Due(k)
    BY <1>1 DEF KeyOfEarlier
  <2>2. j \in Turns /\ k \in Nat
    <3>1. k \in Nat /\ Occurrences \in Nat
      BY TurnsTyped, ConstantTypes
    <3>2. every # 0
      BY <2>1, <3>1 DEF Turns
    <3> QED
      BY <2>1, <3>1, <3>2 DEF Turns
  <2>3. PICK p \in Processes : TRUE
    BY ConstantTypes
  <2>4. LastAsk(j)' + Ttl > Due(k)'
    BY <1>0, <2>1, <2>2, <2>3, TurnTypes DEF Grows
  <2> QED
    BY <2>4 DEF KeyOfEarlier
<1>2. ASSUME NEW p \in Processes, NEW k \in Turns, stage[p][k] = "asking", key > 0
      PROVE  Tried(k) \/ KeyOfEarlier(k)
  <2>1. PICK j \in Turns : OwnedBy(j)
    BY <1>2 DEF KeyOwned
  <2>1a. every > 0 \/ j = k
    BY FirstTurn, TurnsTyped
  <2>2. j \in Nat /\ k \in Nat
    BY TurnTypes
  <2>3. CASE j = k
    BY <2>1, <2>3 DEF OwnedBy
  <2>4. CASE j < k
    <3>1. j \in 1 .. k - 1
      BY <2>2, <2>4 DEF Turns
    <3>2. now >= Due(k)
      BY <1>2 DEF AttemptsInTime, InTime
    <3>3. LastAsk(j) + Ttl > Due(k)
      BY <1>2, <2>1, <2>1a, <2>2, <2>4, <3>2, TurnTypes DEF OwnedBy
    <3> QED
      BY <3>1, <3>3 DEF KeyOfEarlier
  <2>5. CASE j > k
    <3>1. Due(k) + every <= Due(j) /\ every > Ttl /\ every \in Nat
      BY <2>2, <2>5, DueApart, TurnsTyped
    <3>2. now + left[p][k] <= LastAsk(k)
      BY <1>2, <2>1a, <2>2, <2>5 DEF AttemptsInTime, InTime
    <3>3. failed[k] > 0
      <4>1. SUFFICES ASSUME failed[k] = 0 PROVE FALSE
        BY TurnTypes
      <4>2. LastAsk(k) = Due(k) + MaxSkew + MaxDelay
        BY <4>1, LastAskType, TurnTypes
      <4> QED
        BY <2>1, <3>1, <3>2, <4>2, TurnTypes, ConstantTypes DEF OwnedBy
    <3> QED
      BY <3>3 DEF Tried
  <2> QED
    BY <2>2, <2>3, <2>4, <2>5
<1>3. SUFFICES ASSUME NEW p \in Processes, NEW k \in Turns, stage'[p][k] = "refused"
               PROVE  Tried(k)' \/ KeyOfEarlier(k)'
  BY <1>0 DEF RefusedForKey
<1>4. Tried(k) \/ KeyOfEarlier(k)
  <2>1. CASE stage[p][k] = "refused"
    BY <2>1 DEF RefusedForKey
  <2>2. CASE stage[p][k] # "refused"
    <3>1. Ask(p, k)
      BY <1>3, <2>2, StagesStep
    <3>2. ~Goto(p, k, "asking", "posting", MaxDelay)
      BY <1>3, GotoMoves
    <3>3. Goto(p, k, "asking", "refused", 0) /\ key > 0
      BY <3>1, <3>2 DEF Ask
    <3>4. stage[p][k] = "asking" /\ key > 0
      BY <3>3 DEF Goto
    <3> QED
      BY <1>2, <3>4
  <2> QED
    BY <2>1, <2>2
<1> QED
  BY <1>1, <1>4, TriedStays

-----------------------------------------------------------------------------
(***************************************************************************)
(* How often an occurrence is queued.                                      *)
(***************************************************************************)

LEMMA ContendersFinite ==
    ASSUME NEW k \in Turns
    PROVE  /\ IsFiniteSet(Contenders(k))
           /\ Cardinality(Contenders(k)) \in Nat
<1>1. Contenders(k) \subseteq Processes
  BY DEF Contenders
<1> QED
  BY <1>1, ConstantTypes, FS_Subset, FS_CardinalityType

LEMMA FewerOrMore ==
    ASSUME NEW T, IsFiniteSet(T), NEW S, NEW p, S \subseteq T \cup {p}
    PROVE  /\ Cardinality(S) <= Cardinality(T) + 1
           /\ S \subseteq T => Cardinality(S) <= Cardinality(T)
           /\ S \subseteq T \ {p} /\ p \in T => Cardinality(S) + 1 <= Cardinality(T)
<1>1. /\ IsFiniteSet(T \cup {p}) /\ IsFiniteSet(T \ {p}) /\ IsFiniteSet(S)
      /\ Cardinality(T) \in Nat
      /\ Cardinality(T \cup {p}) <= Cardinality(T) + 1
      /\ p \in T => Cardinality(T \ {p}) = Cardinality(T) - 1
  <2>1. IsFiniteSet(T \cup {p}) /\ Cardinality(T) \in Nat
           /\ Cardinality(T \cup {p}) <= Cardinality(T) + 1
    BY FS_AddElement, FS_CardinalityType
  <2>2. IsFiniteSet(T \ {p}) /\ (p \in T => Cardinality(T \ {p}) = Cardinality(T) - 1)
    BY FS_RemoveElement
  <2> QED
    BY <2>1, <2>2, FS_Subset
<1>2. /\ Cardinality(S) <= Cardinality(T \cup {p})
      /\ S \subseteq T => Cardinality(S) <= Cardinality(T)
      /\ S \subseteq T \ {p} => Cardinality(S) <= Cardinality(T \ {p})
  BY <1>1, FS_Subset
<1>3. Cardinality(S) \in Nat /\ Cardinality(T \cup {p}) \in Nat /\ Cardinality(T \ {p}) \in Nat
  BY <1>1, FS_CardinalityType
<1> QED
  BY <1>1, <1>2, <1>3

(* Who stays where he is contends as before, also when time passes for him. *)
LEMMA ContendsAsBefore ==
    ASSUME TypeOK, NEW k \in Turns, NEW q \in Processes, Due(k)' = Due(k),
           stage'[q][k] = stage[q][k],
           stage[q][k] = "asking" => now' + left'[q][k] = now + left[q][k]
    PROVE  q \in Contenders(k)' <=> q \in Contenders(k)
BY DEF Contenders, Late

LEMMA StillBeyond ==
    ASSUME NEW a \in Nat, NEW b \in Nat, NEW c \in Nat, NEW d \in Nat,
           a + b >= c, c >= d
    PROVE  a + b >= d
OBVIOUS

(* The count of an occurrence stays right if it does not grow, or by one with a
   failure. *)
LEMMA CountKept ==
    ASSUME TypeOK, TypeOK', ContendersCounted, [Next]_vars, NEW k \in Turns,
           Count(k)' <= Count(k) \/ (Count(k)' <= Count(k) + 1 /\ Faults(k)' = Faults(k) + 1)
    PROVE  /\ Count(k)' <= Faults(k)' + 1
           /\ Count(k)' <= Faults(k)' \/ now' + key' >= Due(k)' + Ttl
<1>1. /\ Due(k)' = Due(k) /\ now' + key' >= now + key
      /\ failed'[k] >= failed[k] /\ again' >= again
  BY StepGrows DEF Grows
<1>2. PICK p \in Processes : TRUE
  BY ConstantTypes
<1>3. /\ now \in Nat /\ key \in Nat /\ Due(k) \in Nat /\ failed[k] \in Nat /\ Ttl \in Nat
      /\ queued[k] \in Nat /\ again \in Nat /\ k \in 1 .. Occurrences
  BY <1>2, TurnTypes
<1>4. /\ now' \in Nat /\ key' \in Nat /\ failed'[k] \in Nat /\ queued'[k] \in Nat
      /\ again' \in Nat
  <2>1. failed'[k] \in 0 .. MaxFailures /\ MaxFailures \in Nat /\ key' \in 0 .. Ttl
    BY <1>3, ConstantTypes DEF TypeOK
  <2> QED
    BY <1>3, <2>1, ConstantTypes DEF TypeOK
<1>4a. Faults(k) \in Nat /\ Faults(k)' \in Nat /\ Faults(k)' >= Faults(k)
  BY <1>1, <1>3, <1>4 DEF Faults
<1>5. Turns' = Turns /\ IsFiniteSet(Contenders(k)')
  <2>1. Contenders(k)' \subseteq Processes
    BY DEF Contenders
  <2> QED
    BY <2>1, StepGrows, ConstantTypes, FS_Subset
<1>6. Count(k) \in Nat /\ Count(k)' \in Nat
  BY <1>3, <1>4, <1>5, ContendersFinite, FS_CardinalityType DEF Count
<1>7. /\ Count(k) <= Faults(k) + 1
      /\ Count(k) <= Faults(k) \/ now + key >= Due(k) + Ttl
  BY DEF ContendersCounted
<1>10. now' \in Nat /\ key' \in Nat
  BY <1>4
<1>11. now + key >= Due(k) + Ttl => now' + key' >= Due(k)' + Ttl
  <2>1. now + key \in Nat /\ Due(k) + Ttl \in Nat /\ Due(k)' = Due(k)
    BY <1>1, <1>3
  <2>2. now' + key' >= now + key
    BY <1>1
  <2> QED
    BY <1>10, <2>1, <2>2, StillBeyond
<1> DEFINE n == Count(k)
           m == Count(k)'
           f == Faults(k)
           g == Faults(k)'
<1>8. /\ n \in Nat /\ m \in Nat /\ f \in Nat /\ g \in Nat /\ g >= f
      /\ n <= f + 1
      /\ (m <= n \/ (m <= n + 1 /\ g = f + 1))
  BY <1>4a, <1>6, <1>7
<1>9. m <= g + 1 /\ (n <= f => m <= g)
  <2> HIDE DEF n, m, f, g
  <2> QED
    BY <1>8
<1> HIDE DEF n, m, f, g
<1> QED
  BY <1>7, <1>9, <1>11 DEF n, m, f, g

LEMMA CountStep ==
    ASSUME TypeOK, TypeOK', AttemptsInTime, ContendersCounted, [Next]_vars
    PROVE  ContendersCounted'
<1> DEFINE Right(k) == /\ Count(k)' <= Faults(k)' + 1
                       /\ Count(k)' <= Faults(k)' \/ now' + key' >= Due(k)' + Ttl
<1>1. /\ Turns' = Turns /\ every' = every
      /\ \A k \in Turns : Grows(k) /\ Due(k)' = Due(k)
  BY StepGrows DEF Grows
<1>2. SUFFICES ASSUME NEW k \in Turns PROVE Right(k)
  BY <1>1 DEF ContendersCounted
<1> HIDE DEF Right
<1>3. /\ IsFiniteSet(Contenders(k)) /\ Contenders(k)' \subseteq Processes
      /\ Cardinality(Contenders(k)) \in Nat /\ Cardinality(Contenders(k)') \in Nat
  <2>1. Contenders(k)' \subseteq Processes
    BY DEF Contenders
  <2> QED
    BY <2>1, ConstantTypes, FS_Subset, FS_CardinalityType, ContendersFinite
<1>4. /\ queued[k] \in Nat /\ queued'[k] \in Nat
      /\ failed[k] \in Nat /\ again \in Nat
      /\ k \in 1 .. Occurrences
  <2>1. k \in 1 .. Occurrences /\ MaxFailures \in Nat /\ MaxAgain \in Nat
    BY TurnsTyped, ConstantTypes
  <2> QED
    BY <2>1 DEF TypeOK
(* The contenders of the occurrence stay, or become fewer. *)
<1>5. ASSUME Contenders(k)' \subseteq Contenders(k),
             queued'[k] = queued[k] \/ (queued'[k] <= queued[k] + 1 /\ Faults(k)' = Faults(k) + 1)
      PROVE  Right(k)
  <2>1. Cardinality(Contenders(k)') <= Cardinality(Contenders(k))
    BY <1>3, <1>5, FS_Subset
  <2>2. Count(k)' <= Count(k) \/ (Count(k)' <= Count(k) + 1 /\ Faults(k)' = Faults(k) + 1)
    BY <1>3, <1>4, <1>5, <2>1 DEF Count
  <2> QED
    BY <2>2, CountKept DEF Right
<1>6. ASSUME NEW p \in Processes, p \in Contenders(k), Contenders(k)' \subseteq Contenders(k) \ {p},
             queued'[k] <= queued[k] + 1
      PROVE  Right(k)
  <2>1. Cardinality(Contenders(k)') + 1 <= Cardinality(Contenders(k))
    BY <1>3, <1>6, FewerOrMore
  <2>2. Count(k)' <= Count(k)
    BY <1>3, <1>4, <1>6, <2>1 DEF Count
  <2> QED
    BY <2>2, CountKept DEF Right
<1>7. ASSUME NEW p \in Processes, Contenders(k)' \subseteq Contenders(k) \cup {p},
             queued'[k] = queued[k], Faults(k)' = Faults(k) + 1
      PROVE  Right(k)
  <2>1. Cardinality(Contenders(k)') <= Cardinality(Contenders(k)) + 1
    BY <1>3, <1>7, FewerOrMore
  <2>2. Count(k)' <= Count(k) + 1
    BY <1>3, <1>4, <1>7, <2>1 DEF Count
  <2> QED
    BY <1>7, <2>2, CountKept DEF Right
<1>7a. failed'[k] = failed[k] + 1 /\ again' = again => Faults(k)' = Faults(k) + 1
  BY <1>4 DEF Faults
(* Only the attempt of one process at one occurrence moves. *)
<1>8. ASSUME NEW p \in Processes, NEW j \in Turns, now' = now,
             \A q \in Processes, i \in Turns :
                q # p \/ i # j => stage'[q][i] = stage[q][i] /\ left'[q][i] = left[q][i]
      PROVE  /\ j # k => Contenders(k)' = Contenders(k)
             /\ Contenders(k)' \subseteq Contenders(k) \cup {p}
             /\ p \notin Contenders(k)' => Contenders(k)' \subseteq Contenders(k) \ {p}
             /\ p \in Contenders(k) => Contenders(k)' \subseteq Contenders(k)
  <2>1. \A q \in Processes : q # p \/ j # k => (q \in Contenders(k)' <=> q \in Contenders(k))
    BY <1>1, <1>8, ContendsAsBefore
  <2>2. Contenders(k) \subseteq Processes
    BY DEF Contenders
  <2> QED
    BY <1>3, <2>1, <2>2
<1>9. ASSUME NEW p \in Processes, NEW j \in Turns, Fire(p, j)
      PROVE  Right(k)
  <2>1. /\ stage[p][j] = "waiting" /\ stage'[p][j] = "asking" /\ left'[p][j] = MaxDelay
        /\ now' = now /\ queued' = queued
        /\ \A q \in Processes, i \in Turns :
              q # p \/ i # j => stage'[q][i] = stage[q][i] /\ left'[q][i] = left[q][i]
    BY <1>9, GotoMoves DEF Fire
  <2>2. now <= Due(j) + MaxSkew
    BY <2>1 DEF AttemptsInTime, InTime
  <2>3. j = k => p \notin Contenders(k)'
    BY <1>1, <2>1, <2>2, TurnTypes DEF Contenders, Late
  <2>4. Contenders(k)' \subseteq Contenders(k)
    BY <1>8, <2>1, <2>3
  <2> QED
    BY <1>5, <2>1, <2>4
<1>10. ASSUME NEW p \in Processes, NEW j \in Turns, Ask(p, j)
       PROVE  Right(k)
  <2>1. /\ stage[p][j] = "asking"
        /\ \/ stage'[p][j] = "posting" /\ key = 0 /\ key' = Ttl
           \/ stage'[p][j] = "refused"
        /\ now' = now /\ queued' = queued /\ failed' = failed /\ again' = again
        /\ \A q \in Processes, i \in Turns :
              q # p \/ i # j => stage'[q][i] = stage[q][i] /\ left'[q][i] = left[q][i]
    BY <1>10, GotoMoves DEF Ask
  <2>2. CASE j # k \/ p \in Contenders(k)
    BY <1>5, <1>8, <2>1, <2>2
  <2>3. CASE j = k /\ stage'[p][j] = "refused"
    <3>1. p \notin Contenders(k)'
      BY <2>3 DEF Contenders
    <3> QED
      BY <1>5, <1>8, <2>1, <3>1
  <2>4. CASE j = k /\ p \notin Contenders(k) /\ stage'[p][j] = "posting" /\ key = 0 /\ key' = Ttl
    <3>1. now + left[p][k] <= Due(k) + MaxSkew + MaxDelay
      BY <2>1, <2>4, TurnTypes DEF Contenders, Late
    <3>2. Count(k) <= Faults(k)
      BY <2>4, <3>1, TurnTypes, ConstantTypes DEF ContendersCounted
    <3>3. Cardinality(Contenders(k)') <= Cardinality(Contenders(k)) + 1
      BY <1>3, <1>8, <2>1, FewerOrMore
    <3>4. Count(k)' <= Count(k) + 1
      BY <1>3, <1>4, <2>1, <3>3 DEF Count
    <3>5. now >= Due(k)
      BY <2>1, <2>4 DEF AttemptsInTime, InTime
    <3>6. Count(k) \in Nat /\ Count(k)' \in Nat
      BY <1>3, <1>4 DEF Count
    <3>7. Faults(k)' = Faults(k) /\ Faults(k) \in Nat
      BY <1>4, <2>1 DEF Faults
    <3> QED
      BY <1>1, <2>1, <2>4, <3>2, <3>4, <3>5, <3>6, <3>7, TurnTypes DEF Right
  <2> QED
    BY <2>1, <2>2, <2>3, <2>4
<1>11. ASSUME NEW p \in Processes, NEW j \in Turns, Post(p, j)
       PROVE  Right(k)
  <2>1. /\ stage[p][j] = "posting" /\ stage'[p][j] = "queued"
        /\ now' = now
        /\ \A q \in Processes, i \in Turns :
              q # p \/ i # j => stage'[q][i] = stage[q][i] /\ left'[q][i] = left[q][i]
    BY <1>11, GotoMoves DEF Post
  <2>2. CASE j # k
    <3>1. queued'[k] = queued[k]
      BY <1>4, <1>11, <2>2 DEF Post, TypeOK
    <3> QED
      BY <1>5, <1>8, <2>1, <2>2, <3>1
  <2>3. CASE j = k
    <3>1. queued'[k] = queued[k] + 1
      BY <1>4, <1>11, <2>3 DEF Post, TypeOK
    <3>2. p \in Contenders(k) /\ p \notin Contenders(k)'
      BY <2>1, <2>3 DEF Contenders
    <3>3. queued'[k] <= queued[k] + 1
      BY <1>4, <3>1
    <3> QED
      BY <1>6, <1>8, <2>1, <3>2, <3>3
  <2> QED
    BY <2>2, <2>3
<1>12. ASSUME NEW p \in Processes, NEW j \in Turns, AskFails(p, j)
       PROVE  Right(k)
  <2>1. Fail(p, j, "asking") /\ queued' = queued
    BY <1>12 DEF AskFails
  <2>2. /\ now' = now /\ failed'[j] = failed[j] + 1 /\ again' = again
        /\ \A q \in Processes, i \in Turns :
              q # p \/ i # j => stage'[q][i] = stage[q][i] /\ left'[q][i] = left[q][i]
    BY <2>1, FailMoves
  <2>3. CASE j # k
    BY <1>5, <1>8, <2>1, <2>2, <2>3
  <2>4. CASE j = k
    BY <1>7, <1>7a, <1>8, <2>1, <2>2, <2>4
  <2> QED
    BY <2>3, <2>4
<1>13. ASSUME NEW p \in Processes, NEW j \in Turns, PostFails(p, j)
       PROVE  Right(k)
  <2>1. Fail(p, j, "posting") /\ (queued' = queued \/ queued' = [queued EXCEPT ![j] = @ + 1])
    BY <1>13 DEF PostFails
  <2>2. /\ now' = now /\ failed'[j] = failed[j] + 1 /\ stage[p][j] = "posting" /\ again' = again
        /\ \A q \in Processes, i \in Turns :
              q # p \/ i # j => stage'[q][i] = stage[q][i] /\ left'[q][i] = left[q][i]
    BY <2>1, FailMoves
  <2>3. CASE j # k
    <3>1. queued'[k] = queued[k]
      BY <1>4, <2>1, <2>3 DEF TypeOK
    <3> QED
      BY <1>5, <1>8, <2>2, <2>3, <3>1
  <2>4. CASE j = k
    <3>1. queued'[k] <= queued[k] + 1
      <4>1. queued'[k] = queued[k] \/ queued'[k] = queued[k] + 1
        BY <1>4, <2>1, <2>4 DEF TypeOK
      <4> QED
        BY <1>4, <4>1
    <3>2. p \in Contenders(k)
      BY <2>2, <2>4 DEF Contenders
    <3> QED
      BY <1>5, <1>7a, <1>8, <2>2, <2>4, <3>1, <3>2
  <2> QED
    BY <2>3, <2>4
<1>14. ASSUME NEW p \in Processes, NEW j \in Turns, Retry(p, j)
       PROVE  Right(k)
  <2>1. /\ stage[p][j] = "retrying" /\ now' = now /\ queued' = queued
        /\ \A q \in Processes, i \in Turns :
              q # p \/ i # j => stage'[q][i] = stage[q][i] /\ left'[q][i] = left[q][i]
    BY <1>14, GotoMoves DEF Retry
  <2>2. j = k => p \in Contenders(k)
    BY <2>1 DEF Contenders
  <2> QED
    BY <1>5, <1>8, <2>1, <2>2
<1>15. ASSUME NEW p \in Processes, Restart(p)
       PROVE  Right(k)
  <2>1. ASSUME NEW q \in Processes, q \in Contenders(k)'
        PROVE  q \in Contenders(k)
    <3>1. CASE stage'[q][k] = stage[q][k]
      <4>1. now' = now /\ left'[q][k] = left[q][k]
        BY <1>15, <2>1, <3>1, RestartMoves DEF InFlight
      <4> QED
        BY <1>1, <2>1, <3>1, <4>1, ContendsAsBefore
    <3>2. CASE stage'[q][k] # stage[q][k]
      <4>1. stage'[q][k] \in {"lost", "missed"}
        BY <1>15, <3>2, RestartMoves
      <4> QED
        BY <2>1, <4>1 DEF Contenders
    <3> QED
      BY <3>1, <3>2
  <2>2. queued'[k] = queued[k] \/ (queued'[k] = queued[k] + 1 /\ Faults(k)' = Faults(k) + 1)
    BY <1>7a, <1>15, RestartMoves
  <2>3. queued'[k] = queued[k] \/ (queued'[k] <= queued[k] + 1 /\ Faults(k)' = Faults(k) + 1)
    BY <1>4, <2>2
  <2>4. Contenders(k)' \subseteq Contenders(k)
    BY <1>3, <2>1
  <2> QED
    BY <1>5, <2>3, <2>4
<1>15a. ASSUME NEW p \in Processes, StartAgain(p)
        PROVE  Right(k)
  <2>1. /\ k = 1 /\ now' = now /\ queued' = queued /\ failed' = failed /\ again' = again + 1
        /\ \A q \in Processes, i \in Turns :
              q # p \/ i # k => stage'[q][i] = stage[q][i] /\ left'[q][i] = left[q][i]
    BY <1>15a, StartAgainMoves
  <2>2. Faults(k)' = Faults(k) + 1
    BY <1>4, <2>1 DEF Faults
  <2> QED
    BY <1>7, <1>8, <2>1, <2>2
<1>16. ASSUME Tick
       PROVE  Right(k)
  <2>1. ASSUME NEW q \in Processes, q \in Contenders(k)'
        PROVE  q \in Contenders(k)
    <3>1. /\ stage'[q][k] = stage[q][k] /\ now' = now + 1
          /\ stage[q][k] \in InFlight => left'[q][k] + 1 = left[q][k]
      BY <1>16, TickMoves
    <3>2. left[q][k] \in Nat /\ left'[q][k] \in Nat /\ now \in Nat
      <4>1. left[q][k] \in Nat /\ now \in Nat
        BY TurnTypes
      <4>2. left'[q][k] \in Nat
        BY <1>4, LeftStaysTyped
      <4> QED
        BY <4>1, <4>2
    <3>3. stage[q][k] = "asking" => now' + left'[q][k] = now + left[q][k]
      BY <3>1, <3>2 DEF InFlight
    <3> QED
      BY <1>1, <2>1, <3>1, <3>3, ContendsAsBefore
  <2>2. queued' = queued
    BY <1>16, TickMoves
  <2> QED
    BY <1>3, <1>5, <2>1, <2>2
<1>17. CASE UNCHANGED vars
  <2>1. Contenders(k)' = Contenders(k) /\ queued' = queued
    BY <1>17, <1>1 DEF vars, Contenders, Late
  <2> QED
    BY <1>5, <2>1
<1> QED
  BY <1>9, <1>10, <1>11, <1>12, <1>13, <1>14, <1>15, <1>15a, <1>16, <1>17 DEF Next

-----------------------------------------------------------------------------
(***************************************************************************)
(* The theorems.                                                           *)
(***************************************************************************)

LEMMA InitMInv == Init => MInv
<1> SUFFICES ASSUME Init PROVE MInv
  OBVIOUS
<1>1. TypeOK
  BY ConstantTypes DEF Init, TypeOK, Stages
<1>2. \A p \in Processes, k \in Turns : stage[p][k] = "waiting" /\ queued[k] = 0 /\ failed[k] = 0
  BY <1>1, TurnsTyped DEF Init
<1>3. AttemptsInTime
  BY <1>1, <1>2, TurnTypes DEF AttemptsInTime, InTime, Init
<1>4. KeyOwned
  BY DEF Init, KeyOwned
<1>5. RefusedForKey
  BY <1>2 DEF RefusedForKey
<1>6. ASSUME NEW k \in Turns
      PROVE  Contenders(k) = {}
  BY <1>2, <1>6 DEF Contenders
<1>7. ContendersCounted
  <2>1. PICK p \in Processes : TRUE
    BY ConstantTypes
  <2>2. again = 0
    BY DEF Init
  <2>3. ASSUME NEW k \in Turns
        PROVE  Count(k) = 0 /\ Faults(k) = 0
    <3>1. queued[k] = 0 /\ failed[k] = 0
      BY <1>2, <2>1
    <3>2. Cardinality(Contenders(k)) = 0
      BY <1>6, FS_EmptySet
    <3> QED
      BY <2>2, <3>1, <3>2 DEF Count, Faults
  <2> QED
    BY <2>3 DEF ContendersCounted
<1> QED
  BY <1>1, <1>3, <1>4, <1>5, <1>7 DEF MInv

LEMMA StepMInv == MInv /\ [Next]_vars => MInv'
<1> SUFFICES ASSUME MInv, [Next]_vars PROVE MInv'
  OBVIOUS
<1>1. TypeOK'
  BY TypesStep DEF MInv
<1>2. AttemptsInTime'
  BY <1>1, AttemptsStep DEF MInv
<1>3. KeyOwned' /\ RefusedForKey'
  BY <1>1, KeyStep, RefusedStep DEF MInv
<1>4. ContendersCounted'
  BY <1>1, CountStep DEF MInv
<1> QED
  BY <1>1, <1>2, <1>3, <1>4 DEF MInv

LEMMA AlwaysMInv == Spec => []MInv
BY InitMInv, StepMInv, PTL DEF Spec

(* An occurrence is queued once, and once more at most for each of its requests
   that failed and, if it is the only one, for each start after its time, whatever
   the processes, their delays and the other occurrences do. *)
THEOREM QueuedOncePerFailure == Spec => []OncePerFailure
<1>1. MInv => OncePerFailure
  <2> SUFFICES ASSUME MInv, NEW k \in Turns PROVE queued[k] <= 1 + failed[k] + again
    BY DEF OncePerFailure
  <2>1. TypeOK /\ queued[k] + Cardinality(Contenders(k)) <= failed[k] + again + 1
    BY DEF MInv, ContendersCounted, Count, Faults
  <2>2. PICK p \in Processes : TRUE
    BY ConstantTypes
  <2> QED
    BY <2>1, <2>2, ContendersFinite, TurnTypes
<1> QED
  BY <1>1, AlwaysMInv, PTL

(* No occurrence is lost to the mutex without a failure of its own, or a key that
   an earlier one left so late that it reaches into this one. *)
THEOREM NoOccurrenceLostToKey == Spec => []QueuedUnlessFailed
<1>1. MInv => QueuedUnlessFailed
  <2> SUFFICES ASSUME MInv, NEW k \in Turns, Settled(k),
                      ~(\A p \in Processes : stage[p][k] = "missed")
               PROVE  queued[k] > 0 \/ failed[k] > 0 \/ KeyOfEarlier(k)
    BY DEF QueuedUnlessFailed
  <2>1. TypeOK /\ AttemptsInTime /\ RefusedForKey
    BY DEF MInv
  <2>2. PICK p \in Processes : stage[p][k] # "missed"
    OBVIOUS
  <2>3. stage[p][k] \in {"queued", "refused", "lost"}
    <3>1. stage[p][k] \in Stages
      BY <2>1, TurnTypes DEF TypeOK
    <3> QED
      BY <2>2, <3>1 DEF Settled, InFlight, Stages
  <2>4. CASE stage[p][k] \in {"queued", "lost"}
    BY <2>1, <2>4 DEF AttemptsInTime, InTime
  <2>5. CASE stage[p][k] = "refused"
    <3>1. Tried(k) \/ KeyOfEarlier(k)
      BY <2>1, <2>5 DEF RefusedForKey
    <3>2. \A q \in Processes : stage[q][k] # "posting"
      BY DEF Settled, InFlight
    <3> QED
      BY <3>1, <3>2 DEF Tried
  <2> QED
    BY <2>3, <2>4, <2>5
<1> QED
  BY <1>1, AlwaysMInv, PTL

=============================================================================
