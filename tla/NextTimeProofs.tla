--------------------------- MODULE NextTimeProofs ---------------------------
(***************************************************************************)
(* The next time of a schedule is its first occurrence that is due, for    *)
(* every schedule and every moment.                                        *)
(***************************************************************************)
EXTENDS NextTime, TLAPS

(* Rounding down yields a multiple of the interval, less than one interval
   below. *)
LEMMA RoundDownIsMultiple ==
    ASSUME NEW n \in Nat, NEW e \in Nat \ {0}
    PROVE  /\ RoundDown(n, e) \in Nat
           /\ RoundDown(n, e) <= n
           /\ n < RoundDown(n, e) + e
           /\ \E k \in Nat : RoundDown(n, e) = e * k
<1>1. n % e \in 0 .. e - 1
  OBVIOUS
<1>2. n \div e \in Nat
  OBVIOUS
<1>3. n = e * (n \div e) + (n % e)
  OBVIOUS
<1>4. RoundDown(n, e) = e * (n \div e)
  BY <1>1, <1>2, <1>3 DEF RoundDown
<1>5. RoundDown(n, e) \in Nat /\ RoundDown(n, e) <= n /\ n < RoundDown(n, e) + e
  BY <1>1, <1>3, <1>4, <1>2 DEF RoundDown
<1> QED
  BY <1>2, <1>4, <1>5

(* Two multiples of the interval are equal or an interval apart. *)
LEMMA MultiplesApart ==
    ASSUME NEW e \in Nat \ {0}, NEW k \in Nat, NEW m \in Nat, e * k < e * m + e
    PROVE  e * k <= e * m
<1>1. e * k < e * (m + 1)
  OBVIOUS
<1>2. k < m + 1
  BY <1>1
<1>3. k <= m
  BY <1>2
<1> QED
  BY <1>3

(* A multiple of the interval leaves no rest. *)
LEMMA MultipleHasNoRest ==
    ASSUME NEW e \in Nat \ {0}, NEW k \in Nat
    PROVE  (e * k) % e = 0
OBVIOUS

(* What leaves no rest is a multiple of the interval. *)
LEMMA NoRestIsMultiple ==
    ASSUME NEW n \in Nat, NEW e \in Nat \ {0}, n % e = 0
    PROVE  \E k \in Nat : n = e * k
<1>1. n \div e \in Nat
  OBVIOUS
<1>2. n = e * (n \div e) + (n % e)
  OBVIOUS
<1> QED
  BY <1>1, <1>2

(* The grid of an interval that has a start: the first moment of the grid at
   now or later. *)
LEMMA GridFromStart ==
    ASSUME NEW now \in Nat, NEW start \in Nat \ {0}, NEW e \in Nat \ {0}
    PROVE  LET grid == NextOnGrid(now, start, e) IN
           /\ grid \in Nat
           /\ grid >= now /\ grid >= start /\ (grid - start) % e = 0
           /\ \A u \in Nat : u >= now /\ u >= start /\ (u - start) % e = 0
                             => grid <= u
<1> DEFINE d == Larger(now - start, 0)
           r == RoundDown(d + e - 1, e)
           grid == NextOnGrid(now, start, e)
<1>1. d \in Nat /\ d >= now - start
  BY DEF Larger
<1>2. d + e - 1 \in Nat
  BY <1>1
<1> HIDE DEF d
<1>3. PICK k \in Nat : r = e * k
  BY <1>2, RoundDownIsMultiple
<1>4. r \in Nat /\ d + e - 1 < r + e /\ r <= d + e - 1
  BY <1>2, RoundDownIsMultiple
<1>5. grid = start + r
  BY DEF d, NextOnGrid
<1> HIDE DEF r, grid
<1>6. grid - start = e * k
  BY <1>3, <1>4, <1>5
<1>7. (grid - start) % e = 0
  BY <1>6, MultipleHasNoRest
<1>8. ASSUME NEW u \in Nat, u >= now, u >= start, (u - start) % e = 0
      PROVE  grid <= u
  <2>1. u - start \in Nat
    BY <1>8
  <2>2. PICK m \in Nat : u - start = e * m
    BY <1>8, <2>1, NoRestIsMultiple
  <2>3. d <= u - start
    BY <1>8 DEF d, Larger
  <2>4. e * m \in Nat /\ e * k \in Nat
    OBVIOUS
  <2>5. e * k < e * m + e
    BY <1>1, <1>3, <1>4, <2>2, <2>3, <2>4
  <2>6. e * k <= e * m
    BY <2>5, MultiplesApart
  <2> QED
    BY <1>3, <1>5, <2>2, <2>4, <2>6
<1>9. grid \in Nat /\ grid >= now /\ grid >= start
  BY <1>1, <1>4, <1>5
<1> QED
  BY <1>7, <1>8, <1>9 DEF grid

(* The grid of an interval without a start: the first multiple after now. *)
LEMMA GridFromZero ==
    ASSUME NEW now \in Nat, NEW e \in Nat \ {0}
    PROVE  LET grid == NextOnGrid(now, 0, e) IN
           /\ grid \in Nat
           /\ grid > now /\ grid % e = 0
           /\ \A u \in Nat : u > now /\ u % e = 0 => grid <= u
<1> DEFINE grid == NextOnGrid(now, 0, e)
<1>1. now + e \in Nat /\ grid = RoundDown(now + e, e)
  BY DEF NextOnGrid
<1> HIDE DEF grid
<1>2. PICK k \in Nat : grid = e * k
  BY <1>1, RoundDownIsMultiple
<1>3. grid \in Nat /\ grid <= now + e /\ now + e < grid + e
  BY <1>1, RoundDownIsMultiple
<1>4. grid % e = 0
  BY <1>2, MultipleHasNoRest
<1>5. ASSUME NEW u \in Nat, u > now, u % e = 0
      PROVE  grid <= u
  <2>1. PICK m \in Nat : u = e * m
    BY <1>5, NoRestIsMultiple
  <2>2. e * k < e * m + e
    BY <1>2, <1>3, <1>5, <2>1
  <2> QED
    BY <1>2, <2>1, <2>2, MultiplesApart
<1>6. grid > now
  BY <1>3
<1> QED
  BY <1>3, <1>4, <1>5, <1>6 DEF grid

(* _getNextSchedule returns the first occurrence of the schedule that is due
   (lib/scheduler.js:115-144), and null when none of them is. *)
THEOREM NextScheduleIsFirstDue ==
    ASSUME NEW now \in Nat \ {0}, NEW start \in Nat, NEW every \in Nat,
           NEW end \in Nat, ValidSchedule(start, every, end)
    PROVE  IsFirstDue(NextSchedule(now, start, every, end), Nat,
                      now, start, every, end)
<1> DEFINE t == NextSchedule(now, start, every, end)
<1>1. CASE every = 0
  BY <1>1 DEF NextSchedule, IsFirstDue, Occurrence, Due, ValidSchedule
<1>2. CASE every > 0 /\ start > 0
  <2> DEFINE grid == NextOnGrid(now, start, every)
  <2>1. /\ grid \in Nat
        /\ grid >= now /\ grid >= start /\ (grid - start) % every = 0
        /\ \A u \in Nat : u >= now /\ u >= start /\ (u - start) % every = 0
                          => grid <= u
    <3>1. now \in Nat /\ start \in Nat \ {0} /\ every \in Nat \ {0}
      BY <1>2
    <3> QED
      BY <3>1, GridFromStart, Zenon
  <2>2. t = IF end = 0 \/ end > grid THEN grid ELSE 0
    BY <1>2 DEF NextSchedule
  <2> HIDE DEF grid, t
  <2> QED
    BY <1>2, <2>1, <2>2 DEF IsFirstDue, Occurrence, Due, t
<1>3. CASE every > 0 /\ start = 0
  <2> DEFINE grid == NextOnGrid(now, start, every)
  <2>1. /\ grid \in Nat
        /\ grid > now /\ grid % every = 0
        /\ \A u \in Nat : u > now /\ u % every = 0 => grid <= u
    <3>1. now \in Nat /\ start = 0 /\ every \in Nat \ {0}
      BY <1>3
    <3> QED
      BY <3>1, GridFromZero, Zenon
  <2>2. t = IF end = 0 \/ end > grid THEN grid ELSE 0
    BY <1>3 DEF NextSchedule
  <2> HIDE DEF grid, t
  <2> QED
    BY <1>3, <2>1, <2>2 DEF IsFirstDue, Occurrence, Due, t
<1> QED
  BY <1>1, <1>2, <1>3

(* It is a moment or null. *)
LEMMA NextScheduleInNat ==
    ASSUME NEW now \in Nat \ {0}, NEW start \in Nat, NEW every \in Nat,
           NEW end \in Nat
    PROVE  NextSchedule(now, start, every, end) \in Nat
<1>1. CASE every = 0
  BY <1>1 DEF NextSchedule
<1>2. CASE every > 0 /\ start > 0
  <2>1. now \in Nat /\ start \in Nat \ {0} /\ every \in Nat \ {0}
    BY <1>2
  <2>2. NextOnGrid(now, start, every) \in Nat
    BY <2>1, GridFromStart
  <2> QED
    BY <1>2, <2>2 DEF NextSchedule
<1>3. CASE every > 0 /\ start = 0
  <2>1. now \in Nat /\ start = 0 /\ every \in Nat \ {0}
    BY <1>3
  <2>2. NextOnGrid(now, start, every) \in Nat
    BY <2>1, GridFromZero
  <2> QED
    BY <1>3, <2>2 DEF NextSchedule
<1> QED
  BY <1>1, <1>2, <1>3

=============================================================================
