----------------------- MODULE BeanstalkSessionProofs -----------------------
(***************************************************************************)
(* Proofs about BeanstalkSession: requests join exactly the connection     *)
(* that is alive, for any requests and however often connections fail.     *)
(***************************************************************************)
EXTENDS BeanstalkSession, TLAPS

(* The connections that requests may join. *)
Alive(c) == promise[c] # "rejected" /\ link[c] \in {"connecting", "open"}

(* What the proof needs of the types.  There is a connection left for the next
   request: each one that was made but the present one has failed. *)
Typed ==
    /\ promise \in [Connections -> Promises]
    /\ link \in [Connections -> Links]
    /\ made \in Nat /\ failures \in 0 .. MaxFailures
    /\ connectPromise \in 0 .. made
    /\ made <= failures + 1
    /\ connectPromise = 0 => made <= failures

IInv == Typed /\ OneConnection

-----------------------------------------------------------------------------
LEMMA InitInvariant == Init => IInv
BY BeanstalkSessionAssumption
   DEF Init, IInv, Typed, OneConnection, Connections, Promises, Links

(* A connection that fails is not alive any more, the others are what they were,
   and the promise is discarded if it was its own. *)
LEMMA FailureInvariant ==
    ASSUME IInv, NEW c \in Connections, Fails, OnClose(c), made' = made,
           promise' \in [Connections -> Promises],
           link' \in [Connections -> Links],
           ~Alive(c)',
           \A d \in Connections \ {c} : promise'[d] = promise[d] /\ link'[d] = link[d]
    PROVE  IInv'
<1>1. Typed'
  BY BeanstalkSessionAssumption DEF IInv, Typed, Fails, OnClose
<1>2. ASSUME NEW d \in Connections
      PROVE connectPromise' = d <=> Alive(d)'
  <2>1. CASE d = c
    BY <2>1 DEF OnClose, Connections
  <2>2. CASE d # c
    BY <2>2 DEF OnClose, Alive, IInv, OneConnection, Connections
  <2> QED
    BY <2>1, <2>2
<1> QED
  BY <1>1, <1>2 DEF IInv, OneConnection, Alive

(* The first request without a promise makes the next connection. *)
LEMMA RequestInvariant ==
    ASSUME IInv, NEW r \in Requests, Request(r)
    PROVE  IInv'
<1>1. CASE connectPromise = 0 /\ Connect(r)
  <2>1. made + 1 \in Connections
    BY <1>1, BeanstalkSessionAssumption DEF IInv, Typed, Connections
  <2>2. Typed'
    BY <1>1, <2>1, BeanstalkSessionAssumption
    DEF IInv, Typed, Request, Connect, Promises, Links
  <2>3. OneConnection'
    BY <1>1, <2>1 DEF IInv, Typed, OneConnection, Connect, Connections
  <2> QED
    BY <2>2, <2>3 DEF IInv
<1>2. CASE UNCHANGED <<connectPromise, made, promise, link>>
  BY <1>2 DEF Request, IInv, Typed, OneConnection
<1> QED
  BY <1>1, <1>2 DEF Request

LEMMA ConnectionInvariant ==
    ASSUME IInv, NEW c \in Connections,
           \/ Connected(c) \/ SetupSucceeds(c) \/ Answer(c) \/ Close(c)
    PROVE  IInv'
<1>1. CASE Connected(c)
  BY <1>1 DEF Connected, IInv, Typed, OneConnection, Promises, Links
<1>2. CASE SetupSucceeds(c)
  BY <1>2 DEF SetupSucceeds, IInv, Typed, OneConnection, Promises, Links
<1>3. CASE Answer(c)
  BY <1>3 DEF Answer, IInv, Typed, OneConnection
<1>4. CASE Close(c)
  BY <1>4 DEF Close, Closed, IInv, Typed, OneConnection, Promises, Links
<1> QED
  BY <1>1, <1>2, <1>3, <1>4

LEMMA FailedConnectionInvariant ==
    ASSUME IInv, NEW c \in Connections,
           \/ ConnectFails(c) \/ ConnectTimesOut(c) \/ SetupFails(c) \/ End(c) \/ Break(c)
    PROVE  IInv'
<1> USE DEF IInv, Typed, Promises, Links, Alive
<1>1. CASE ConnectFails(c)
  BY <1>1, FailureInvariant DEF ConnectFails, Reject
<1>2. CASE ConnectTimesOut(c)
  BY <1>2, FailureInvariant DEF ConnectTimesOut, Reject
<1>3. CASE SetupFails(c)
  BY <1>3, FailureInvariant DEF SetupFails, Reject
<1>4. CASE End(c)
  BY <1>4, FailureInvariant DEF End
<1>5. CASE Break(c)
  BY <1>5, FailureInvariant DEF Break, Closed
<1> QED
  BY <1>1, <1>2, <1>3, <1>4, <1>5

LEMMA StepInvariant ==
    ASSUME IInv, [Next]_vars
    PROVE  IInv'
<1>1. CASE Next
  BY <1>1, RequestInvariant, ConnectionInvariant, FailedConnectionInvariant DEF Next
<1>2. CASE UNCHANGED vars
  BY <1>2 DEF vars, IInv, Typed, OneConnection
<1> QED
  BY <1>1, <1>2

(* At every moment there is at most one connection that is being made or open and
   was not given up, and it is the one that requests join, for any number of
   requests and failures (beanstalk.js:121-187). *)
THEOREM AlwaysOneConnection == Spec => []OneConnection
<1>1. Spec => []IInv
  BY InitInvariant, StepInvariant, PTL DEF Spec
<1>2. IInv => OneConnection
  BY DEF IInv
<1> QED
  BY <1>1, <1>2, PTL
-----------------------------------------------------------------------------
(* The lines: a request is at most once in one line, and there exactly while it
   is pending; the connections still to be made have none. *)
LinesKept ==
    /\ line \in [Connections -> Seq(Requests)]
    /\ request \in [Requests -> Outcomes \cup {"none", "pending"}]
    /\ \A c \in Connections : c > made => line[c] = <<>>
    /\ \A c \in Connections : \A i, j \in 1 .. Len(line[c]) :
          line[c][i] = line[c][j] => i = j
    /\ \A r \in Requests : request[r] = "pending" <=> \E c \in Connections : Contains(line[c], r)
    /\ \A r \in Requests, c, d \in Connections :
          Contains(line[c], r) /\ Contains(line[d], r) => c = d

LInv == IInv /\ LinesKept

LEMMA ContainsAppend ==
    ASSUME NEW s \in Seq(Requests), NEW r \in Requests, NEW q \in Requests
    PROVE  Contains(Append(s, r), q) <=> Contains(s, q) \/ q = r
BY DEF Contains

LEMMA ContainsTail ==
    ASSUME NEW s \in Seq(Requests), s # <<>>, NEW q \in Requests,
           \A i, j \in 1 .. Len(s) : s[i] = s[j] => i = j
    PROVE  Contains(Tail(s), q) <=> Contains(s, q) /\ q # Head(s)
<1>1. ASSUME NEW i \in 1 .. Len(Tail(s)), Tail(s)[i] = q
      PROVE  Contains(s, q) /\ q # Head(s)
  BY <1>1 DEF Contains
<1>2. ASSUME NEW i \in 1 .. Len(s), s[i] = q, q # Head(s)
      PROVE  Contains(Tail(s), q)
  <2>1. i - 1 \in 1 .. Len(Tail(s)) /\ Tail(s)[i - 1] = q
    BY <1>2
  <2> QED
    BY <2>1 DEF Contains
<1> QED
  BY <1>1, <1>2 DEF Contains

LEMMA ContainsNothing == \A q : ~Contains(<<>>, q)
BY DEF Contains

LEMMA InitLines == Init => LinesKept
BY ContainsNothing DEF Init, LinesKept, Outcomes
(* A new request waits at the end of one line. *)
LEMMA JoinKeepsLines ==
    ASSUME LinesKept, NEW c \in Connections, NEW r \in Requests,
           made \in Nat, made' \in {made, made + 1}, c <= made',
           request[r] = "none",
           request' = [request EXCEPT ![r] = "pending"],
           line' = [line EXCEPT ![c] = Append(@, r)]
    PROVE  LinesKept'
<1> USE DEF LinesKept
<1>1. line' \in [Connections -> Seq(Requests)]
         /\ request' \in [Requests -> Outcomes \cup {"none", "pending"}]
  OBVIOUS
<1>2. ASSUME NEW d \in Connections, d > made' PROVE line'[d] = <<>>
  BY <1>2 DEF Connections
<1>3. \A d \in Connections : ~Contains(line[d], r)
  OBVIOUS
<1>4. ASSUME NEW d \in Connections, NEW i \in 1 .. Len(line'[d]), NEW j \in 1 .. Len(line'[d]),
             line'[d][i] = line'[d][j]
      PROVE  i = j
  <2>1. CASE d # c
    BY <1>4, <2>1
  <2>2. CASE d = c
    <3>1. line'[d] = Append(line[c], r) /\ line[c] \in Seq(Requests)
      BY <2>2
    <3>2. ASSUME NEW k \in 1 .. Len(line[c]) PROVE line[c][k] # r
      BY <1>3 DEF Contains
    <3> QED
      BY <1>4, <3>1, <3>2
  <2> QED
    BY <2>1, <2>2
<1>5. ASSUME NEW q \in Requests, NEW d \in Connections
      PROVE  Contains(line'[d], q) <=> Contains(line[d], q) \/ (d = c /\ q = r)
  BY ContainsAppend
<1>6. \A q \in Requests :
        request'[q] = "pending" <=> \E d \in Connections : Contains(line'[d], q)
  BY <1>5
<1>7. \A q \in Requests, d, e \in Connections :
        Contains(line'[d], q) /\ Contains(line'[e], q) => d = e
  BY <1>3, <1>5
<1> QED
  BY <1>1, <1>2, <1>4, <1>6, <1>7

(* The requests in a line are rejected together. *)
LEMMA RejectKeepsLines ==
    ASSUME LinesKept, NEW c \in Connections, RejectLine(c), made' = made
    PROVE  LinesKept'
<1> USE DEF LinesKept, RejectLine
<1>1. line' \in [Connections -> Seq(Requests)]
         /\ request' \in [Requests -> Outcomes \cup {"none", "pending"}]
  BY DEF Outcomes
<1>2. ASSUME NEW q \in Requests, NEW d \in Connections
      PROVE  Contains(line'[d], q) <=> Contains(line[d], q) /\ d # c
  BY ContainsNothing
<1>3. \A q \in Requests :
        request'[q] = "pending" <=> \E d \in Connections : Contains(line'[d], q)
  BY <1>2
<1>4. \A q \in Requests, d, e \in Connections :
        Contains(line'[d], q) /\ Contains(line'[e], q) => d = e
  BY <1>2
<1> QED
  BY <1>1, <1>3, <1>4

(* The first in line is answered. *)
LEMMA AnswerKeepsLines ==
    ASSUME LinesKept, NEW c \in Connections, Answer(c)
    PROVE  LinesKept'
<1> USE DEF LinesKept, Answer
<1>1. Head(line[c]) \in Requests /\ Contains(line[c], Head(line[c]))
  BY DEF Contains
<1>2. line' \in [Connections -> Seq(Requests)]
         /\ request' \in [Requests -> Outcomes \cup {"none", "pending"}]
  BY DEF Outcomes
<1>3. ASSUME NEW d \in Connections, d > made' PROVE line'[d] = <<>>
  BY <1>3
<1>4. ASSUME NEW d \in Connections, NEW i \in 1 .. Len(line'[d]), NEW j \in 1 .. Len(line'[d]),
             line'[d][i] = line'[d][j]
      PROVE  i = j
  <2>1. CASE d # c
    BY <1>4, <2>1
  <2>2. CASE d = c
    <3>1. line'[d] = Tail(line[c]) /\ line[c] \in Seq(Requests) /\ line[c] # <<>>
      BY <2>2
    <3>2. line[c][i + 1] = line[c][j + 1] /\ i + 1 \in 1 .. Len(line[c]) /\ j + 1 \in 1 .. Len(line[c])
      BY <1>4, <3>1
    <3>3. i + 1 = j + 1
      BY <3>2
    <3> QED
      BY <3>3
  <2> QED
    BY <2>1, <2>2
<1>5. ASSUME NEW q \in Requests, NEW d \in Connections
      PROVE  Contains(line'[d], q) <=> Contains(line[d], q) /\ ~(d = c /\ q = Head(line[c]))
  <2>1. CASE d = c
    <3>1. line[c] \in Seq(Requests) /\ line[c] # <<>> /\ line'[d] = Tail(line[c])
      BY <2>1
    <3> QED
      BY <2>1, <3>1, ContainsTail
  <2>2. CASE d # c
    BY <2>2
  <2> QED
    BY <2>1, <2>2
<1>6. \A q \in Requests :
        request'[q] = "pending" <=> \E d \in Connections : Contains(line'[d], q)
  <2> TAKE q \in Requests
  <2>1. CASE q = Head(line[c])
    BY <1>1, <1>5, <2>1
  <2>2. CASE q # Head(line[c])
    BY <1>5, <2>2
  <2> QED
    BY <2>1, <2>2
<1>7. \A q \in Requests, d, e \in Connections :
        Contains(line'[d], q) /\ Contains(line'[e], q) => d = e
  BY <1>5
<1> HIDE DEF Answer
<1> QED
  BY <1>2, <1>3, <1>4, <1>6, <1>7

LEMMA RestKeepsLines ==
    ASSUME LinesKept, UNCHANGED <<made, line, request>>
    PROVE  LinesKept'
BY DEF LinesKept

LEMMA RequestKeepsLines ==
    ASSUME LInv, NEW r \in Requests, Request(r)
    PROVE  LinesKept'
<1>1. CASE connectPromise = 0
  <2>1. Connect(r) /\ request' = [request EXCEPT ![r] = "pending"]
    BY <1>1 DEF Request
  <2>2. made + 1 \in Connections /\ made \in Nat
    BY <1>1, BeanstalkSessionAssumption DEF LInv, IInv, Typed, Connections
  <2>3. PICK c \in Connections : c = made + 1
    BY <2>2
  <2>4. line[c] = <<>>
    BY <2>2, <2>3 DEF LInv, LinesKept
  <2>5. line' = [line EXCEPT ![c] = Append(@, r)]
    BY <2>1, <2>3, <2>4 DEF Connect
  <2>6. made' \in {made, made + 1} /\ c <= made'
    BY <2>1, <2>2, <2>3 DEF Connect
  <2>7. request[r] = "none" /\ LinesKept
    BY DEF Request, LInv
  <2> QED
    BY <2>1, <2>2, <2>5, <2>6, <2>7, JoinKeepsLines
<1>2. CASE connectPromise # 0
  <2>1. connectPromise \in Connections /\ connectPromise <= made /\ made \in Nat
    BY <1>2, BeanstalkSessionAssumption DEF LInv, IInv, Typed, Connections
  <2>2. promise[connectPromise] # "rejected"
    BY <2>1 DEF LInv, IInv, OneConnection
  <2>3. /\ request' = [request EXCEPT ![r] = "pending"]
        /\ line' = [line EXCEPT ![connectPromise] = Append(@, r)]
        /\ made' = made
    BY <1>2, <2>2 DEF Request
  <2> QED
    BY <2>1, <2>3, JoinKeepsLines DEF LInv, Request
<1> QED
  BY <1>1, <1>2

LEMMA StepLines ==
    ASSUME LInv, [Next]_vars
    PROVE  LinesKept'
<1> USE DEF LInv
<1>1. ASSUME NEW r \in Requests, Request(r) PROVE LinesKept'
  BY <1>1, RequestKeepsLines
<1>2. ASSUME NEW c \in Connections,
             \/ Connected(c) \/ ConnectFails(c) \/ ConnectTimesOut(c)
             \/ SetupSucceeds(c) \/ SetupFails(c)
             \/ End(c) \/ Close(c) \/ Break(c)
      PROVE LinesKept'
  <2>1. made' = made
    BY <1>2 DEF Connected, ConnectFails, ConnectTimesOut, SetupSucceeds, SetupFails,
                End, Close, Break, Closed
  <2>2. RejectLine(c) \/ UNCHANGED <<line, request>>
    BY <1>2 DEF Connected, ConnectFails, ConnectTimesOut, SetupSucceeds, SetupFails,
                End, Close, Break, Closed, Reject
  <2> QED
    BY <2>1, <2>2, RejectKeepsLines, RestKeepsLines
<1>3. ASSUME NEW c \in Connections, Answer(c) PROVE LinesKept'
  BY <1>3, AnswerKeepsLines
<1>4. CASE UNCHANGED vars
  BY <1>4, RestKeepsLines DEF vars
<1> QED
  BY <1>1, <1>2, <1>3, <1>4 DEF Next

(* Every request that is pending is in the line of one connection, and no other
   is: none is forgotten when connections are replaced, and none is answered
   twice (beanstalk.js:68-116). *)
THEOREM TypeCorrect == Spec => []TypeOK
<1>1. Init => LInv
  BY InitInvariant, InitLines DEF LInv
<1>2. LInv /\ [Next]_vars => LInv'
  BY StepInvariant, StepLines DEF LInv
<1>3. LInv => TypeOK
  BY DEF LInv, IInv, Typed, LinesKept, TypeOK
<1> QED
  BY <1>1, <1>2, <1>3, PTL DEF Spec
=============================================================================
