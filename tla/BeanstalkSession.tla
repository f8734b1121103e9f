-------------------------- MODULE BeanstalkSession --------------------------
(***************************************************************************)
(* A session with a Beanstalk server: connecting, losing the connection,   *)
(* connecting again, and the requests made meanwhile (lib/beanstalk.js).   *)
(*                                                                         *)
(* The session caches the promise of its connection.  A request waits for  *)
(* that promise; when it resolves all that wait are sent in one turn, and  *)
(* later requests are sent when they are made.  A connection is set up     *)
(* (use or watch) before its promise resolves.  A promise that is rejected *)
(* and a connection that ends are discarded, so that the next request      *)
(* connects again.                                                         *)
(*                                                                         *)
(* Sockets, the Fivebeans client and the server are external.  The server  *)
(* answers in order; a request at the head of the line may be a reserve,   *)
(* which it answers late.  The socket ends in two events, 'end' and then   *)
(* 'close', or breaks with 'error' and 'close' together.  What a resolved  *)
(* promise sets off happens before the next event of the socket.           *)
(***************************************************************************)
EXTENDS Integers, Sequences, SequencesExt

CONSTANTS
    Requests,       (* the requests made to the session                       *)
    MaxFailures     (* how often a connection fails (bound)                   *)

ASSUME BeanstalkSessionAssumption == MaxFailures \in Nat

(* One more than can fail. *)
Connections == 1 .. MaxFailures + 1

VARIABLES
    connectPromise, (* _connectPromise: whose promise it is, 0 for null       *)
    made,           (* how many connections were made                         *)
    promise,        (* connection -> how far the promise of connect() is      *)
    link,           (* connection -> its socket                               *)
    line,           (* connection -> the requests that wait for it, then
                       those it was sent and did not answer                   *)
    request,        (* request -> what became of it                           *)
    failures        (* how often a connection failed                          *)

vars == <<connectPromise, made, promise, link, line, request, failures>>

Promises == { "none", "connecting", "setup", "resolved", "rejected" }

Links == { "none", "connecting", "open", "ended", "closed" }

Outcomes == { "resolved",       \* the server's answer
              "refused",        \* the server's answer is an error
              "rejected" }      \* no connection, or it was lost

Init ==
    /\ connectPromise = 0
    /\ made = 0
    /\ promise = [c \in Connections |-> "none"]
    /\ link = [c \in Connections |-> "none"]
    /\ line = [c \in Connections |-> <<>>]
    /\ request = [r \in Requests |-> "none"]
    /\ failures = 0

-----------------------------------------------------------------------------
(* connect(), when there is no promise, for the request that asks. *)
Connect(r) ==
    LET c == made + 1
    IN  /\ connectPromise' = c
        /\ made' = c
        /\ promise' = [promise EXCEPT ![c] = "connecting"]
        /\ link' = [link EXCEPT ![c] = "connecting"]
        /\ line' = [line EXCEPT ![c] = <<r>>]

(* request(): on the promise there is, or on a new one. *)
Request(r) ==
    /\ request[r] = "none"
    /\ LET c == connectPromise
       IN  \/ /\ c = 0
              /\ Connect(r)
              /\ request' = [request EXCEPT ![r] = "pending"]
           \/ /\ c # 0
              /\ IF promise[c] = "rejected"
                 THEN request' = [request EXCEPT ![r] = "rejected"] /\ UNCHANGED line
                 ELSE /\ request' = [request EXCEPT ![r] = "pending"]
                      /\ line' = [line EXCEPT ![c] = Append(@, r)]
              /\ UNCHANGED <<connectPromise, made, promise, link>>
    /\ UNCHANGED failures

(* Variant: whichever connection it is discards the promise. *)
AnyOnClose(c) == connectPromise' = 0

(* onClose: a connection discards its own promise only. *)
OnClose(c) == connectPromise' = IF connectPromise = c THEN 0 ELSE connectPromise

Fails == failures < MaxFailures /\ failures' = failures + 1

(* The requests in the line of a connection are rejected. *)
RejectLine(c) ==
    /\ request' = [r \in Requests |->
                      IF Contains(line[c], r) THEN "rejected" ELSE request[r]]
    /\ line' = [line EXCEPT ![c] = <<>>]

(* The promise is rejected before the connection is ready. *)
Reject(c) ==
    /\ promise' = [promise EXCEPT ![c] = "rejected"]
    /\ OnClose(c)
    /\ RejectLine(c)

-----------------------------------------------------------------------------
(***************************************************************************)
(* A connection.                                                           *)
(***************************************************************************)

(* 'connect'; too late if the timer fired, and nobody closes it then. *)
Connected(c) ==
    /\ link[c] = "connecting"
    /\ link' = [link EXCEPT ![c] = "open"]
    /\ promise' = [promise EXCEPT ![c] = IF @ = "connecting" THEN "setup" ELSE @]
    /\ UNCHANGED <<connectPromise, made, line, request, failures>>

(* 'error' or 'close' instead of 'connect'. *)
ConnectFails(c) ==
    /\ Fails
    /\ link[c] = "connecting"
    /\ link' = [link EXCEPT ![c] = "closed"]
    /\ IF promise[c] = "connecting" THEN Reject(c)
       ELSE OnClose(c) /\ UNCHANGED <<promise, line, request>>
    /\ UNCHANGED made

(* Variant: the rejected promise is kept. *)
KeptConnectTimesOut(c) ==
    /\ Fails
    /\ promise[c] = "connecting"
    /\ promise' = [promise EXCEPT ![c] = "rejected"]
    /\ RejectLine(c)
    /\ UNCHANGED <<connectPromise, made, link>>

(* CONNECT_TIMEOUT *)
ConnectTimesOut(c) ==
    /\ Fails
    /\ promise[c] = "connecting"
    /\ Reject(c)
    /\ UNCHANGED <<made, link>>

(* Variant: only requests made from now on are sent. *)
LossySetupSucceeds(c) ==
    /\ promise[c] = "setup" /\ link[c] = "open"
    /\ promise' = [promise EXCEPT ![c] = "resolved"]
    /\ line' = [line EXCEPT ![c] = <<>>]
    /\ UNCHANGED <<connectPromise, made, link, request, failures>>

(* The server answers the setup: all requests that wait are sent. *)
SetupSucceeds(c) ==
    /\ promise[c] = "setup" /\ link[c] = "open"
    /\ promise' = [promise EXCEPT ![c] = "resolved"]
    /\ UNCHANGED <<connectPromise, made, link, line, request, failures>>

(* It answers with an error: the connection stays open. *)
SetupFails(c) ==
    /\ Fails
    /\ promise[c] = "setup" /\ link[c] = "open"
    /\ Reject(c)
    /\ UNCHANGED <<made, link>>

(* The server answers the first request in line. *)
Answer(c) ==
    /\ promise[c] = "resolved" /\ link[c] = "open"
    /\ line[c] # <<>>
    /\ \E outcome \in {"resolved", "refused"} :
          request' = [request EXCEPT ![Head(line[c])] = outcome]
    /\ line' = [line EXCEPT ![c] = Tail(@)]
    /\ UNCHANGED <<connectPromise, made, promise, link, failures>>

(* 'end': requests made from now on go to another connection. *)
End(c) ==
    /\ Fails
    /\ link[c] = "open"
    /\ link' = [link EXCEPT ![c] = "ended"]
    /\ OnClose(c)
    /\ UNCHANGED <<made, promise, line, request>>

(* What 'close' and 'error' do to the requests that were sent.  Those that wait
   for the setup do not listen, and nobody calls back the setup. *)
Closed(c) ==
    /\ link' = [link EXCEPT ![c] = "closed"]
    /\ IF promise[c] = "resolved" THEN RejectLine(c) ELSE UNCHANGED <<line, request>>
    /\ UNCHANGED <<made, promise>>

(* Variant: requests do not listen to the connection. *)
UnheardClose(c) ==
    /\ link[c] = "ended"
    /\ link' = [link EXCEPT ![c] = "closed"]
    /\ UNCHANGED <<connectPromise, made, promise, line, request, failures>>

Close(c) ==
    /\ link[c] = "ended"
    /\ Closed(c)
    /\ UNCHANGED <<connectPromise, failures>>

(* 'error' on a connection that was open. *)
Break(c) ==
    /\ Fails
    /\ link[c] = "open"
    /\ Closed(c)
    /\ OnClose(c)

Next ==
    \/ \E r \in Requests : Request(r)
    \/ \E c \in Connections :
          \/ Connected(c) \/ ConnectFails(c) \/ ConnectTimesOut(c)
          \/ SetupSucceeds(c) \/ SetupFails(c)
          \/ Answer(c)
          \/ End(c) \/ Close(c) \/ Break(c)

Spec == Init /\ [][Next]_vars

(* A connection is made or CONNECT_TIMEOUT ends it, an open one is answered, and
   'close' follows 'end'.  Connections need not fail. *)
FairSpec ==
    /\ Spec
    /\ \A c \in Connections :
          /\ WF_vars(Connected(c) \/ ConnectTimesOut(c))
          /\ WF_vars(SetupSucceeds(c) \/ SetupFails(c))
          /\ WF_vars(Answer(c))
          /\ WF_vars(Close(c))

-----------------------------------------------------------------------------
(* Every variable keeps its type, and a request is in the line of one connection
   exactly while it is pending. *)
TypeOK ==
    /\ connectPromise \in 0 .. made
    /\ made \in 0 .. failures + 1
    /\ promise \in [Connections -> Promises]
    /\ link \in [Connections -> Links]
    /\ request \in [Requests -> Outcomes \cup {"none", "pending"}]
    /\ failures \in 0 .. MaxFailures
    /\ \A r \in Requests :
          /\ request[r] = "pending" <=> \E c \in Connections : Contains(line[c], r)
          /\ \A c, d \in Connections : Contains(line[c], r) /\ Contains(line[d], r) => c = d

(* "we only want to establish the connection once", "Watch for end and switch to
   new session": requests join exactly the connection that was not given up and
   is being made or open.  So there is at most one, a late event of an older one
   does not touch it, and none is joined that ended (beanstalk.js:121-187). *)
OneConnection ==
    \A c \in Connections :
        connectPromise = c <=> promise[c] # "rejected" /\ link[c] \in {"connecting", "open"}

Abandoned(r) ==
    \E c \in Connections :
        /\ Contains(line[c], r)
        /\ promise[c] = "setup"
        /\ link[c] \in {"ended", "closed"}

(* "so we need to catch these events ourselves and reject the promise": every
   request is answered or rejected, unless its connection is lost while it is set
   up, when nobody ever does. *)
RequestsSettle ==
    \A r \in Requests :
        request[r] = "pending" ~> (request[r] # "pending" \/ Abandoned(r))

(* "automatically reconnected after failure": a request made after the last
   failure gets the server's answer, whatever the failures left behind. *)
Reconnects ==
    \A r \in Requests :
        [](failures = MaxFailures /\ request[r] = "none" =>
              [](request[r] = "none") \/ <>(request[r] \in {"resolved", "refused"}))
=============================================================================
