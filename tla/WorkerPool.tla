----------------------------- MODULE WorkerPool -----------------------------
(***************************************************************************)
(* What a worker process promises of its capacity: jobs come and go, and   *)
(* there are never more of them than the limit, which may change.  The     *)
(* promise is void from the moment a limit is set that cannot be kept.     *)
(***************************************************************************)
EXTENDS Integers, FiniteSets

CONSTANTS
    Items,      (* what may be worked on                       *)
    Limits,     (* the limits that may be set: natural numbers *)
    None        (* the promise is void                         *)

VARIABLES
    busy,       (* the items worked on                *)
    limit       (* the limit that is promised, or None *)

Init == busy = {} /\ limit \in Limits

Take(items) ==
    /\ limit # None
    /\ items \cap busy = {}
    /\ Cardinality(busy \cup items) <= limit
    /\ busy' = busy \cup items
    /\ UNCHANGED limit

Free(item) ==
    /\ item \in busy
    /\ busy' = busy \ {item}
    /\ UNCHANGED limit

SetLimit(n) ==
    /\ limit # None
    /\ Cardinality(busy) <= n
    /\ limit' = n
    /\ UNCHANGED busy

(* A limit is set that cannot be kept. *)
Lapse ==
    /\ limit' = None
    /\ UNCHANGED busy

(* From then on nothing is promised. *)
Void == limit = None /\ limit' = None

Next ==
    \/ \E items \in SUBSET Items : Take(items)
    \/ \E item \in Items : Free(item)
    \/ \E n \in Limits : SetLimit(n)
    \/ Lapse
    \/ Void

Spec == Init /\ [][Next]_<<busy, limit>>

=============================================================================
