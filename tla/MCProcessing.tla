---------------------------- MODULE MCProcessing ----------------------------
(* Processing on a few queues, chains and reservations, for TLC; the symmetry
   is for the run without liveness properties. *)
EXTENDS Processing, TLC

Symmetry ==
    Permutations(Queues) \cup Permutations(Chains) \cup Permutations(Reservations)

(* Bound: once configure() made the promise of a limit void the counter may
   drift without end; such states are checked, and not left. *)
PromiseHolds == agreed # Rejected

=============================================================================
