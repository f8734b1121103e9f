\* Two queues share a limit of 1 or 2; every continuation runs in the end.
\* The system stops when every loop is parked.
SPECIFICATION FairSpec
CONSTANTS
    Queues = {q1, q2}
    Chains = {c1}
    Reservations = {r1, r2}
    Concurrencies = {1, 2}
    Rejected = Rejected
PROPERTIES ReservationsReturn StopDrains WaitingLoopWoken
CHECK_DEADLOCK FALSE
