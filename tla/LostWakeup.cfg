\* One queue, one job: the capacity is freed before the loop is on the list.
SPECIFICATION FairSpec
CONSTANTS
    Queues = {q1}
    Chains = {c1}
    Reservations = {r1}
    Concurrencies = {1}
    Rejected = Rejected
PROPERTY WaitingEnds
CHECK_DEADLOCK FALSE
