\* One queue that may be started and one that may not, two sweeps at a time;
\* a restarted queue may have two loops.
SPECIFICATION LFairSpec
CONSTANTS
    Queues = {q1, q2}
    Startable = {q1}
    Sweeps = {s1, s2}
    MaxInFlight = 2
    Chains = {c1, c2}
    Reservations = {r1}
    Concurrencies = {1}
    Rejected = Rejected
INVARIANTS OnlyStartable ProcessingHasLoop StartedQueuesProcess
PROPERTY StartReachesQueues
