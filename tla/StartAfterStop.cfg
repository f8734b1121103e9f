\* The smallest instance: stop() between start() and its visit of a queue.
SPECIFICATION LSpec
CONSTANTS
    Queues = {q1, q2}
    Startable = {q1, q2}
    Sweeps = {s1}
    MaxInFlight = 2
    Chains = {c1}
    Reservations = {r1}
    Concurrencies = {1}
    Rejected = Rejected
PROPERTY StopStays
