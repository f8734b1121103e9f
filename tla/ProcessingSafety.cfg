\* One queue that may be stopped and started while its loop is in flight, so
\* that two loops run on the same counter; the limit is 1 or 2 and may change,
\* or be lost, while loops and jobs wait for the old one.
SPECIFICATION Spec
CONSTANTS
    Queues = {q1}
    Chains = {c1, c2}
    Reservations = {r1, r2, r3}
    Concurrencies = {1, 2}
    Rejected = Rejected
SYMMETRY Symmetry
CONSTRAINT PromiseHolds
INVARIANTS TypeOK CapacityAccounting ConcurrencyLimit OneOwner WaitersParked
PROPERTY RefinesPool
