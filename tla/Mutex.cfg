\* A job that runs once, one at the shortest interval, one that is retried.
SPECIFICATION Spec
CONSTANTS
    Processes = {p1, p2}
    Intervals = {0, 4, 8}
    Occurrences = 2
    Ttl = 3
    RetryDelay = 1
    RetryAbove = 6
    MaxSkew = 1
    MaxDelay = 1
    MaxFailures = 2
    MaxAgain = 2
INVARIANTS OncePerFailure QueuedUnlessFailed
CHECK_DEADLOCK FALSE
