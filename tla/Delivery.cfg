\* Two workers, two handlers, the three brokers; the delays are 1, 2, 4, 4.
SPECIFICATION FairSpec
CONSTANTS
    Workers = {w1, w2}
    Handlers = {h1, h2}
    ProcessingTimeout = 2
    Latency = 1
    MaxReleaseDelay = 4
    Brokers <- MCBrokers
    MaxCount = 4
    None = None
INVARIANTS DeletedOnlyIfSucceeded OneAttemptRunsInTime
PROPERTIES ComesBack TriedUntilDeleted BackoffGrows
