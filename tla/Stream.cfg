SPECIFICATION FairSpec
CONSTANTS
    Length <- MCLength
    Batches = {b1}
    BatchSize = 3
    ChunkSize = 2
    PartialRefusals = TRUE
    Concurrency <- MCConcurrency
INVARIANTS
    TypeOK
    FinishedMeansAnswered
    ResolvedMeansStored
PROPERTIES
    ThrottleOpens
CHECK_DEADLOCK FALSE
