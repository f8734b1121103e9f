SPECIFICATION FairSpec
CONSTANTS
    Length <- MCLength
    Batches = {b1}
    BatchSize = 3
    ChunkSize = 2
    PartialRefusals = TRUE
    Concurrency <- MCConcurrency
PROPERTY
    TerminatesOnError
CHECK_DEADLOCK FALSE
