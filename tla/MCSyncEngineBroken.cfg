SPECIFICATION FairSpec
CONSTANTS
    MaxRow = 3
    BatchSize = 2
    MarkBatch = 1
    InOrder = TRUE
    MaxFaults = 1
PROPERTY BrokenConnectionIsReplaced
CHECK_DEADLOCK FALSE
