SPECIFICATION FairSpec
CONSTANTS
    MaxRow = 3
    BatchSize = 2
    MarkBatch = 1
    InOrder = TRUE
    MaxFaults = 3
INVARIANT SyncedWereReceived
INVARIANT BacklogIsLostAcks
PROPERTY QuietAfterStop
PROPERTY StopReturns
PROPERTY EveryRowReachesCloud
CHECK_DEADLOCK FALSE
