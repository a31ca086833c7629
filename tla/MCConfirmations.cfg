SPECIFICATION FairSpec
CONSTANTS
    Confirmations = {c1, c2, c3}
    None = None
    MaxPending = 2
    Limit = 2
    MaxRetries = 1
    MaxSecond = 1
    MaxFaults = 2
INVARIANT AcceptedIsKept
INVARIANT DuplicatesAreAccounted
PROPERTY QueuedSettles
CHECK_DEADLOCK FALSE
