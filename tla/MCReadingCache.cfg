SPECIFICATION FairSpec
CONSTANTS
    r1 = r1
    r2 = r2
    r3 = r3
    r4 = r4
    f1 = f1
    Readings = {r1, r2, r3, r4}
    Invalid = {r4}
    Flushers = {f1}
    BufferSize = 1
    BatchMax = 2
    MaxAttempts = 2
    MaxRestarts = 1
INVARIANT NothingUnaccounted
INVARIANT SecondRowOnlyAfterPartialFailure
INVARIANT FlushIsABarrier
PROPERTY ImplementsReadingStore
PROPERTY AcceptedIsSettled
PROPERTY CallsReturn
CHECK_DEADLOCK FALSE
