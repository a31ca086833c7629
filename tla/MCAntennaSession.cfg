SPECIFICATION FairSpec
CONSTANTS
    Protocols = {"chainway", "generic"}
    InitialBackoff = 1
    MaxBackoff = 3
    MaxSilent = 3
    Width = 8
    MaxSession = 1
    Stoppable = {1}
    MaxAttempt = 2
INVARIANT StartThenStop
INVARIANT NoRFLeftOn
PROPERTY DeadLinkIsGivenUp
PROPERTY ShutdownEnds
CHECK_DEADLOCK FALSE
