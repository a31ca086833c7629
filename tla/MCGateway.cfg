SPECIFICATION GatewaySpec
CONSTANTS
    Handlers = {h}
    Antennas = {a}
    Buffer = 1
    Requesters = {r1, r2}
INVARIANT GoneLeavesNothing
INVARIANT PanicsAreContained
PROPERTY OnlyTheCloudHoldsAntennas
PROPERTY OnlyTheCloudHoldsTheShutdown
CHECK_DEADLOCK FALSE
