SPECIFICATION FramesSpec
CONSTANTS
    Bytes <- MCBytes
    Starts = {1}
    GenericHeader = 2
    Header1 = 1
    Header2 = 2
    ChainwayHeader = 3
    MinFrame = 4
    MaxFrame = 4
    Modulus = 3
    MaxBuffer = 8
    MaxChunk = 4
    MaxStream = 8
INVARIANT FramesDoNotDependOnChunks
CHECK_DEADLOCK FALSE
