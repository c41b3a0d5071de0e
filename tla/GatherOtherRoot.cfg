CONSTANTS
    NumRanks = 3
    WireDepth = 1
    Roots <- OtherRoot
    SendCounts <- OneEach
    RecvCounts <- OneEach
    ElementsPerPacket = 2
SPECIFICATION Spec
INVARIANTS WaitsForItsRoot
CHECK_DEADLOCK FALSE
