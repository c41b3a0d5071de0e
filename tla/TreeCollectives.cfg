CONSTANTS
    NumRanks = 4
    WireDepth = 1
    Program <- Rounds
    ElementsPerPacket = 2
    credits_flow_control = 2
SPECIFICATION Spec
INVARIANTS ParentsAndChildrenMeet ResultRight OneBufferPerElement
PROPERTIES Completes
CHECK_DEADLOCK FALSE
