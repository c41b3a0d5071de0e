CONSTANTS
    NumRanks = 3
    WireDepth = 1
    Program <- Rounds
    ElementsPerPacket = 2
    credits_flow_control = 2
    READS_LIMIT = 1
SPECIFICATION Spec
INVARIANTS TypeOK NoIntermixing RequestsInTheirCollective NextElementRight SumsRight NothingLeft
PROPERTIES ReturnsWithNeeds Completes
CHECK_DEADLOCK FALSE
