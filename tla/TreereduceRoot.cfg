CONSTANTS
    NumRanks = 4
    WireDepth = 1
    Roots <- TwoRoots
    Counts <- OneThenTwo
    credits_flow_control = 2
SPECIFICATION Spec
INVARIANT OneBufferPerElement
CHECK_DEADLOCK FALSE
