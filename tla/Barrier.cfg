CONSTANTS
    NumRanks = 4
    NumBarriers = 3
    WireDepth = 1
SPECIFICATION Spec
INVARIANTS TypeOK BarrierHolds RequestsOfThisBarrier LiftedForWaiting
PROPERTIES ImplementsCollective
CHECK_DEADLOCK FALSE
