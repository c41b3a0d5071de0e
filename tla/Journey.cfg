CONSTANTS
    CHANNELS_PER_FPGA = 4
    Cases <- Small
SPECIFICATION Spec
INVARIANTS GivenToItsOperation NoKernelTwice
PROPERTIES EveryCableApproaches Arrives
CHECK_DEADLOCK FALSE
