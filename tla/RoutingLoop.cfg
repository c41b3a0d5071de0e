CONSTANTS
    CHANNELS_PER_FPGA = 4
    Cases <- FivePorts
SPECIFICATION Spec
INVARIANT NoKernelTwice
CHECK_DEADLOCK FALSE
