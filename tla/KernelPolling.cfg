CONSTANTS
    CHANNELS_PER_FPGA = 4
    NumSender = 3
    port = port
    link = link
    Outputs = {port, link}
    READS_LIMIT = 2
    CHAR_MAX = 7
    Depth = 2
    Load <- Loads
SPECIFICATION Spec
INVARIANTS TypeOK BoundedBypass LinksAreReliable
PROPERTIES EveryMessageDelivered
