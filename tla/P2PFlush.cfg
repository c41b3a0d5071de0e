CONSTANTS
    BufferSize = 8
    ElementsPerPacket = 2
    WireDepth = 1
    NumMessages = 2
    MessageSizes <- FlushSizes
    Rendezvous = TRUE
    Immediate <- Both
    UINT = 256
SPECIFICATION Spec
INVARIANTS InOrder
PROPERTIES Completes
