CONSTANTS
    BufferSize = 8
    ElementsPerPacket = 28
    WireDepth = 2
    NumMessages = 1
    MessageSizes <- CharSizes
    Rendezvous = TRUE
    Immediate <- Never
    UINT = 4096
SPECIFICATION Spec
INVARIANTS CountsElements
