CONSTANTS
    BufferSize = 8
    ElementsPerPacket = 3
    WireDepth = 2
    NumMessages = 2
    MessageSizes <- DoubleSizes
    Rendezvous = TRUE
    Immediate <- Never
    UINT = 512
SPECIFICATION Spec
INVARIANTS TypeOK WithinBuffer NeverStalls OverlapBound NoStaleTokens DataInv TokenInv
PROPERTIES Completes ImplementsStream
