CONSTANTS
    Byte <- MCByte
    MaxFrameLen = 3
    NumFrames = 3
    ReadSize = 2
    Aligned = TRUE
SPECIFICATION Spec
INVARIANT TypeOK
INVARIANT FrameIntegrity
PROPERTY AllFramesReceived
CHECK_DEADLOCK FALSE
