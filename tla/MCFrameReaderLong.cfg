CONSTANTS
    Byte <- MCByte
    MaxFrameLen = 2
    NumFrames = 2
    ReadSize = 1
    Aligned = TRUE
SPECIFICATION Spec
INVARIANT FrameIntegrity
CHECK_DEADLOCK FALSE
