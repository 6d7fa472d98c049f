CONSTANTS
    Payload <- MCPayload
    MaxBody = 2
    NumFrames = 2
    PSize = 3
    Aligned = TRUE
    EOFWithData = TRUE
SPECIFICATION Spec
PROPERTY AllFramesParsed
CHECK_DEADLOCK FALSE
