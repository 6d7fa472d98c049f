CONSTANTS
    Payload <- MCPayload
    MaxBody = 2
    NumFrames = 3
    PSize = 3
    Aligned = TRUE
    EOFWithData = FALSE
SPECIFICATION Spec
INVARIANT TypeOK
INVARIANT ParsedFrames
PROPERTY AllFramesParsed
CHECK_DEADLOCK FALSE
