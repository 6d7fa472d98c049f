CONSTANTS
    Payload <- MCPayload
    MaxBody = 1
    NumFrames = 2
    PSize = 4
    Aligned = FALSE
    EOFWithData = FALSE
SPECIFICATION Spec
INVARIANT ParsedFrames
CHECK_DEADLOCK FALSE
