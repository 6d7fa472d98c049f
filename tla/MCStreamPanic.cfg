CONSTANTS
    s1 = s1
    s2 = s2
    Echo = Echo
    Pair = Pair
    StreamId <- MCStreamId
    Method <- MCMethod
    MethodChans <- MCMethodChans
    MaxChans = 2
    MaxMsgs = 4
    ReuseIds = FALSE
    ExactStreamCount = TRUE
    TypedItems = FALSE
    ReaderMayQuit = FALSE
SPECIFICATION Spec
INVARIANT NoPanic
CHECK_DEADLOCK FALSE
