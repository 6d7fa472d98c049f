CONSTANTS
    s1 = s1
    s2 = s2
    Echo = Echo
    Pair = Pair
    StreamId <- MCStreamId
    Method <- MCMethod
    MethodChans <- MCMethodChans
    MaxChans = 2
    MaxMsgs = 4
    ReuseIds = TRUE
    ExactStreamCount = TRUE
    TypedItems = TRUE
    ReaderMayQuit = FALSE
SPECIFICATION Spec
INVARIANT OpenChannelsRegistered
CHECK_DEADLOCK FALSE
