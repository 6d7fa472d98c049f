CONSTANTS
    s1 = s1
    s2 = s2
    Echo = Echo
    Pair = Pair
    StreamId <- MCStreamId
    Method <- MCMethod
    MethodChans <- MCMethodChans
    MaxChans = 2
    MaxMsgs = 5
    ReuseIds = FALSE
    ExactStreamCount = TRUE
    TypedItems = TRUE
    ReaderMayQuit = FALSE
SPECIFICATION Spec
PROPERTY MessagesEventuallyHandled
CHECK_DEADLOCK FALSE
