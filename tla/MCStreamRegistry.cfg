CONSTANTS
    s1 = s1
    s2 = s2
    Echo = Echo
    Pair = Pair
    StreamId <- MCStreamId
    Method <- MCMethod
    MethodChans <- MCMethodChans
    MaxChans = 2
    MaxMsgs = 4
    ReuseIds = FALSE
    ExactStreamCount = FALSE
    TypedItems = FALSE
    ReaderMayQuit = TRUE
SPECIFICATION Spec
INVARIANT OpenChannelsRegistered
INVARIANT RegistryInv
CHECK_DEADLOCK FALSE
