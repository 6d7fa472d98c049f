CONSTANTS
    g1 = g1
    g2 = g2
    Sender <- MCTwoSenders
    EasyKinds <- Kind
    MaxCalls = 1
    WriteMayFail = FALSE
SPECIFICATION Spec
INVARIANT WritesIntact
CHECK_DEADLOCK FALSE
