CONSTANTS
    g1 = g1
    g2 = g2
    Sender <- MCTwoSenders
    EasyKinds <- MCEasyButInvocation
    MaxCalls = 1
    WriteMayFail = TRUE
SPECIFICATION Spec
INVARIANT TypeOK
CHECK_DEADLOCK FALSE
