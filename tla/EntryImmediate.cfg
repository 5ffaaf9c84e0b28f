CONSTANTS
    Side = "BUY"
    Lots = 3
    MaxAttempts = 3
    ExitAttempts = 1
    Limit = 7
    SentBefore = 0
    CancelCounts = TRUE
    ImmediateFills = TRUE
    None = None
SPECIFICATION Spec
INVARIANT NoExcess
CHECK_DEADLOCK FALSE
