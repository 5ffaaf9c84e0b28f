CONSTANTS
    Side = "SELL"
    Lots = 2
    MaxAttempts = 2
    ExitAttempts = 2
    Limit = 5
    SentBefore = 0
    CancelCounts = TRUE
    ImmediateFills = FALSE
    None = None
SPECIFICATION Spec
PROPERTY ExitReinitialized
CHECK_DEADLOCK FALSE
