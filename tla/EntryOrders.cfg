CONSTANTS
    Side = "BUY"
    Lots = 3
    MaxAttempts = 3
    ExitAttempts = 1
    Limit = 7
    SentBefore = 0
    CancelCounts = TRUE
    ImmediateFills = FALSE
    None = None
SPECIFICATION FairSpec
INVARIANTS TypeOK NoExcess SingleOpenOrder BooksFollowOrders FreeOrdersCounted
PROPERTY WindowCloses
CHECK_DEADLOCK FALSE
