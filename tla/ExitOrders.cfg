CONSTANTS
    Side = "SELL"
    Lots = 3
    MaxAttempts = 2
    ExitAttempts = 2
    Limit = 5
    SentBefore = 0
    CancelCounts = TRUE
    ImmediateFills = FALSE
    None = None
SPECIFICATION FairSpec
INVARIANTS TypeOK NoExcess SingleOpenOrder PositionCoversHolding
PROPERTIES WindowCloses DeadlineMarks
CHECK_DEADLOCK FALSE
