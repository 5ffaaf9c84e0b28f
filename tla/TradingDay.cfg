CONSTANTS
    Days = 2
    MaxFaults = 2
    Unhalts = TRUE
SPECIFICATION FairSpec
INVARIANTS TypeOK IllegalOnlyAfterMiss ReportsBounded
PROPERTIES EntersFlat MissedReportSent
CHECK_DEADLOCK FALSE
