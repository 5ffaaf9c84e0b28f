CONSTANTS
    Days = 1
    MaxFaults = 0
    Unhalts = FALSE
SPECIFICATION Spec
PROPERTY ReportBeforeHalt
CHECK_DEADLOCK FALSE
