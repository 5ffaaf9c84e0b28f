CONSTANTS
    Days = 1
    MaxFaults = 1
    Unhalts = FALSE
SPECIFICATION Spec
PROPERTY DeadlineBlocksEntries
CHECK_DEADLOCK FALSE
