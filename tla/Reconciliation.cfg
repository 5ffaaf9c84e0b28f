CONSTANTS
    Instruments = {a}
    Value <- MCValue
    Lots = 2
    MaxOrders = 2
    Quarter = 2
    MaxTime = 4
    Window = 1
    None = None
SPECIFICATION Spec
INVARIANTS TypeOK NothingStands AlarmsExplained
PROPERTIES Detected
CHECK_DEADLOCK FALSE
