CONSTANTS
    N = 3
    LotNotional <- MCLotNotional
    Limit <- MCLimit
    MaxTotalExposure = 4
    CashUsageBuffer = 90
    SizeFactor = 50
    MinOrderNotional = 1
    MaxOpenPositions = 2
    MaxAttempts = 2
    MaxFaults = 1
    LateCancels = FALSE
    Cash = {4, 9}
    Old <- MCOld
    None = None
SPECIFICATION Spec
INVARIANTS TypeOK ExposureBounded SlotsBounded CashCovers ReducedKept
CHECK_DEADLOCK FALSE
