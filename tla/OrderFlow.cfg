SPECIFICATION Spec
CONSTANTS
    MaxPosition = 2
    OrderSize = 2
    FillCounts <- MCFillCounts
    TradeCounts <- MCTradeCounts
    Total <- SumOf
    MaxOrders = 4
    MaxFailures = 2
    MaxRestarts = 1
CHECK_DEADLOCK FALSE
INVARIANTS OvershootBound ExposureIsTruth Accounting StatusIsTruth
