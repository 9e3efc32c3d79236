SPECIFICATION Spec
CONSTANTS
    MaxPosition = 3
    OrderSize = 2
    FillCounts <- MCFillCounts
    TradeCounts <- MCTradeCounts
    Total <- SumOf
    MaxOrders = 2
    MaxFailures = 1
    MaxRestarts = 0
CHECK_DEADLOCK FALSE
INVARIANTS PositionCap
