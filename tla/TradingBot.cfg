SPECIFICATION BotSpec
CONSTANTS
    entry_edge = 1
    max_spread = 2
    order_size = 1
    max_position = 1
    warmup = 1
    cooldown = 1
    Prices <- MCPrices
    NoPrice = NoPrice
    NoValue = NoValue
    Exposures <- MCExposures
    MaxTime = 2
    MaxPrice = 5
    MaxQty = 1
    Unparsable = Unparsable
    InitialBook <- MCInitialBook
    Deltas <- MCDeltas
    BadDelta <- MCBadDelta
    Sids = {1}
    FillSid = 9
    FillSharesSid = TRUE
    SeqModulus = 4
    NoSid = NoSid
    NoView = NoView
    MaxChanges = 3
    MaxSeq = 5
    MaxMissed = 1
    MaxStream = 3
    MaxFaults = 1
    FillCounts = {0, 100}
    TradeCounts = {100}
    Total <- SumOf
    MaxOrders = 2
    MaxFailures = 1
CHECK_DEADLOCK FALSE
INVARIANTS BotTypeOK OrdersAtTouch BotInSync OrdersSpaced
PROPERTIES FlowSpec BotResyncs
