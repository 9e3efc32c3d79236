SPECIFICATION Spec
CONSTANTS
    MaxPrice = 3
    MaxQty = 1
    Unparsable = Unparsable
    InitialBook <- EmptyBook
    Deltas <- MCDeltas
    BadDelta <- MCBadDelta
    Sids = {1}
    FillSid = 9
    FillSharesSid = TRUE
    SeqModulus = 16
    NoSid = NoSid
    NoView = NoView
    MaxChanges = 3
    MaxSeq = 4
    MaxMissed = 1
    MaxStream = 3
    MaxFaults = 0
CHECK_DEADLOCK FALSE
INVARIANT InSync
