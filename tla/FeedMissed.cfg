SPECIFICATION Spec
CONSTANTS
    MaxPrice = 3
    MaxQty = 1
    Unparsable = Unparsable
    InitialBook <- EmptyBook
    Deltas <- MCDeltas
    BadDelta <- MCBadDelta
    Sids = {1}
    FillSid = 9
    FillSharesSid = FALSE
    SeqModulus = 16
    NoSid = NoSid
    NoView = NoView
    MaxChanges = 4
    MaxSeq = 4
    MaxMissed = 2
    MaxStream = 3
    MaxFaults = 1
CHECK_DEADLOCK FALSE
INVARIANTS InSync NoBookWithoutSnapshot
PROPERTIES ReplicaSpec Resyncs
