SPECIFICATION Spec
CONSTANTS
    MaxPrice = 4
    MaxQty = 2
    Unparsable = Unparsable
    Snapshots <- MCSnapshots
    Deltas <- MCDeltas
INVARIANTS BestIsTop LevelsNonNegative BookIsReplay
PROPERTIES NoSilentWrap
