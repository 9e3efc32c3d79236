SPECIFICATION Spec
CONSTANTS
    kMaxFramePayload = 128
    kReceiveBufferSize = 64
    ByteXor <- MCXor
    Chunks <- MCChunks
    Prefix101 <- MCPrefix101
    Upgrades <- MCUpgrades
    ServerFrames <- MCFrames
    Garbage <- MCGarbage
    Keys <- MCKeys
    Subscribe <- MCSubscribe
    MaxFrames = 2
CHECK_DEADLOCK FALSE
INVARIANTS FramesInOrder BufferBound UpgradeNeverFramed PongsMatchPings
PROPERTY AllReceived
