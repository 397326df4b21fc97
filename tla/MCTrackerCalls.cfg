SPECIFICATION CallsSpec
CONSTANTS
    MaxTick = 3
    Qty = {1}
    Depth = 2
    ChecksumLevels = 1
    ZeroTops = {}
    MaxSeq = 3
    MaxBuffer = 1
    Frames <- MCFrames
INVARIANTS
    DistrustedBookIsFrozen
    AnswersAreHonest
