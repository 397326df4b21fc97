\* No update carries a checksum, as in a synthetic capture; nothing is lost.
SPECIFICATION InspectSpec
CONSTANTS
    MaxTick = 4
    Qty = {1}
    Depth = 2
    ChecksumLevels = 1
    ZeroTops = {}
    Carries = {FALSE}
    MaxSent = 4
    MaxChanged = 2
    MaxGap = 1
INVARIANTS
    FollowsWithoutChecksum
CHECK_DEADLOCK FALSE
