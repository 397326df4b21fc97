\* Of the updates between two snapshots two may come without a checksum or get
\* lost, enough for a view that says false, one that says nothing and one more;
\* the CRC32 of one top of book is 0.
SPECIFICATION InspectSpec
CONSTANTS
    MaxTick = 4
    Qty = {1}
    Depth = 2
    ChecksumLevels = 1
    ZeroTops <- OneZeroTop
    Carries = {TRUE, FALSE}
    MaxSent = 5
    MaxChanged = 1
    MaxGap = 2
INVARIANTS
    WindowFollowsVenue
    TrueRowsAreTrue
    FalseRowsAreReported
    FalseUntilSnapshot
PROPERTIES
    VerifierFollowsVenue
    BookSeqOrdersRows
\* The capture ends, or a ValueError ends the replay.
CHECK_DEADLOCK FALSE
