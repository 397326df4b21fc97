SPECIFICATION Spec
CONSTANTS
    MaxTick = 5
    Qty = {1, 3}
    Depth = 3
    Slices = 3
    SliceQty = 2
    MaxViews = 2
    Candidates <- MCCandidates
    WindowCount = 3
    Duration = 3
    Span = 8
    MaxStream = 5
INVARIANTS
    SeesItsViews
    KeepsSchedule
    FillsAreWalks
    UnfilledOnlyForDepth
    LayersSumToShortfall
\* A window is priced, skipped or has ended the backtest, and that is the end.
CHECK_DEADLOCK FALSE
