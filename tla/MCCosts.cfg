SPECIFICATION Spec
CONSTANTS
    Touches <- SomeTouches
    PrintPrices <- SomePrints
    Horizons = {1, 2}
    Buckets = {2, 3}
    MaxTick = 5
    MaxFrames = 2
INVARIANTS
    BooksWereSeen
    SharesNameTheTouch
    HorizonIsWhole
    ImpactIsForwardReturn
    BucketsAreEven
\* The capture is over and the costs are measured, or no live trade came.
CHECK_DEADLOCK FALSE
