\* A path that ends in .gz.
SPECIFICATION SessionSpec
CONSTANTS
    FlushEvery = 2
    Formats = {TRUE}
    MaxRecords = 5
    MaxSessions = 2
    MaxDropped = 1
INVARIANTS
    KillCostsLittle
CHECK_DEADLOCK FALSE
