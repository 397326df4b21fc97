SPECIFICATION SessionSpec
CONSTANTS
    FlushEvery = 3
    Formats = {TRUE, FALSE}
    MaxRecords = 6
    MaxSessions = 3
    MaxDropped = 1
INVARIANTS
    ControlSurvives
    LossIsATail
    HeaderLossIsTorn
    PumpHasItsFile
    SeqGapsAreExplained
\* Every session is over and no record is left to write.
CHECK_DEADLOCK FALSE
