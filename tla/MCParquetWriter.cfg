SPECIFICATION Spec
CONSTANTS
    Partitions = {p1, p2}
    Schemas = {v1, v2}
    MaxRows = 2
    MaxTaken = 3
    MaxRuns = 2
SYMMETRY Symmetry
INVARIANTS
    RowsConserved
    PartsAreBounded
PROPERTIES
    NothingOverwritten
    MixingFails
\* The last conversion is the end.
CHECK_DEADLOCK FALSE
