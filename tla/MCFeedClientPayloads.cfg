SPECIFICATION Spec
CONSTANTS
    Channels = {"book", "trade"}
    MaxReconnects = 1
    MaxChatter = 1
INVARIANTS
    ParseNeverRaises
CHECK_DEADLOCK FALSE
