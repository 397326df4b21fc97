SPECIFICATION FairSpec
CONSTANTS
    Channels = {"book", "trade"}
    MaxReconnects = 2
    MaxChatter = 2
INVARIANTS
    LadderMatchesAttempts
    GivesUpExactly
    NoUnnoticedRefusal
    RefusalIsFinal
    NoSocketLeaks
PROPERTIES
    CloseEndsTheStream
    SilenceIsNoticed
    CollectedFramesAreYielded
\* The stream ends when it is closed, gives up, is refused, or
\* receives what it cannot decode.
CHECK_DEADLOCK FALSE
