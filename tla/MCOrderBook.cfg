\* Three ticks and depth 1: one add is enough to push a level out of the window.
SPECIFICATION Spec
CONSTANTS
    MaxTick = 3
    Qty = {1, 2}
    Depth = 1
    MaxSeq = 2
    Frames <- MCFrames
INVARIANTS
    NeverCrossedAtRest
    IInv
PROPERTIES
    TakesFramesWhole
    TrimKeepsTouch
    SeqNamesTheBook
