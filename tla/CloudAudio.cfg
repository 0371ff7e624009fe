CONSTANTS
    Depth = 2
    MaxFrames = 3
    MaxUtterances = 2
    MaxLosses = 1
SPECIFICATION FairSpec
INVARIANTS TypeOK SlotsKept FramesInOrder FirstBegins
PROPERTIES EndIsSent
CHECK_DEADLOCK FALSE
