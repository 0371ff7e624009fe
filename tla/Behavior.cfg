CONSTANTS
    Catalog <- MCCatalog
    ActionCatalog <- MCActions
    Default = "standby"
    Names = {"standby", "boot", "custom", "wave"}
    Texts = {"hello"}
    NoName = "none"
    NoText = "none"
    DefaultHold = 2
    LookAhead = 1
    Horizon = 2
    MaxRequests = 2
    Messages <- MCMessages
    DirectRequests <- MCDirect
    TouchRequest <- MCTouch
    StateQueueDepth = 1
SPECIFICATION FairSpec
INVARIANTS TypeOK MotionsInOrder ScreenFollowsState
PROPERTIES RequestApplied OneShotEnds
CHECK_DEADLOCK FALSE
