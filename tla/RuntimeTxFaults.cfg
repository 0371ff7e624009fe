SPECIFICATION FairSpec
CONSTANTS
  MotionQueueDepth = 3
  Durations <- LongDuration
  TickMod = 3
  MaxSeq = 4
  ServoFaults = FALSE
  TxFaults = TRUE
  Reused = {}
INVARIANTS
  TypeOK
  NoStrandedMove
  NoMoveLost
  DoneTwiceOnlyOverJog
PROPERTIES
  StartsInOrder
  NextStartsAfterReport
  NotEarlyBeforeWrap
  JogEnds
  MovesEnd
