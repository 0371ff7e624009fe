SPECIFICATION Spec
CONSTANTS
  MotionQueueDepth = 3
  Durations <- LongDuration
  TickMod = 8
  MaxSeq = 3
  ServoFaults = FALSE
  TxFaults = FALSE
  Reused = {}
INVARIANTS
  DoneOnce
