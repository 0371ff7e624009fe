SPECIFICATION Spec
CONSTANTS
  MotionQueueDepth = 3
  Durations <- LongDuration
  TickMod = 3
  MaxSeq = 3
  ServoFaults = TRUE
  TxFaults = FALSE
  Reused = {1}
PROPERTIES
  Answered
