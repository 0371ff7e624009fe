SPECIFICATION Spec
CONSTANTS
  QueueLen = 2
  SessionDrops = FALSE
  AudioFaults = FALSE
  CloudAnswers = FALSE
  MaxSuspends = 0
INVARIANT
  LatestTargetCounts
