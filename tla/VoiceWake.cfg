SPECIFICATION FairSpec
CONSTANTS
  QueueLen = 2
  SessionDrops = TRUE
  AudioFaults = FALSE
  CloudAnswers = FALSE
  MaxSuspends = 0
PROPERTIES
  WakeWordListens
