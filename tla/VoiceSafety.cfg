SPECIFICATION Spec
CONSTANTS
  QueueLen = 2
  SessionDrops = TRUE
  AudioFaults = TRUE
  CloudAnswers = TRUE
  MaxSuspends = 1
INVARIANTS
  TypeOK
  AcceptedIsRead
  VadMeansRecording
  
