SPECIFICATION FairSpec
CONSTANTS
  Frames = 3
  FrameLength = 2
  ChunkSize = 4
  QueueDepth = 3
  RingSize = 4
  CandidateSize = 2
  LineErrors = TRUE
  RearmFaults = TRUE
  DispatchFaults = TRUE
INVARIANTS
  TypeOK
  StreamInOrder
PROPERTIES
  DeliversInOrder
  Arrived
  RuntimePolled
