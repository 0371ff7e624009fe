CONSTANTS
    Depth = 2
    StartBuffer = 2
    MaxFrames = 3
    MaxSounds = 1
    MaxChunks = 1
    MaxFailures = 1
    MaxLosses = 1
SPECIFICATION FairSpec
INVARIANTS TypeOK SpeechInOrder SpeakerReserved
PROPERTY SpeechEnds
CHECK_DEADLOCK FALSE
