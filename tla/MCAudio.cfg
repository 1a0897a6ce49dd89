CONSTANTS
    Sample = {0, 1}
    capacity_ = 2
    MaxBlock = 2
    FrameSize = 2
    MaxCalls = 2
    MaxFrame = 2
SPECIFICATION AudioSpec
INVARIANTS JitterTypeOK OnlyNewCallsCollide PlaybackThreadJoined JoinsStoppedThreads
PROPERTIES ImplementsQueue RecordingsWhole
CHECK_DEADLOCK FALSE
CONSTRAINT RingOrMicrophone
