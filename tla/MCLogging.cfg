\* With and without LIBTOR_LOG; three channels, so up to three generations.
CONSTANTS
    LogQueueDepth = 2
    logBuffer = 1
    MaxRecords = 3
    MaxChannels = 3
SPECIFICATION Spec
INVARIANTS
    NoSendOnClosed
    OneLivePump
    NothingTwice
    EnabledMeansCollected
PROPERTIES
    StoppedPumpsReturn
    QueueDrains
CHECK_DEADLOCK FALSE
