SPECIFICATION FairSpec
CONSTANTS
    MaxTracks = 2
    MaxPipe = 2
    MaxCalls = 2
INVARIANTS
    NoDeadlyEmbrace
    FillerIsWoken
    RemovedIsNotGranted
PROPERTIES
    PromisesKept
    HaltsArrive
    QuitEnds
CHECK_DEADLOCK FALSE
