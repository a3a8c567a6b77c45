SPECIFICATION FairSpec
CONSTANTS
    MaxTracks = 1
    MaxPipe = 1
    MaxCalls = 3
PROPERTIES
    NothingPlaysAfterStop
CHECK_DEADLOCK FALSE
