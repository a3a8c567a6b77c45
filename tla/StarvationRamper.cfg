SPECIFICATION FairSpec
CONSTANTS
    Sizes = {2}
    FirstSize = 2
    MaxAudio = 2
    MaxStreams = 2
    RampUp = 2
    FlyBlocks = 1
    Level = 2
    Full = 2
    CounterSize = 3
    MaxQueue = 2
    MaxMsgs = 5
INVARIANTS
    PullerIsWoken
    NeverBothBlocked
    OccupancyBounded
    RampsStartWhereHeard
    NoAbruptEnd
    DrainsAreQuiet
PROPERTIES
    FlywheelEnds
    DrainsGetOut
CHECK_DEADLOCK FALSE
