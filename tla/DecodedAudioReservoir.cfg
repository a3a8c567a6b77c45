SPECIFICATION FairSpec
CONSTANTS
  Kinds = {"GorgeMode", "Track", "EncodedStream", "DecodedStream", "Audio", "Halt", "MetaText", "Quit"}
  MaxJiffies = 1
  MaxStreams = 2
  GorgeSize = 1
  CounterSize = 16
  MaxQueue = 3
  MaxDiscards = 1
INVARIANTS
  OccupancyBounded
  PriorityCountFollowsQueue
  PullersAreWoken
  PushersAreWoken
PROPERTY ModesGetThrough
CHECK_DEADLOCK FALSE
