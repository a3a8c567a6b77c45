SPECIFICATION Spec
CONSTANTS
  MaxHalts = 2
  MaxFlushes = 2
  MaxStreams = 2
  RampLong = 2
  RampShort = 2
  MaxAudio = 2
INVARIANTS
  FlusherTargetsAhead
  SkipperTargetsAhead
  FlushFindsFlushing
  GapsAreAnnounced
PROPERTY
  RemovalGoesOn
CHECK_DEADLOCK FALSE
