SPECIFICATION FairSpec
CONSTANTS
  RampLong = 4
  RampShort = 2
  MaxAudio = 3
  kMax = 2
  Wrap = 8
  MaxHalts = 2
INVARIANTS
  NoLostWakeup
  AskedOnce
  AudioMeansPlaying
PROPERTIES
  RampContinuity
  ImplementsEvents
  StopCompletes
CHECK_DEADLOCK FALSE
