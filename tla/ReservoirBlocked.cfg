SPECIFICATION Spec
CONSTANTS
  Kinds = {"GorgeMode", "Track", "EncodedStream", "DecodedStream", "Audio"}
  MaxJiffies = 2
  MaxStreams = 2
  GorgeSize = 2
  CounterSize = 16
  MaxQueue = 4
  MaxDiscards = 0
INVARIANTS NeverBothBlocked
CHECK_DEADLOCK FALSE
