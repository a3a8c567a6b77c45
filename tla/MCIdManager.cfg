SPECIFICATION Spec
CONSTANTS
  MaxActiveStreams = 4
  Tracks = {t1, t2}
  NoTrack = NoTrack
  MaxStreamId = 3
VIEW LiveView
SYMMETRY Symmetry
PROPERTIES
  InvalidatedNotNext
  GrantsSpec
