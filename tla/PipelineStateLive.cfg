SPECIFICATION FairSpec
CONSTANTS
  Raisers = {}
  MayQuit = TRUE
PROPERTY StatesTakeEffect
