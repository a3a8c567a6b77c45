SPECIFICATION Spec
CONSTANTS
  Raisers = {"Waiter", "StarvationRamper"}
  MayQuit = FALSE
INVARIANTS
  StateIsLastEvent
  UpToDateUnlessOverlapped
