SPECIFICATION FairObserverSpec
CONSTANTS
  Ids = 3
  Producers = {p1, p2}
  MaxChanges = 2
INVARIANTS
  NothingForgotten
PROPERTY ImplementsChannel
CHECK_DEADLOCK FALSE
