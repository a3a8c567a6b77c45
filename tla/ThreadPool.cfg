SPECIFICATION FairSpec
CONSTANTS
  Handles = {h1, h2, h3}
  Threads = {t1, t2}
  Clients = {c1}
  Watched = h1
  Nil = Nil
  MaxSem = 3
INVARIANTS
  CancelIsFinal
  NoUseAfterFree
PROPERTY ScheduledRuns
