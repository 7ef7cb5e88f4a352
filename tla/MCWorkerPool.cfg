SPECIFICATION FairSpec
CONSTANTS
  Calls = 3
  Keys = 2
  Fences = 2
  MaxWorkers = 1
  MaxProcs = 3
  Modes <- Careful
  None = None
INVARIANTS NothingLeft PruneSpares FreshSession
PROPERTY CallsSettle
CHECK_DEADLOCK FALSE
