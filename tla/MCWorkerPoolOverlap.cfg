SPECIFICATION Spec
CONSTANTS
  Calls = 3
  Keys = 2
  Fences = 2
  MaxWorkers = 1
  MaxProcs = 3
  Modes <- Overlapping
  None = None
INVARIANT NothingLeft
CHECK_DEADLOCK FALSE
