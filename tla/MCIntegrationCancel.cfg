SPECIFICATION Spec
CONSTANTS
  N = 2
  Foreign = {}
  Inherited = {}
  SecondController = FALSE
  CanCancel = TRUE
  GitFails = FALSE
  JournalFails = FALSE
  PrunesOrphans = FALSE
  MaxEdits = 0
  MaxCrashes = 0
INVARIANTS
  NeverHalf
CHECK_DEADLOCK FALSE
