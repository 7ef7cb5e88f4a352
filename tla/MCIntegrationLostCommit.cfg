SPECIFICATION Spec
CONSTANTS
  N = 2
  Foreign = {}
  Inherited = {}
  SecondController = FALSE
  CanCancel = FALSE
  GitFails = FALSE
  JournalFails = TRUE
  PrunesOrphans = FALSE
  MaxEdits = 0
  MaxCrashes = 0
INVARIANTS
  CompletedStays
CHECK_DEADLOCK FALSE
