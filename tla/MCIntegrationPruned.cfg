SPECIFICATION Spec
CONSTANTS
  N = 2
  Foreign = {}
  Inherited = {}
  SecondController = FALSE
  CanCancel = FALSE
  GitFails = FALSE
  JournalFails = FALSE
  PrunesOrphans = TRUE
  MaxEdits = 0
  MaxCrashes = 1
INVARIANTS
  ProvenIsRepaired
CHECK_DEADLOCK FALSE
