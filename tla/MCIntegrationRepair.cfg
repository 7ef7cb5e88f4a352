SPECIFICATION Spec
CONSTANTS
  N = 2
  Foreign = {}
  Inherited = {}
  SecondController = FALSE
  CanCancel = FALSE
  GitFails = FALSE
  JournalFails = FALSE
  PrunesOrphans = FALSE
  MaxEdits = 0
  MaxCrashes = 1
INVARIANTS
  CrashIsRepaired
CHECK_DEADLOCK FALSE
