SPECIFICATION Spec
CONSTANTS
  N = 2
  Foreign = {}
  Inherited = {}
  SecondController = TRUE
  CanCancel = FALSE
  GitFails = FALSE
  JournalFails = FALSE
  PrunesOrphans = FALSE
  MaxEdits = 0
  MaxCrashes = 0
PROPERTIES
  IntegratedWhole
CHECK_DEADLOCK FALSE
