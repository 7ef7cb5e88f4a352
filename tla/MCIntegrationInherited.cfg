SPECIFICATION Spec
CONSTANTS
  N = 2
  Foreign = {}
  Inherited = {1}
  SecondController = FALSE
  CanCancel = FALSE
  GitFails = FALSE
  JournalFails = FALSE
  PrunesOrphans = FALSE
  MaxEdits = 0
  MaxCrashes = 1
INVARIANTS
  VerdictTruthful
CHECK_DEADLOCK FALSE
