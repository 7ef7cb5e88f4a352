SPECIFICATION FairSpec
CONSTANTS
  N = 3
  Foreign = {0}
  Inherited = {}
  SecondController = FALSE
  CanCancel = TRUE
  GitFails = TRUE
  JournalFails = TRUE
  PrunesOrphans = TRUE
  MaxEdits = 1
  MaxCrashes = 1
INVARIANTS
  VerdictTruthful
  OutcomeTruthful
  JournalAhead
PROPERTIES
  IntegratedWhole
  TransactionEnds
CHECK_DEADLOCK FALSE
