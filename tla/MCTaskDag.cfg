SPECIFICATION FairSpec
CONSTANTS
  N = 3
  Declaration <- Cases
  Widths <- Narrow
  InOrder = TRUE
  CancelAll = FALSE
INVARIANTS RunningRootAlone DependenciesFirst GivenUpForCause DeadlockTruthful
PROPERTY RunEnds
CHECK_DEADLOCK FALSE
