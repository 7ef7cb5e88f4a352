SPECIFICATION Spec
CONSTANTS
  N = 3
  Declaration <- Cases
  Widths <- Narrow
  InOrder = FALSE
  CancelAll = FALSE
INVARIANT DeadlockTruthful
CHECK_DEADLOCK FALSE
