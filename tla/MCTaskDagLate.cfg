SPECIFICATION Spec
CONSTANTS
  N = 3
  Declaration <- Cases
  Widths <- Narrow
  InOrder = TRUE
  CancelAll = FALSE
INVARIANT RootWriteAlone
CHECK_DEADLOCK FALSE
