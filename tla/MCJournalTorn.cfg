SPECIFICATION Spec
CONSTANTS
  p1 = p1
  p2 = p2
  p3 = p3
  c1 = c1
  c2 = c2
  c3 = c3
  h1 = h1
  h2 = h2
  None = None
  Caller = {c1, c2, c3}
  Process = {p1, p2}
  ProcessOf <- ParentAndChild
  Hash = {}
  Prompt = TRUE
  CanCrash = FALSE
  CanTear = TRUE
  MaxRows = 3
  Retain = 1
  MaxCalls = 4
INVARIANT SequenceNames
CHECK_DEADLOCK FALSE
