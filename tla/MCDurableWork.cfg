SPECIFICATION Spec
CONSTANTS
  c1 = c1
  c2 = c2
  t1 = t1
  t2 = t2
  p1 = p1
  p2 = p2
  Client = {c1, c2}
  Task = {t1, t2}
  Plan = {p1, p2}
  Files <- PlanFiles
  Deps <- PlanDeps
  Strict = {p2}
  MaxRuns = 2
  MaxEdits = 1
  MaxImports = 2
  MaxReceipts = 1
  MaxCrashes = 1
  Ops <- AllOps
  DiesAt <- StepsButScope
  Suspends = FALSE
  None = None
INVARIANTS Exclusive ApprovedPlanRuns RunnableTogether BackedCompletion VerdictStands
PROPERTY FinalMeansVerified
SYMMETRY Clients
CHECK_DEADLOCK FALSE
