SPECIFICATION FairSpec
CONSTANTS
  Waves <- TwoWaves
  Sandboxed = {1, 3}
  Width = 2
  MaxAttempts = 2
  Failure = {"f1", "f2"}
  Retryable = {"f1"}
  Durable = TRUE
  MaxFaults = 1
  Aborts = TRUE
INVARIANTS NeverRejected NoOrphans VerifiedEffects PassedMeansDone
PROPERTIES ReapedStays PlanEnds
CHECK_DEADLOCK FALSE
