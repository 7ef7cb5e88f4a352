SPECIFICATION Spec
CONSTANTS
  Waves <- OneWave
  Sandboxed = {1}
  Width = 2
  MaxAttempts = 1
  Failure = {"f1"}
  Retryable = {"f1"}
  Durable = FALSE
  MaxFaults = 0
  Aborts = FALSE
INVARIANT InactiveMeansSilent
CHECK_DEADLOCK FALSE
