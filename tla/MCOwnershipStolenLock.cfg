CONSTANTS
  r1 = r1
  r2 = r2
  s1 = s1
  s2 = s2
  s3 = s3
  Runtime = {r1, r2}
  Session = {s1, s2}
  RuntimeOf <- TwoRuntimes
  TTL = 2
  LockStale = 1
  LockWait = 2
  OrphanAge = 3
  MaxTime = 4
  LastCall = 3
  Renews = {s1, s2}
  CanCrash = TRUE
  Prompt = TRUE
  NoLease = NoLease
  NoLock = NoLock
SPECIFICATION Spec
INVARIANT MutualExclusion
CHECK_DEADLOCK FALSE
