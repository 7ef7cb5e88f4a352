CONSTANTS
  r1 = r1
  r2 = r2
  s1 = s1
  s2 = s2
  s3 = s3
  Runtime = {r1}
  Session = {s1, s2}
  RuntimeOf <- Siblings
  TTL = 2
  LockStale = 1
  LockWait = 2
  OrphanAge = 3
  MaxTime = 3
  LastCall = 2
  Renews = {s1, s2}
  CanCrash = FALSE
  Prompt = TRUE
  NoLease = NoLease
  NoLock = NoLock
SPECIFICATION Spec
INVARIANT HeldLeaseAsserts
CHECK_DEADLOCK FALSE
