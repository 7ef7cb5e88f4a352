CONSTANTS
  r1 = r1
  r2 = r2
  s1 = s1
  s2 = s2
  s3 = s3
  Runtime = {r1, r2}
  Session = {s1, s2, s3}
  RuntimeOf <- SiblingsAndOther
  TTL = 2
  LockStale = 1
  LockWait = 2
  OrphanAge = 3
  MaxTime = 3
  LastCall = 0
  Renews = {}
  CanCrash = TRUE
  Prompt = TRUE
  NoLease = NoLease
  NoLock = NoLock
SPECIFICATION FairSpec
INVARIANT RefsCountHolders
PROPERTY WaitEnds
CHECK_DEADLOCK FALSE
