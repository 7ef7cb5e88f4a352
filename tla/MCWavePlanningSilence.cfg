SPECIFICATION Spec
CONSTANTS
  Task = {1, 2, 3}
  File = {"a", "b", "c", "d", "package", "lock"}
  Service = {"db"}
  Family = {{"package", "lock"}}
  Lockfile = {"lock"}
  Manifest = {"package"}
  Shared = {}
  Nobody = Nobody
  Plans <- ThreeTasks
  Contexts <- Situations
CHECK_DEADLOCK FALSE
INVARIANT SilenceIsAWriter
