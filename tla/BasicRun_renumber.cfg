\* Three tasks on lines 1, 7 and 8.
CONSTANTS
  TaskId <- LongFileIds
  NWorkers = 2
  MaxRetries = 0
  Files <- AnyFile
  Pids = {p1, p2}
  SystemStatus = {0, 256}
  KillSignals = {}
  ForkMayFail = FALSE
SYMMETRY PidSymmetry
SPECIFICATION RunSpec
INVARIANT RestartFaithful
