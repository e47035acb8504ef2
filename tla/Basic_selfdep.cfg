\* A task that depends on itself.
CONSTANTS
  TaskId <- MCTaskId
  NWorkers = 2
  MaxRetries = 1
  Files <- SelfDependentFile
  Pids = {p1, p2, p3}
  SystemStatus <- ExitStatus
  KillSignals = {9}
  ForkMayFail = FALSE
SPECIFICATION Spec
INVARIANT NoBlindWait
