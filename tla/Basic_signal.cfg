\* A command that dies of a signal.
CONSTANTS
  TaskId <- MCTaskId
  NWorkers = 2
  MaxRetries = 1
  Files <- SoundFile
  Pids = {p1, p2, p3}
  SystemStatus <- AnyStatus
  KillSignals = {9}
  ForkMayFail = FALSE
SPECIFICATION Spec
INVARIANT CompletedFine
