\* What still holds when fork() fails, commands die of signals and tasks depend
\* on themselves.
CONSTANTS
  TaskId <- MCTaskId
  NWorkers = 2
  MaxRetries = 1
  Files <- AnyFile
  Pids = {p1, p2}
  SystemStatus <- AnyStatus
  KillSignals = {9}
  ForkMayFail = TRUE
SYMMETRY PidSymmetry
SPECIFICATION Spec
INVARIANTS VerdictInv WorkInv BlindWaitExplained
