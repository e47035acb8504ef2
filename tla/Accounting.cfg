\* Two workers and three tasks with one retry, over five ticks (the clock
\* runs from 1 to 6), two to a second.
CONSTANTS
  TaskId <- MCTaskId
  NWorkers = 2
  MaxRetries = 1
  Files <- SomeFiles
  Pids = {p1, p2}
  SystemStatus <- EitherStatus
  KillSignals = {}
  ForkMayFail = TRUE
  Second = 2
  MaxTime = 6
SYMMETRY PidSymmetry
SPECIFICATION AccountSpec
INVARIANTS ElapsedTruthful UtilisationBounded TotalTimeIsRun AccountInv
