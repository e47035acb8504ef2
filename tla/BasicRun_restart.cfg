\* Every file of three tasks on the first three lines, interrupted anywhere.  No
\* symmetry: the run checks that it ends, too.
CONSTANTS
  TaskId <- ShortFileIds
  NWorkers = 2
  MaxRetries = 1
  Files <- AnyFile
  Pids = {p1, p2}
  SystemStatus = {0, 256}
  KillSignals = {}
  ForkMayFail = FALSE
SPECIFICATION RunFairSpec
INVARIANTS StepInv HandlerFaithful DroppedExplained SilentSuccess
PROPERTIES EndsWithRestart ImplementsEngine
