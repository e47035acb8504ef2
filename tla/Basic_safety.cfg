\* Every file of three tasks, two workers and one more process id, one retry.  No
\* symmetry: the run checks termination too.
CONSTANTS
  TaskId <- MCTaskId
  NWorkers = 2
  MaxRetries = 1
  Files <- SoundFile
  Pids = {p1, p2, p3}
  SystemStatus <- ExitStatus
  KillSignals = {9}
  ForkMayFail = FALSE
SPECIFICATION FairSpec
INVARIANTS TypeOK ParentsFirst WorkerAccounting NothingLeftBehind CancelledWithAncestor NoBlindWait VerdictOfCommand
PROPERTIES VerdictsStand ImplementsWorkflow Termination
