\* Every acyclic file of four tasks: updateDependencies reaches a task along
\* several paths.  A worker that gives up may leave the master waiting for ever.
CONSTANTS
  TaskId <- FourTaskId
  NWorkers = 2
  MaxRetries = 1
  Files <- AcyclicFile
  SystemStatus = {0, 256, 9}
  MallocMayFail = TRUE
SPECIFICATION FairSpec
INVARIANTS MPIInv WorkersAccounted VerdictOfCommand
PROPERTIES ImplementsWorkflow EveryoneLeaves
CHECK_DEADLOCK FALSE
