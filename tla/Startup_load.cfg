\* Every file of three lines, with and without strict checking, and every
\* configuration of a small file.
CONSTANTS
  TaskId <- MCTaskId
  MaxRetries = 0
  Files = {}
  LineText <- SomeLines
  Starts <- MCStarts
  Built = {"mpi", "thread"}
SPECIFICATION StartupSpec
INVARIANTS StartupInv LoadedTable StrictRefuses ReadyMeansServed EnvironmentWins
