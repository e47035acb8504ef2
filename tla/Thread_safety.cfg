\* Every file of three tasks and every tree of four, one or two threads.
CONSTANTS
  TaskId <- MCTaskId
  MaxRetries = 1
  Files <- SomeFile
  ThreadCounts = {1, 2}
  SystemStatus = {0, 256}
SPECIFICATION FairSpec
INVARIANTS ThreadInv RunsAsPromised AllAccounted
PROPERTIES ThreadsImplementWorkflow Returns
