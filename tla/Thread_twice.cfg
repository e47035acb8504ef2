\* A task with two parents, two threads.
CONSTANTS
  TaskId <- MCTaskId
  MaxRetries = 0
  Files <- SomeFile
  ThreadCounts = {1, 2}
  SystemStatus = {0, 256}
SPECIFICATION Spec
INVARIANT NeverTwice
