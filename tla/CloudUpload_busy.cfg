SPECIFICATION Spec
CONSTANTS
  Threads = {"handler"}
  Handler = "handler"
  Commands = {}
  MaxBatch = 2
  MaxRetry = 2
  RetryQueueLimit = 1
  BgsaveBusy = TRUE
  MaxEntries = 3
  MaxDay = 1
  MaxRestarts = 0
INVARIANTS
  RetryQueuesBounded
