SPECIFICATION FairSpec
CONSTANTS
  Threads = {"handler"}
  Handler = "handler"
  Commands = {}
  MaxBatch = 1
  MaxRetry = 2
  RetryQueueLimit = 1
  BgsaveBusy = TRUE
  MaxEntries = 2
  MaxDay = 1
  MaxRestarts = 1
PROPERTIES
  PendingSettled
