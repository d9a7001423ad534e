SPECIFICATION Spec
CONSTANTS
  Threads = {"handler", "command"}
  Handler = "handler"
  Commands = {"upload_pending"}
  MaxBatch = 2
  MaxRetry = 2
  RetryQueueLimit = 1
  BgsaveBusy = FALSE
  MaxEntries = 3
  MaxDay = 1
  MaxRestarts = 0
PROPERTIES
  TrimRemovesOnlyBatch
