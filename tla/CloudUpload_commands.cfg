SPECIFICATION Spec
CONSTANTS
  Threads = {"handler", "command"}
  Handler = "handler"
  Commands = {"upload_failing","upload_retrying","clear_queue","clear_everything"}
  MaxBatch = 2
  MaxRetry = 1
  RetryQueueLimit = 1
  BgsaveBusy = FALSE
  MaxEntries = 2
  MaxDay = 1
  MaxRestarts = 1
INVARIANTS
  FreshChronological
