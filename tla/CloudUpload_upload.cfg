SPECIFICATION Spec
CONSTANTS
  Threads = {"handler"}
  Handler = "handler"
  Commands = {}
  MaxBatch = 2
  MaxRetry = 2
  RetryQueueLimit = 2
  BgsaveBusy = FALSE
  MaxEntries = 3
  MaxDay = 2
  MaxRestarts = 1
INVARIANTS
  TypeOK
  NoLoss
  RetryQueuesBounded
  AttemptsOrdered
  NoNeedlessResend
  PayloadsChronological
PROPERTIES
  ImplementsDelivery
  TrimRemovesOnlyBatch
