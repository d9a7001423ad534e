SPECIFICATION JsonlSpec
CONSTANTS
  Threads = {t1}
  t1 = t1
  FlushThreshold = 1
  BufferSize = 2
  Expires = TRUE
  MaxEntries = 3
INVARIANTS
  NothingLost
CHECK_DEADLOCK FALSE
