SPECIFICATION ProcessorSpec
CONSTANTS
  Clients = {c1}
  c1 = c1
  NumMessages = 2
  Unlocked = {}
  RecurLimit = 1
  MaxRequests = 1
CHECK_DEADLOCK FALSE
PROPERTIES
  PassIsComplete
