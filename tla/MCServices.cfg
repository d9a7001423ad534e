SPECIFICATION Spec
CONSTANTS
  Clients = {c1}
  c1 = c1
  NumMessages = 3
  Unlocked = {2}
  RecurLimit = 0
  MaxRequests = 2
  Importers = {i1}
  i1 = i1
  NumLogs = 2
  LogSize = 4
  Limit = 1
  MaxCrashes = 1
  Settings = {"s500", "s250"}
  Filters = {"f11", "f29"}
  MaxErrors = 2
  Slots = {1, 2}
  MaxMessages = 3
  MaxTimeouts = 2
  MaxCloses = 1
INVARIANTS
  TypeOK
  TransactionUndisturbed
  ImportedOnce
  OutlivesBus
  GivesUpUnlessAsked
  DeletedWasTold
PROPERTIES
  RequestServed
  MessageRuns
  ChosenWhenImported
  AnswerIsForCommand
CHECK_DEADLOCK FALSE
