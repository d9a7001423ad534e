SPECIFICATION LogsSpec
CONSTANTS
  Importers = {i1}
  i1 = i1
  NumLogs = 2
  LogSize = 5
  Limit = 2
  MaxCrashes = 0
INVARIANT DeletedWhenImported
CHECK_DEADLOCK FALSE
