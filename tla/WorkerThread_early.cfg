SPECIFICATION Spec
CONSTANTS
  Workers = {w1}
  w1 = w1
  Endless = TRUE
  Loop = 2
  Delay = TRUE
  Interval = TRUE
  Operations = {"start", "pause", "resume"}
  KillsItself = FALSE
  EarlyResume = TRUE
INVARIANTS
  IntervalEnforced
CHECK_DEADLOCK FALSE
