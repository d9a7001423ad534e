SPECIFICATION FairSpec
CONSTANTS
  Workers = {w1, w2}
  w1 = w1
  w2 = w2
  Endless = TRUE
  Loop = 1
  Delay = FALSE
  Interval = TRUE
  Operations = {"start", "start_or_resume", "pause", "kill_run"}
  KillsItself = TRUE
  EarlyResume = FALSE
INVARIANTS
  TypeOK
  IntervalEnforced
  PauseHolds
CHECK_DEADLOCK FALSE
PROPERTIES
  KilledEndsUnlessPaused
