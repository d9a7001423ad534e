SPECIFICATION Spec
CONSTANTS
  Threads = {t1, t2}
  t1 = t1
  t2 = t2
  FlushThreshold = 1
  BufferSize = 2
  Expires = TRUE
  MaxEntries = 2
  Kinds = {"communication", "engine", "position", "motion", "geofence", "battery",
           "hook_battery", "temperature", "heartbeat", "heartbeat_recovery"}
  RepeatCount = 3
  MaxFailures = 1
  Timers = {"engine_stopped", "inactivity"}
  Commands = {"power.sleep"}
  MaxFaults = 1
  NumReactors = 1
  Keys = {"k"}
  Contents = {"a", "b"}
  MaxEvents = 3
  MaxRaises = 1
  Depth = 3
  Watermark = 2
  ReadLimit = 4
  MaxErrors = 1
INVARIANTS
  TypeOK
  NothingLostUntilStopped
  FileInOrder
  ReportedIsState
  NoRepeatedEvent
  LifecycleOrder
  ReactsOnce
  ForwardedIsCached
  WaitingIsAnnounced
  OneSleepAtATime
PROPERTIES
  KeptIsWritten
  ClosingEnds
  Debounced
  SteadyReported
  AnnouncedSleepHappens
