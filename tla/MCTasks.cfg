SPECIFICATION MCSpec
CONSTANTS
  Events = {e1}
  Hooks = {h1, h2}
  OneShot = {h2}
  MaxAttempts = 3
  MaxTroubles = 2
  Interval = 1
  MaxInterval = 3
  Threshold = 2
  MaxDeaths = 1
  Viewers = {v1, v2}
  QueueSize = 1
  DropLimit = 2
  TailLines = 1
  RingSize = 2
  MaxEvents = 3
  Servers = {a1, a2}
  Newest = 1
  StartAttempts = 2
  MaxStartFaults = 2
INVARIANTS
  TakenOnce
  RowsTell
PROPERTIES
  DeliveriesEnd
  TaskRunsAgain
  StreamsTell
  StartupTells
CHECK_DEADLOCK FALSE
