SPECIFICATION LiveSpec
CONSTANTS
  Poller = {p1}
  Batch = 1
  MaxTime = 2
  MaxDay = 1
  MaxLines = 2
  MaxFaults = 1
  Limit = {1}
  Window = {"daily", "total"}
  MaxEdits = 1
  Governor = {}
  MaxRequests = {}
  WindowLength = {}
PROPERTIES ActsOnce MeteringKeepsUp ReachedIsMarked
CHECK_DEADLOCK FALSE
