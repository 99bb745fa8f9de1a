SPECIFICATION Spec
CONSTANTS
  Poller = {p1}
  Batch = 1
  MaxTime = 3
  MaxDay = 1
  MaxLines = 2
  MaxFaults = 1
  Limit = {}
  Window = {}
  MaxEdits = 1
  Governor = {g1}
  MaxRequests = {1}
  WindowLength = {2}
INVARIANTS BilledOnce MissedOnlyNear PausesPaidFor
CHECK_DEADLOCK FALSE
