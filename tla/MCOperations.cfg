SPECIFICATION LiveSpec
CONSTANTS
  Resource = {k1}
  Plain = {}
  Attempt = {a1, a2}
  Replica = {r1}
  Canceller = {c1}
  WholeIndex = FALSE
  MaxCancels = 1
  MaxRestarts = 1
PROPERTIES LockSpec OperationsEnd
INVARIANTS WorkExclusive
CHECK_DEADLOCK FALSE
