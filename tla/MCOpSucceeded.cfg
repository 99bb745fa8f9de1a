SPECIFICATION Spec
CONSTANTS
  Resource = {k1}
  Plain = {}
  Attempt = {a1}
  Replica = {r1}
  Canceller = {c1}
  WholeIndex = FALSE
  MaxCancels = 1
  MaxRestarts = 0
PROPERTY SucceededIsFinal
CHECK_DEADLOCK FALSE
