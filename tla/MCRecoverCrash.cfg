SPECIFICATION Spec
CONSTANTS
  Sandbox = {s1}
  Provider = {p1}
  Proc = {h1}
  Operators = {h1}
  Governors = {}
  Meters = {}
  Curfews = {}
  ManualEdits = FALSE
  ReusesRowIds = FALSE
  MaxStarts = 1
  MaxFaults = 1
INVARIANT Recoverable
CHECK_DEADLOCK FALSE
