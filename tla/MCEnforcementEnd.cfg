SPECIFICATION LiveSpec
CONSTANTS
  Sandbox = {s1, s2}
  Provider = {p1}
  Proc = {gov1, gov2, cur}
  Operators = {}
  Governors = {gov1, gov2}
  Meters = {}
  Curfews = {cur}
  ManualEdits = FALSE
  ReusesRowIds = FALSE
  MaxStarts = 2
  MaxFaults = 2
PROPERTY HoldsEnd
CHECK_DEADLOCK FALSE
