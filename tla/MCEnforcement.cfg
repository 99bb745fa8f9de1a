SPECIFICATION Spec
CONSTANTS
  Sandbox = {s1}
  Provider = {p1}
  Proc = {h1, h2, gov, bud, cur}
  Operators = {h1, h2}
  Governors = {gov}
  Meters = {bud}
  Curfews = {cur}
  ManualEdits = TRUE
  ReusesRowIds = FALSE
  MaxStarts = 3
  MaxFaults = 1
INVARIANTS NoProviderLost
SYMMETRY Interchangeable
CHECK_DEADLOCK FALSE
