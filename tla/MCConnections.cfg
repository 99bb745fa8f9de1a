SPECIFICATION MCSpec
CONSTANTS
  Calls = {c1, c2}
  Channels = {x1, x2, x3}
  MaxGen = 2
  MaxBackoff = 2
  Boxes = {b1, b2}
  MaxSteps = 5
  Names = {n1, n2}
  Domains = {d1, d2}
  Scans = {v1, v2}
  MaxHands = 1
  Sandbox = {s1, s2}
  Provider = {p1, p2}
  Proc = {h1}
  Operators = {h1}
  ManualEdits = FALSE
  ReusesRowIds = TRUE
  MaxStarts = 2
  MaxFaults = 2
  Requests = {r1, r2}
  Hooks = {1, 2}
  MaxBoxes = 2
  MaxAttempts = 2
  MaxEdits = 2
  MaxBoxCrashes = 1
  MaxTries = 4
  FirstBackoff = 1
  TopBackoff = 4
  Spread = 1
  MaxBudget = 8
  MaxAnswer = 3
SYMMETRY Symmetry
INVARIANTS
  Partition
  CacheServes
  FoundOnce
  InBudget
PROPERTIES
  OutagesTold
  SandboxHolds
CHECK_DEADLOCK FALSE
