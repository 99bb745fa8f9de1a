SPECIFICATION MCSpec
CONSTANTS
  Calls = {c1, c2, c3}
  Batch = 1
  Retention = 1
  MaxTime = 3
  MaxFaults = 1
  Devices = {d1, d2}
  Sends = {s1, s2}
  MaxRows = 3
  Emails = {m1, m2}
  Subjects = {u1}
  Callers = {r1, r2}
  MaxUsers = 2
  Tokens = {t1, t2}
  ApiKeys = {k1, k2}
  Requests = {q1}
  Phones = {f1, f2, f3}
  Challenges = {g1, g2}
  Logins = {l1, l2, l3}
  SigningKeys = {j1, j2, j3}
  Callbacks = {b1, b2}
  Limit = 2
  Window = 2
  Lockout = 3
  LockAttempts = 2
  LockDuration = 4
  SignIns = {n1, n2}
  MaxClock = 8
  Groups = {o1, o2}
  Top = 2
  MaxDay = 2
  Hours = 2
  DigestHour = 1
  MaxNoticeFaults = 2
  TenantIds = {i1, i2}
  i1 = i1
  i2 = i2
  Nodes = {w1, w2}
  MaxTenantEdits = 2
  Keys = {e1, e2, e3}
  e1 = e1
  e2 = e2
  Submissions = {x1, x2, x3}
  x1 = x1
  x2 = x2
  x3 = x3
  MaxEntries = 2
  MaxSummaries = 2
  MaxDenialFaults = 1
  EnvKeys = {v1, v2}
  v1 = v1
  Kinds = {y1, y2}
  y1 = y1
  CredKey <- TypeKeys
  ApiKey = v2
  ProviderEdits = {z1, z2, z3}
  MaxLosses = 1
  LocalNames = {h1, h2}
  h1 = h1
  h2 = h2
  LocalCalls = {a1, a2}
  MaxPort = 2
INVARIANTS
  ChainWhole
  AlarmsTell
  AdminStays
  StaysOut
  UsedOnce
  KeyFound
  LimiterKeepsWord
  RoleWasGiven
  NoticesTell
  ScopeHolds
  ProvidersTell
  DenialsTell
  LocalHolds
PROPERTIES
  PruneSparesLive
CHECK_DEADLOCK FALSE
