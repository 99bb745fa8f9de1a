SPECIFICATION MCSpec
CONSTANTS
  c1 = c1
  k1 = k1
  d1 = d1
  Requests = {r1, r2}
  Actors = {admin, oper, phone}
  Admins = {admin}
  OneTap = phone
  Chunks = {c1}
  Keys = {k1}
  Docs = {d1}
  Content <- DocContent
  Flows <- TwoVoters
  Kinds = {"approve", "tap", "reject", "all", "merge", "put", "add"}
  MaxEvents = 2
  h1 = h1
  h2 = h2
  a1 = a1
  a2 = a2
  RuleNames = {1, 2}
  Documents <- MCDocuments
SYMMETRY Symmetry
INVARIANTS DistinctVotes MergeTells
 
CHECK_DEADLOCK FALSE
