\* Two sessions that update and recompile the two accounts of one policy in any order,
\* and find the same rows of its group to delete.
SPECIFICATION FairSpec
CONSTANTS
  t1 = t1
  t2 = t2
  a1 = a1
  a2 = a2
  p1 = p1
  s1 = s1
  f1 = f1
  NULL = NULL
  Lookalikes = {}
  Slugs = {s1}
  Profiles = {f1}
  Txns = {t1, t2}
  Kinds = {"enable", "disable", "assign", "toggle", "sweep", "compile"}
  MaxRuns = 2
  Accounts = {a1, a2}
  Policies = {p1}
  Flagged = {}
  InitUsers <- BothInPolicy
  InitPolicies <- OnePolicy
  SeedRows <- MCSeedRows
  Tables <- AllTables
  LockTicks = 1
PROPERTIES
  TransactionsEnd
