\* A sweep that overlaps a disable.
SPECIFICATION Spec
CONSTANTS
  t1 = t1
  t2 = t2
  a1 = a1
  a2 = a2
  p1 = p1
  s1 = s1
  f1 = f1
  NULL = NULL
  Lookalikes = {}
  Slugs = {s1}
  Profiles = {f1}
  Txns = {t1, t2}
  Kinds = {"disable", "sweep"}
  MaxRuns = 2
  Accounts = {a1}
  Policies = {}
  Flagged = {}
  InitUsers <- OneUser
  InitPolicies <- NoPolicies
  SeedRows <- MCSeedRows
  Tables <- UserTables
  LockTicks = 1
PROPERTIES
  DisabledStays
