\* Two sessions and one account that can be in the one policy: two transactions
\* that overlap, and a third after or between them.
SPECIFICATION Spec
CONSTANTS
  t1 = t1
  t2 = t2
  a1 = a1
  a2 = a2
  p1 = p1
  s1 = s1
  f1 = f1
  NULL = NULL
  Lookalikes = {}
  Slugs = {s1}
  Profiles = {f1}
  Txns = {t1, t2}
  Kinds = {"enable", "disable", "assign", "toggle", "sweep", "compile"}
  MaxRuns = 3
  Accounts = {a1}
  Policies = {p1}
  Flagged = {}
  InitUsers <- OneUser
  InitPolicies <- OnePolicy
  SeedRows <- MCSeedRows
  Tables <- AllTables
  LockTicks = 1
SYMMETRY MCSymmetry
INVARIANTS
  TypeOK
PROPERTIES
  QuietCommitImplements
