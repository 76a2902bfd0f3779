\* Two accounts, two policies that can change name, profile and state.
SPECIFICATION Spec
CONSTANTS
  a1 = a1
  a2 = a2
  p1 = p1
  p2 = p2
  s1 = s1
  s2 = s2
  f1 = f1
  f2 = f2
  guests = guests
  NULL = NULL
  Accounts = {a1, a2}
  Policies = {p1, p2}
  Slugs = {s1, s2}
  Lookalikes = {}
  Profiles = {f1, f2}
  Flagged = {f2}
  LocalAccounts = {a2}
  BootstrapAdmin = NULL
  SeedRows <- MCSeedRows
  Priorities = {0}
  Threshold = 1
  Window = 1
  LockTicks = 1
SYMMETRY MCSymmetry
INVARIANTS
  TypeOK
  OnlyActiveAdmitted
  OwnPolicyOnly
PROPERTIES
  ForeignRowsKept
  AssignmentSurvives
  ImplementsAdmission
