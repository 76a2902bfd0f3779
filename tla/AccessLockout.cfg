\* Lockout: two failures in two ticks lock an account for three; one account
\* comes from the directory, the other is local and the bootstrap administrator's.
SPECIFICATION FairSpec
CONSTANTS
  a1 = a1
  a2 = a2
  s1 = s1
  f1 = f1
  guests = guests
  NULL = NULL
  Accounts = {a1, a2}
  Policies = {}
  Slugs = {s1}
  Lookalikes = {}
  Profiles = {f1}
  Flagged = {}
  LocalAccounts = {a2}
  BootstrapAdmin = a2
  SeedRows <- MCSeedRows
  Priorities = {0}
  Threshold = 2
  Window = 2
  LockTicks = 3
PROPERTIES
  DisabledNeedsEnable
  LockIsReleased
