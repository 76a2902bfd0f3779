\* Two administrators and two requests at a time.
SPECIFICATION Spec
CONSTANTS
  r1 = r1
  r2 = r2
  p1 = p1
  p2 = p2
  NULL = NULL
  Admins = {1, 2, 3}
  Passwords = {p1, p2}
  Linked = {3}
  BootstrapPassword = p1
  InitRows <- TwoAdmins
  Bodies <- MCBodies
  Requests = {r1, r2}
  MaxRequests = 3
  MaxFails = 2
  Window = 1
  Duration = 2
  MaxTime = 2
SYMMETRY MCSymmetry
INVARIANTS
  TypeOK
  PasswordEndsTokens
  ReuseBounded
  GuessesBounded
PROPERTIES
  ActiveAdminKept
  LockStands
