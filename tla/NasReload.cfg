\* One device and two requests at a time, and a container that crashes once.
SPECIFICATION FairSpec
CONSTANTS
  r1 = r1
  r2 = r2
  n1 = n1
  n2 = n2
  s1 = s1
  s2 = s2
  NULL = NULL
  Devices = {1, 2}
  Names = {n1, n2}
  Secrets = {s1, s2}
  InitDevices <- OneDevice
  Requests = {r1, r2}
  MaxRequests = 3
  MaxTime = 2
  MaxCrashes = 1
INVARIANTS
  TypeOK
  RegistryMatches
PROPERTIES
  WriteRepairs
  ReloadTakesEffect
