\* Two tabs of one console, two calls at a time, one lost message or reload.
\* The bounds on calls and faults stop the users, so a state without a next step is no deadlock.
SPECIFICATION FairSpec
CONSTANTS
  NULL = NULL
  Tabs = {t1, t2}
  Calls = {c1, c2}
  MaxCalls = 3
  MaxFaults = 1
  MaxExpired = 1
INVARIANTS
  AppliedOnce
  StoreIsUnspent
PROPERTIES
  CallsEnd
CHECK_DEADLOCK FALSE
