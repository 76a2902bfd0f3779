SPECIFICATION FairSpec
CONSTANTS
  NULL = NULL
  Size = 2
  Filters = {0, 1}
  MaxCalls = 3
  MaxClicks = 3
  MaxFaults = 1
  MaxChanges = 1
INVARIANTS
  TypeOK
  FilterHolds
  EditorAgrees
  BusyAwaits
PROPERTIES
  PageSettles
  RefreshConverges
CHECK_DEADLOCK FALSE
