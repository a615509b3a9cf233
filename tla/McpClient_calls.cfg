CONSTANTS
  c1 = c1
  c2 = c2
  Refresh = refresh
  None = none
  Calls = {c1, c2}
  MaxRefreshes = 3
  MaxUnread = 2
  MaxCrashes = 1
SPECIFICATION Spec
INVARIANTS
  AdapterCurrent
  NoStrayProcess
PROPERTIES
  CallsEnd
CHECK_DEADLOCK FALSE
