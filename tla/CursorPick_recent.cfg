SPECIFICATION Spec
CONSTANTS
  MaxX = 3
  Region = 4
  Rearm = 1
  Spread = 2
  Stale = 1
  MaxNest = 2
  None = None
INVARIANT RecentCursorOnly
CHECK_DEADLOCK FALSE
