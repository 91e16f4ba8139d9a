SPECIFICATION FairSpec
CONSTANTS
  MaxX = 3
  Region = 4
  Rearm = 1
  Spread = 2
  Stale = 1
  MaxNest = 2
  None = None
INVARIANTS TypeOK AnchorsAcceptedWhole
PROPERTY SpotsGo
CHECK_DEADLOCK FALSE
