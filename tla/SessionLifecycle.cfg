SPECIFICATION FairSpec
CONSTANTS
  MaxAttempts = 3
  None = None
INVARIANTS ServingOwnsItsKey ShownTruly NothingLeftBehind
PROPERTIES StopIsObeyed ReconnectHonoured
CHECK_DEADLOCK FALSE
