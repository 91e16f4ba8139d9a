SPECIFICATION FairSpec
CONSTANTS
  MaxAttempts = 2
  None = None
PROPERTY AutoReconnect
CHECK_DEADLOCK FALSE
