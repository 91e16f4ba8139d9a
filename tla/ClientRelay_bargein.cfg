SPECIFICATION Spec
CONSTANTS
  Calls = {c1}
  MaxRecent = 1
  MaxFrames = 2
  MaxSpeech = 1
  MaxCopies = 0
  None = None
INVARIANTS
  BargeInIsImmediate
CHECK_DEADLOCK FALSE
