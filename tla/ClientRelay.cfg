SPECIFICATION FairSpec
CONSTANTS
  Calls = {c1, c2, c3}
  MaxRecent = 2
  MaxFrames = 2
  MaxSpeech = 2
  MaxCopies = 1
  None = None
INVARIANTS
  MemoryConsistent
  NoStaleSpeech
PROPERTIES
  NotRerun
  EveryCallAnswered
CHECK_DEADLOCK FALSE
