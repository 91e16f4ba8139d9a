SPECIFICATION FairSpec
CONSTANTS
  MaxHandoffs = 3
  MaxChunks = 2
  MaxContents = 2
INVARIANTS
  TypeOK
  NoAudioBehindClosedGate
  GatesAgree
PROPERTIES
  LatestTimerReopens
  ContentsInOrder
  ClientReopens
CHECK_DEADLOCK FALSE
