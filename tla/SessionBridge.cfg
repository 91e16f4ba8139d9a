SPECIFICATION FairSpec
CONSTANTS
  b1 = b1
  b2 = b2
  b3 = b3
  k1 = k1
  k2 = k2
  c1 = c1
  Conns = {b1, b2, b3}
  Keys = {k1, k2}
  Calls = {c1}
  KeyOf <- TwoKeys
  NoConn = NoConn
INVARIANTS
  PendingInTry
  WaitersReachable
  RegisteredIsLive
  FutureIsClientsAnswer
PROPERTIES
  FutureResolvedOnce
  NewerBridgeSurvives
  AnswerReachesWaiter
  ImplementsToolCall
CHECK_DEADLOCK FALSE
