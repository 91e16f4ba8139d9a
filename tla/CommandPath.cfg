SPECIFICATION PathFairSpec
CONSTANTS
  Threads = {worker, worker2, main}
  Main = main
  Cmds = {c1, c2}
  Socks = {s1, s2}
  MaxLosses = 1
  None = None
INVARIANTS OwnReply StreamsParse AtMostOnce ReceiverTakesTurns NoOvertaking OkMeansItRan
PROPERTY EveryCommandEnds
CHECK_DEADLOCK FALSE
