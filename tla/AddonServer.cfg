SPECIFICATION FairSpec
CONSTANTS
  User = user
  Spawned = spawned
  Scenes = {s1, s2}
  MaxServers = 2
  Conns = {c1}
  None = None
INVARIANTS ListenersAreReachable RepliesAreNotLost
PROPERTIES StopsOnlyWhenTold CommandsAnswered
CHECK_DEADLOCK FALSE
