SPECIFICATION Spec
CONSTANTS
  s1 = s1
  s2 = s2
  start1 = start1
  again1 = again1
  stop1 = stop1
  stop2 = stop2
  update1 = update1
  start2 = start2
  Sessions = {s1, s2}
  Requests = {start1, again1, stop1, update1, start2, stop2}
  Kind <- TwoSessionsKind
  Of <- TwoSessionsOf
  Overlap = FALSE
  Faults = {"db", "redis"}
  MaxRestarts = 2
CHECK_DEADLOCK FALSE
INVARIANTS
  TypeOK
  KillFollowsCommit
  GaugeCountsActive
PROPERTY ImplementsLife
