SPECIFICATION FairSpec
CONSTANTS
  s1 = s1
  s2 = s2
  p1 = p1
  p2 = p2
  Streams = {s1, s2}
  Procs = {p1, p2}
  Settings <- MCSettings
CHECK_DEADLOCK FALSE
INVARIANTS LogInv
PROPERTIES RollbackCounts Repaired
