SPECIFICATION FairSpec
CONSTANTS
  s1 = s1
  c1 = c1
  c2 = c2
  s2 = s2
  Streams = {s1, s2}
  Procs = {p1, p2}
  Main = p1
  Conflicts = {c1, c2}
  None = None
  Settings <- MCSettings
CHECK_DEADLOCK FALSE
INVARIANTS ConflictInv BaseCommitTrue
PROPERTIES ClearedIsOver OrphanRecovered
