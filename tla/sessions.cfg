SPECIFICATION FairSpec
CONSTANTS
  p1 = p1
  p2 = p2
  a1 = a1
  a2 = a2
  s1 = s1
  s2 = s2
  x = x
  y = y
  Procs = {p1, p2}
  Agents = {a1, a2}
  Writers = {a1, a2}
  NoWriter = NoWriter
  Paths = {w1, w2}
  TempPaths = {t1, t2}
  Home = home
  Streams = {s1, s2}
  Archived = {s2}
  Main = main
  Work = {x, y}
  None = None
  Detached = detached
  ChangeIds = {1, 2, 3}
  NoCommit = NoCommit
  MaxRewrites = 3
  Settings <- MCSettings
CHECK_DEADLOCK FALSE
INVARIANTS OpenedHasSchema WorkspaceInv NoLostUpdate ChangesFollow
PROPERTIES OpensInTheEnd DeadAgentsGone
