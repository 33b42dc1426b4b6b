SPECIFICATION FairSpec
CONSTANTS
  p1 = p1
  p2 = p2
  MaxStreams = 3
  Procs = {p1, p2}
  None = 0
  Outside = 100
  Settings <- OneStream
CHECK_DEADLOCK FALSE
PROPERTY Collected
