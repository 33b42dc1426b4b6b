SPECIFICATION QueueSpec
CONSTANTS
  s1 = s1
  s2 = s2
  e1 = e1
  e2 = e2
  w1 = w1
  w2 = w2
  Streams = {s1, s2}
  Target = main
  Entries = {e1, e2}
  Workers = {w1, w2}
  None = None
  Settings <- Squash
CHECK_DEADLOCK FALSE
INVARIANT WorktreeLeftClean
