SPECIFICATION Spec
CONSTANTS
  p1 = p1
  p2 = p2
  Patches = {1, 2, 3}
  Blocks = {1, 2, 3}
  Procs = {p1, p2}
  None = 0
  MaxGen = 2
  Settings <- MCSettings
CHECK_DEADLOCK FALSE
INVARIANTS StackInv EntryInv
PROPERTIES BlocksKept SurvivorsKept
