SPECIFICATION Spec
CONSTANTS
  k1 = k1
  k2 = k2
  k3 = k3
  a = a
  b = b
  c = c
  p1 = p1
  p2 = p2
  Stacks = {k1, k2, k3}
  Checkpoints = {a, b, c}
  Procs = {p1, p2}
  None = None
  Null = Null
  Settings <- MCSettings
SYMMETRY Alike
CHECK_DEADLOCK FALSE
INVARIANTS OrderInv MergedHasLanded
PROPERTIES OrderKept
