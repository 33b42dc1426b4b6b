SPECIFICATION Spec
CONSTANTS
  top = top
  a = a
  b = b
  c = c
  p1 = p1
  p2 = p2
  Streams = {top, a, b, c}
  Built = {top, a, b}
  Root = top
  Order <- MCOrder
  Procs = {p1, p2}
  NoStream = NoStream
  Settings <- MCSettings
CHECK_DEADLOCK FALSE
INVARIANTS GraphInv ReportInv SuccessMeansCurrent
PROPERTIES GraphKept CallsReturn
