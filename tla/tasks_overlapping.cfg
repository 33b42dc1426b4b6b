\* Calls of two agents and the coordinator overlap, and may be cut short.
SPECIFICATION Spec
CONSTANTS
  Tasks = {t1}
  Agents = {a1, a2}
  Coordinator = coord
  NoTask = NoTask
  NoAgent = NoAgent
  NoBranch = NoBranch
  Stream = Stream
  Elsewhere = Elsewhere
  MaxStarts = 2
  MaxWork = 2
  MaxCrashes = 1
  Interleaved = TRUE
  OwnTasksOnly = FALSE
SYMMETRY Symmetry
INVARIANTS
  MergeRecordsBacked
  CompletedHasMerge
  MergesSerialized
