\* Calls that do not overlap, and may be cut short.
SPECIFICATION FairSpec
CONSTANTS
  Tasks = {t1}
  Agents = {a1,a2}
  Coordinator = coord
  NoTask = NoTask
  NoAgent = NoAgent
  NoBranch = NoBranch
  Stream = Stream
  Elsewhere = Elsewhere
  MaxStarts = 2
  MaxWork = 2
  MaxCrashes = 2
  Interleaved = FALSE
  OwnTasksOnly = TRUE
INVARIANTS TypeOK BranchKept
PROPERTIES LifecycleKept StuckTaskRecovered
