SPECIFICATION Spec
CONSTANTS
  d1 = d1
  d2 = d2
  d3 = d3
  Devs = {d1, d2, d3}
  Slots = {0, 1}
  Archives <- ArchivesTried
  QueueCap = 1
  MaxTracked = 2
  Initial = 1
  Late = 1
  MaxAtWork = 1
  None = none
INVARIANTS
  DeadIsWatched
  NothingForgotten
  TasksCounted
PROPERTY
  DeadRecovers
CHECK_DEADLOCK FALSE
