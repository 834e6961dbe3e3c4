SPECIFICATION Spec
CONSTANTS
  root = root
  dir1 = dir1
  dir2 = dir2
  file1 = file1
  file2 = file2
  None = None
  Root = root
  NumWorkers = 2
  Paths = {root, dir1, dir2, file1, file2}
  Listing <- Fork
  QueueCap = 8
  PipeCap = 3
  EagainMax = 1
  PoolThreads = 2
  PoolCap = 1
  MaxInc = 1
  FaultSets = {{}}
INVARIANTS
  PendingCovers
  NothingLeft
PROPERTY
  Terminates
