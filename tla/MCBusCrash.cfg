SPECIFICATION Spec
CONSTANTS
  root = root
  dir1 = dir1
  dir2 = dir2
  file1 = file1
  file2 = file2
  None = None
  Root = root
  NumWorkers = 1
  Paths = {root, dir1}
  Listing <- ShortChain
  QueueCap = 8
  PipeCap = 3
  EagainMax = 1
  PoolThreads = 1
  PoolCap = 1
  MaxInc = 2
  FaultSets = {{"crash"}}
PROPERTY
  CrashedIsReplaced
