SPECIFICATION Spec
CONSTANTS
  root = root
  dir1 = dir1
  dir2 = dir2
  file1 = file1
  file2 = file2
  None = None
  Root = root
  NumWorkers = 1
  Paths = {root, dir1}
  Listing <- ShortChain
  QueueCap = 2
  PipeCap = 1
  EagainMax = 1
  PoolThreads = 1
  PoolCap = 0
  MaxInc = 3
  FaultSets = {{"stuck", "crash"}, {"stuck", "silence"}, {"stuck", "nospawn"},
               {"quit", "crash"}, {"quit", "silence"}, {"quit", "nospawn"},
               {"silence", "crash"}, {"silence", "nospawn"}}
INVARIANT
  EmittedOnce
PROPERTIES
  LoopTurns
  SlotRefilled

