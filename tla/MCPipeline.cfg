SPECIFICATION Spec
CONSTANTS
  Batch = {1, 2, 3}
  NoBatch = 0
  NumThreads = 2
  Capacity = 1
  LengthWidth = 2
  MetaWidth = 2
  FooterWidth = 3
  MaxPathLength = 4
  MaxDevCache = 1
  Buckets = 2
  IterationLimit = 3
  RecordBatchMax = 2
  RateWindow = 3
  StartTime = 10
  Seconds = 7
  MaxLate = 1
  Inputs <- MCInputs
INVARIANTS
  EachOnce
  RowsReadBack
  ShownIsAnswered
  CutSliceIsPrefix
  RatesAreGrowth
PROPERTIES
  PoolEnds
  PoolKeepsPromise
CHECK_DEADLOCK FALSE
