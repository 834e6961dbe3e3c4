SPECIFICATION SessionSpec
CONSTANTS
  Root = "root"
  Entries <- Tree
  SliceLines = 2
  RecordBatchCount = 1
  BatchSize = 1
  Watermark = 1
  SearchGap = 9
  FpReach = 9
  WipeReach = 9
  NoIndex = NoIndex
  Torn = Torn
  MaxRuns = 2
  NoConfig = NoConfig
  Launches <- SameAgain
INVARIANT
  ResumeComplete
CHECK_DEADLOCK FALSE
