SPECIFICATION SessionSpec
CONSTANTS
  Root = "root"
  Entries <- Tree
  SliceLines = 2
  RecordBatchCount = 1
  BatchSize = 1
  Watermark = 1
  SearchGap = 1
  FpReach = 1
  WipeReach = 1
  NoIndex = NoIndex
  Torn = Torn
  MaxRuns = 3
  NoConfig = NoConfig
  Launches <- CommandLines
INVARIANTS
  ListedOncePerRun
  HiddenWasHandedOn
  RecordIsListing
  AfreshComplete
  TargetsApart
  CleanLeavesOnlyFar
PROPERTY
  RunEnds
CHECK_DEADLOCK FALSE
