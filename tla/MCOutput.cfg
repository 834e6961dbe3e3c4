SPECIFICATION Spec
CONSTANTS
  Row <- Rows
  Found <- Growing
  SliceLines = 2
  AsyncBatchSize = 2
  RecordBatchCount = 1
  ProgressLines = 1
  MaxKills = 1
  NoIndex = NoIndex
INVARIANTS
  WriterAwake
  OutputIsListing
PROPERTIES
  StreamSpec
  OldSlicesKept
  ShutdownEnds
CHECK_DEADLOCK FALSE
