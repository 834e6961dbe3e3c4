\* A shard and a map of four slots; a probe may run through all of them.
SPECIFICATION Spec
CONSTANTS
  a = a
  b = b
  c = c
  d = d
  e = e
  Fingerprints = {a, b, c, d, e}
  HashOf <- MCHash
  Free = Free
  Capacity = 4
  EstimatedFiles = 2
  MinCapacity = 2
  ShardCount = 1
  ProbeLimit = 4
  NoAnswer = NoAnswer
  Rows <- MCRows
  NoRow = NoRow
  MapCapacity = 4
  Now = 10
  SkipInterval = 5
INVARIANT InsertedIsStored
