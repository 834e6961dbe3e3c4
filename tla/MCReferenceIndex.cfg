\* A shard of four slots with probes of at most three, a map of four slots.
SPECIFICATION Spec
CONSTANTS
  a = a
  b = b
  c = c
  d = d
  e = e
  Fingerprints = {a, b, c, d, e}
  HashOf <- MCHash
  Free = Free
  Capacity = 4
  EstimatedFiles = 2
  MinCapacity = 2
  ShardCount = 1
  ProbeLimit = 3
  NoAnswer = NoAnswer
  Rows <- MCRows
  NoRow = NoRow
  MapCapacity = 4
  Now = 10
  SkipInterval = 5
INVARIANTS TrustIsRecorded OldRowsTrusted
PROPERTY BoundedSetSpec
