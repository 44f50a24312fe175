CONSTANTS
  h1 = h1
  h2 = h2
  s1 = s1
  w1 = w1
  torn = torn
  Shards = {s1}
  ShardOf <- MCShardOf
  Writers = {w1}
  Torn = torn
  Hosts = {h1}
  ChanCap = 2
  MaxWALSize = 0
  MaxDelay = 0
  IoErrors = FALSE
  MaxTime = 2
  MaxSamples = 2
SPECIFICATION Spec
INVARIANTS SnapshotCapturesMemory
CHECK_DEADLOCK FALSE
