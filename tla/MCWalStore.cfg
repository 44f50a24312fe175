CONSTANTS
  h1 = h1
  h2 = h2
  s1 = s1
  w1 = w1
  torn = torn
  Shards = {s1}
  ShardOf <- MCShardOf
  Writers = {w1}
  Torn = torn
  Hosts = {h1, h2}
  ChanCap = 1
  MaxWALSize = 1
  MaxDelay = 1
  IoErrors = TRUE
  MaxTime = 2
  MaxSamples = 2
SPECIFICATION FairSpec
INVARIANTS TypeOK    
PROPERTIES CheckpointEnds ShutdownReturns
CHECK_DEADLOCK FALSE
