CONSTANTS
  h1 = h1
  h2 = h2
  cpu = cpu
  w1 = w1
  w2 = w2
  Node = Node
  Hosts = {h1, h2}
  Parts = {cpu}
  Measured <- MCMeasured
  Writers = {w1}
  Freq = 2
  Cap = 2
  Retention = 2
  Fractions <- MCFractions
  Late = 2
  LastStart = 2
  MaxTime = 5
SPECIFICATION Spec
INVARIANTS TypeOK Reachable ReadsTheSamples
PROPERTIES ImplementsSampleStore RetentionSparesJobs
CHECK_DEADLOCK FALSE
