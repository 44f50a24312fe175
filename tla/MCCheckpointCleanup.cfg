CONSTANTS
  c1 = c1
  c2 = c2
  Hosts = {h1, h2}
  Clusters = {c1, c2}
  ClusterOf <- MCClusterOf
  NoCluster = NoCluster
  Workers = {w1, w2}
  ResultsCap = 1
  Modes = {"archive", "delete"}
  Retention = 1
  MaxTime = 3
SPECIFICATION FairSpec
INVARIANTS TypeOK RemovedAreArchived ArchivedOnce NoWorkerLeft NeverStuck
PROPERTIES RunAdvances RunEnds
