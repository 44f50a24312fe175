CONSTANTS
  j1 = j1
  j2 = j2
  j3 = j3
  c1 = c1
  NoJob = NoJob
  Jobs = {j1, j2, j3}
  Clusters = {c1}
  ClusterOf <- MCClusterOf
  Configs <- MCConfigs
  Age = 1
  Walltime = 1
  MaxFile = 1
  MaxTime = 4
SPECIFICATION Spec
INVARIANTS TypeOK CopyComplete
PROPERTIES MoveKeepsJobs 
CHECK_DEADLOCK FALSE
SYMMETRY MCSymmetry
