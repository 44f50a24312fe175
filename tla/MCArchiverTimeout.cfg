CONSTANTS
  j1 = j1
  j2 = j2
  n1 = n1
  Jobs = {j1, j2, n1}
  Nats = {n1}
  ChanCap = 1
  DbErrors = FALSE
SPECIFICATION Spec
INVARIANTS UnfinishedAreFailed
CHECK_DEADLOCK FALSE
