CONSTANTS
  j1 = j1
  j2 = j2
  n1 = n1
  Jobs = {j1, j2, n1}
  Nats = {n1}
  ChanCap = 1
  DbErrors = TRUE
SPECIFICATION FairSpec
INVARIANTS TypeOK PendingExact CleanShutdown SuccessMeansArchived NeverStuck
PROPERTIES ImplementsService EveryStopSettles ShutdownReturns
CHECK_DEADLOCK FALSE
