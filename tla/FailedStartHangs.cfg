SPECIFICATION FairSpec
CONSTANTS
  Conns = {c1}
  NoConn = NoConn
  Capacity = 2
  WorkerCount = 2
  MaxSignals = 1
  Faults = {"worker"}
PROPERTY
  FailedStartReturns
