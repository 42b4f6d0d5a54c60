SPECIFICATION FairSpec
CONSTANTS
  Conns = {c1, c2, c3}
  NoConn = NoConn
  Capacity = 2
  WorkerCount = 2
  MaxSignals = 1
  Faults = {"listen", "accept"}
PROPERTIES
  EventuallyAnswered
  ShutdownCompletes
  FailedStartReturns
  ImplementsTaskQueue
