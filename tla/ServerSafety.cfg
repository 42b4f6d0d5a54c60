SPECIFICATION Spec
CONSTANTS
  Conns = {c1, c2, c3, c4}
  NoConn = NoConn
  Capacity = 2
  WorkerCount = 3
  MaxSignals = 2
  Faults = {"listen", "worker", "accept", "late_signal"}
SYMMETRY ConnSymmetry
INVARIANTS
  TypeOK
  SingleOwner
  AnsweredOnce
  NoStrandedTask
  DrainedAtJoin
  ThreadsGoneAtFree
