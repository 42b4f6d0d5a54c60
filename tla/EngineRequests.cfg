SPECIFICATION FairSpec
CONSTANTS
  Workers = {w1, w2}
  w1 = w1
  w2 = w2
  NoWorker = NoWorker
  Names <- TwoNames
  StorageOf <- TwoStorage
  InitialCapacity = 4
  MaxRequests = 3
  Faults = {"oom", "register", "crash"}
INVARIANTS
  
  TableExclusion
  IndexMatchesFile
  AckedIdIsRowPosition
PROPERTIES
  RequestsAnswered
  ImplementsTableService
