SPECIFICATION Spec
CONSTANTS
  Workers = {w1}
  w1 = w1
  NoWorker = NoWorker
  Names <- OneName
  StorageOf <- OneStorage
  InitialCapacity = 4
  MaxRequests = 3
  Faults = {"write"}
SYMMETRY WorkerSymmetry
INVARIANTS
  IndexMatchesFile
