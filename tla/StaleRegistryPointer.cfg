SPECIFICATION Spec
CONSTANTS
  Workers = {w1, w2}
  w1 = w1
  w2 = w2
  NoWorker = NoWorker
  Names <- TwoTables
  StorageOf <- TwoTablesStorage
  InitialCapacity = 1
  MaxRequests = 2
  Faults = {}
SYMMETRY WorkerSymmetry
INVARIANTS
  RegistryPointersValid
