SPECIFICATION Spec
CONSTANTS
  Workers = {w1, w2}
  w1 = w1
  w2 = w2
  NoWorker = NoWorker
  Names = {users, items}
  users = users
  items = items
  StorageOf <- OwnStorage
  InitialCapacity = 1
  MaxRequests = 3
  Faults = {"write", "flush", "long"}
SYMMETRY Symmetry
INVARIANTS
  TypeOK
  IndexDense
