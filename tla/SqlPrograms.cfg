SPECIFICATION Spec
CONSTANTS
  Words <- MCWords
  NumberWords <- MCNumberWords
  Upper <- MCUpper
  IntOf <- MCIntOf
  NotInt = NotInt
  Programs <- AllPrograms
  RequestTexts <- MCRequestTexts
  SqlLengthLimit = 30
  LineMax = 30
  NameMax = 24
  MaxRestarts = 1
CHECK_DEADLOCK FALSE
INVARIANTS
  TypeOK
  LiteralsIntact
  GrammarExact
  OffsetsAreRowStarts
  ResolutionOrderFree
  BlameIsTruthful
  ExitStatusTruthful
PROPERTY
  ImplementsTableRows
