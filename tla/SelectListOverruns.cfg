SPECIFICATION Spec
CONSTANTS
  Words <- MCWords
  NumberWords <- MCNumberWords
  Upper <- MCUpper
  IntOf <- MCIntOf
  NotInt = NotInt
  Programs <- OneSelect
  RequestTexts <- MCRequestTexts
  SqlLengthLimit = 30
  LineMax = 30
  NameMax = 24
  MaxRestarts = 0
CHECK_DEADLOCK FALSE
INVARIANT
  SelectListFits
