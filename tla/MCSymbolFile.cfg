SPECIFICATION Spec
CONSTANTS
  Hex <- MCHex
  Dec <- MCDec
  EndInOperator <- MCEndInOperator
  Files <- MCFiles
INVARIANTS
  TablesHoldRecords
  TablesAgree
CHECK_DEADLOCK FALSE
