SPECIFICATION Spec
CONSTANTS
  MaxRecords = 2
  MaxClears = 1
  MaxLines = 2
  MaxChildren = 2
  MaxClients = 2
INVARIANTS OutputKeepsOrder
PROPERTIES LastWordsAreLogged TableCatchesUp
CHECK_DEADLOCK FALSE
