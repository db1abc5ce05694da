SPECIFICATION Spec
CONSTANTS
  NStabs = 6
  AddrSpace = 5
  ULIM = 1
  Tables <- MCTables
INVARIANT LineIsRight
CHECK_DEADLOCK FALSE
