SPECIFICATION Spec
CONSTANTS
  NStabs = 7
  AddrSpace = 5
  ULIM = 1
  Tables <- MCTables
INVARIANTS TypeOK RightFunction RightSource CountsParameters FailsOnlyIfAbsent
CHECK_DEADLOCK FALSE
