SPECIFICATION FairSpec
CONSTANTS
  NStabs = 5
  Types = {"FUN", "PSYM"}
  AddrSpace = 5
  Tables <- MCTables
INVARIANTS TypeOK FindsContaining NotFoundIsSound
PROPERTY Terminates
CHECK_DEADLOCK FALSE
