SPECIFICATION FairSpec
CONSTANTS
  POLLS = 2
  SPEED = 2
  Machines <- MCMachines
  STACK = 50
  MaxPanics = 1
  NextNargs = {0, 6}
  CmosContents <- MCCmos
  PGSIZE = 4096
  EXTPHYSMEM = 1048576
INVARIANTS TypeOK NothingLost BacktraceExact PanicIsFinal
PROPERTY PromptAgain
