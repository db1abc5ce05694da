SPECIFICATION FairSpec
CONSTANTS
  SECTSIZE = 2
  ELFHDR = 0
  HdrSectors = 2
  PGSIZE = 4
  NPTENTRIES = 4
  MB = 8
  Images <- MCLinked
INVARIANTS TypeOK KernelInPlace StaysMapped
PROPERTY Boots
CHECK_DEADLOCK FALSE
