SPECIFICATION Spec
CONSTANTS
  Top = 6
  BYTE = 3
  WORD = 2
  Contents <- MCContents
  Fills <- MCFills
  Texts <- MCTexts
  MAXLONG = 15
INVARIANTS MovesExactly ContractsMet
CHECK_DEADLOCK FALSE
