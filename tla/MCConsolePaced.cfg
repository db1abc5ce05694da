SPECIFICATION PacedSpec
CONSTANTS
  CONSBUFSIZE = 4
  Chars = {a, b}
  NUL = NUL
  KbdDepth = 2
PROPERTIES RefinesFifo Delivered
