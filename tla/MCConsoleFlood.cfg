SPECIFICATION Spec
CONSTANTS
  CONSBUFSIZE = 3
  Chars = {a, b}
  NUL = NUL
  KbdDepth = 2
INVARIANT TypeOK
PROPERTY RefinesLossy
