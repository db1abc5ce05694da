SPECIFICATION Spec
CONSTANTS
  CRT_ROWS = 3
  CRT_COLS = 3
  Glyphs = {x, blank}
  Blank = blank
INVARIANT TypeOK
PROPERTY RefinesTerminal
