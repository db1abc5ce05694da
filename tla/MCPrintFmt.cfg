SPECIFICATION FairSpec
CONSTANTS
  Chars <- MCChars
  Formats <- MCFormats
  Ints <- MCInts
  LongLongs <- MCLongLongs
  Widths <- MCWidths
  Strings <- MCStrings
  INT_MAX = 15
  LLONG_MAX = 127
  MAXERROR = 8
  error_string <- MCErrors
  Numerals <- MCNumerals
  E_INVAL = 3
  Sizes = {0, 1, 4}
INVARIANTS FmtTypeOK NumbersRight StringsRight UnknownVerbatim SnprintfContract
PROPERTY FmtTerminates
CHECK_DEADLOCK FALSE
