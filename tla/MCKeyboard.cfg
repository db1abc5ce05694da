SPECIFICATION KbdSpec
CONSTANTS
  Keys = {"LSHIFT", "LCTL", "RCTL", "RALT", "CAPS", "A", "DEL"}
  WireCap = 4
INVARIANTS KbdTypeOK NoStuckModifier
PROPERTY Decoded
