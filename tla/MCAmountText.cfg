CONSTANTS
  Pack <- MCPack
  Digit = {0, 2}
  Dot = Dot
  Other = Other
  TextLen = 6
  U64 = 20000000
  MaxChars = 8
SPECIFICATION TextSpec
INVARIANTS
  ReadAsWritten
  HeardAsRead
  ScriptsArePlayable
CHECK_DEADLOCK FALSE
