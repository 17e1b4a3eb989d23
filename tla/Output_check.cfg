SPECIFICATION OutputSpec
CONSTANTS
  width = 3
  height = 2
  tap_len = 2
  MemoryRows = 3
  Text <- MCText
  ByteSize = 4
  MaxScrolls = 2
  Alphabet <- MCAlphabet
  MaxFormat = 6
INVARIANTS
  TypeOK
  BelowUntouched
  PrintsTheFormat
  NoStrayWords
PROPERTY
  ImplementsTerminal
CHECK_DEADLOCK FALSE
