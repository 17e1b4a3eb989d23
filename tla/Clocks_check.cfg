SPECIFICATION ClocksSpec
CONSTANTS
  Wrap = 8
  Durations <- MCDurations
  Seconds = 3
  Half = 2
  Century = 2
  Ten = 2
  Nibble = 4
  PmBit = 8
  current_year = 9
  Garbage <- MCGarbage
INVARIANTS
  Untorn
  Converted
PROPERTIES
  ExactWait
  WaitEnds
  ReadEnds
CHECK_DEADLOCK FALSE
