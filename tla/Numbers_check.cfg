SPECIFICATION FairSpec
CONSTANTS
  MaxWord = 255
  Radices <- MCRadices
  BufferSize = 8
INVARIANTS
  PrintsTheNumber
  Divides
PROPERTY
  Finishes
CHECK_DEADLOCK FALSE
