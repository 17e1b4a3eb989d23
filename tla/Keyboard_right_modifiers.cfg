SPECIFICATION Spec
CONSTANTS
  Keys <- AllKinds
  MaxQueue = 2
  FastTransfer = FALSE
INVARIANTS
  EveryModifierCounts
