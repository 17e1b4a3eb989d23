SPECIFICATION FairSpec
CONSTANTS
  Keys <- AllKinds
  MaxQueue = 2
  FastTransfer = FALSE
INVARIANTS
  TypeOK
  InStep
  ModifiersFollowKeys
  SlotIsMeant
  NothingForgotten
PROPERTIES
  PressReturned
