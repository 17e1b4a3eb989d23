SPECIFICATION FairSpec
CONSTANTS
  Devices     <- MCDevices
  DriverLines <- MCDriverLines
  SoftVectors <- MCSoftVectors
  TickMod = 2
  MaxFrames = 3
  EarlyKeys = FALSE
INVARIANTS
  TypeOK
  InServiceMatchesFrame
  NoNesting
  GateReady
  ByteAnnounced
PROPERTIES
  StoppedForGood
  TickIsExclusive
  ImplementsService
  EveryServiceEnds
  TimerServed
  KeyboardServed
