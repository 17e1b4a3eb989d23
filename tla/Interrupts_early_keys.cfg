SPECIFICATION Spec
CONSTANTS
  Devices     <- MCDevices
  DriverLines <- MCDriverLines
  SoftVectors <- MCSoftVectors
  TickMod = 2
  MaxFrames = 3
  EarlyKeys = TRUE
INVARIANT
  ByteAnnounced
