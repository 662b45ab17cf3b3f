\* Undriven write enables of either value under images with a black corner, and
\* none that writes under any image.
SPECIFICATION BuildSpec
CONSTANTS
  NPix = 3
  NHid = 2
  Half = 64
  MemSize = 48
  PowerUp <- MCPowerUp
  BusData <- MCBusData
  FloatWrEna <- MCEither
  Networks <- MCNetworks
  Images <- MCImages
  None = None
  CheckAddrs <- MCCheckAddrs
  Rounds = 2
  MaxGap = 2
INVARIANTS
  OperandsMatch
  NeverHung
  CheckReads
PROPERTIES
  ServesAsBuilt
  Returns
