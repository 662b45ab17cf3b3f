\* The bias of the last output.
SPECIFICATION SysSpec
CONSTANTS
  NPix = 3
  NHid = 2
  Half = 64
  MemSize = 48
  PowerUp <- MCPowerUp
  BusData <- MCBusData
  FloatWrEna <- MCEither
  Networks <- MCNetworks
  Images <- MCDarkCorner
  None = None
  CheckAddrs <- MCCheckAddrs
  Rounds = 2
  MaxGap = 2
INVARIANT BiasAdded
