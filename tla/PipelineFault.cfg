SPECIFICATION FairSpec
CONSTANTS
  Programs <- MCBadAccess
  Interrupts = {}
  Handler <- MCHandler
  Levels = 3
  LastPc = 24
PROPERTIES
  FaultHandled
