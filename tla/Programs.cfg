SPECIFICATION ProgramsSpec
CONSTANTS
  NPix = 2
  NHid = 2
  NOut = 2
  Half = 16
  Networks <- MCNetworks
  Images <- MCImages
  Stack <- MCStack
  None = None
  Divider = 6
  Width = 2
  Depth = 1
  Bytes = {1, 2}
  MaxSlips = 1
CHECK_DEADLOCK FALSE
INVARIANTS
  RightFromStack
  Lossless
  IsLine
PROPERTIES
  Downloads
  Boots
