\* The loops on the exported arrays.
SPECIFICATION Spec
CONSTANTS
  NPix = 2
  NHid = 2
  NOut = 2
  Half = 16
  Networks <- MCNetworks
  Images <- MCImages
  Stack <- MCZeroed
  None = None
INVARIANT RightAsExported
