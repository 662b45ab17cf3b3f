SPECIFICATION Spec
CONSTANTS
  Size = 4
  Burst = 2
  Words = 64
  Base = 7
  Floor = 2
  MemWords = 8
  Vals = {v1, v2}
  v1 = v1
  v2 = v2
  BusErrors = {FALSE, TRUE}
SYMMETRY Stored
INVARIANTS
  TopsOrdered
PROPERTIES
  OwnWordsOnly
  IsStack
