SPECIFICATION CoreSpec
CONSTANTS
  Programs <- MCPrograms
  Interrupts = {3, 4}
  Handler <- MCHandler
  Levels = 3
  LastPc = 24
  CacheWords = 8
  MethodCount = 3
  Burst = 4
  MemoryPrograms <- MCMemoryPrograms
  DataWords <- MCDataWords
  Offsets = {0, 1}
  Lines = 1
  Vals = {0, 1}
INVARIANTS
  NothingLost
  FetchesCode
PROPERTIES
  IsProcessor
  AnsweredOnce
  Served
  Resumes
  IsMemory
  StallsEnd
