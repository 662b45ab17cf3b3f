\* As many tags as config/default.xml gives the method cache, most of them unused.
SPECIFICATION MemorySpec
CONSTANTS
  CacheWords = 8
  MethodCount = 16
  Burst = 4
  MemoryPrograms <- MCFewMethods
  DataWords <- MCDataWords
  Offsets = {0, 1}
  Lines = 1
  Vals = {0, 1}
INVARIANT
  FetchesCode
