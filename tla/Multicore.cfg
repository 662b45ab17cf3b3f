SPECIFICATION AllSpec
CONSTANTS
  NumBuf = 3
  Words = 2
  CountMod = 4
  Waits = {"forever", "timed"}
  MaxMsgs = 9
  NumMod = 9
  MaxAcquires = 4
  Impl = {"DOUBLE_NOC", "DOUBLE_NOC_WR", "TRIPLE_NOC"}
  EarlyImpl = {"DOUBLE_NOC", "TRIPLE_NOC"}
  SampleWords = 2
  MaxSamples = 4
  HlCoreCnt = 3
  LckCnt = 2
  HlLock = 1
  CasCoreCnt = 2
  LockIds = {0, 1}
  TheLock = 1
  CoreCnt = 2
  BufSize = 4
  RdMod = 4
  Addresses = {0, 1, 2, 3, 4}
  Scenarios <- MCScenarios
CHECK_DEADLOCK FALSE
INVARIANTS
  HeldIntact
  SourceStable
  ReadsNewest
  ApartFromReader
  AtomicAsBuilt
PROPERTIES
  IsQueue
  Delivers
  IsLock
  NoOvertaking
  Grants
  Connects
  CallsReturn
  IsUnitLock
  IsCasLock
  Answered
