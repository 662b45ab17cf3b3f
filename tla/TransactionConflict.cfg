\* A word that is read in the cycle in which another core stores it.
SPECIFICATION TmSpec
CONSTANTS
  CoreCnt = 2
  BufSize = 4
  RdMod = 4
  Addresses = {0}
  Scenarios <- MCScenarios
INVARIANT CommitsCurrent
