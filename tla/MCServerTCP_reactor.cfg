SPECIFICATION Spec
CONSTANTS
  MaxConn = 3
  MaxFd = 2
  BackLog = 2
  HeavyBytes = 1
  Talkers = {1, 2}
  MaxQueued = 1
  MaxDepth = 2
  ThreadMod = 4
  Chunks <- AllChunks
INVARIANTS OpenIffListed ClientCountExact TypeOK SingleReader ReportedOnce ThreadCountExact
PROPERTIES OnlyHeavyReaped DeadWeightBlocks ZombieNeverExits
CHECK_DEADLOCK FALSE
