SPECIFICATION FairSpec
CONSTANTS
  MaxConn = 2
  MaxFd = 2
  BackLog = 2
  HeavyBytes = 1
  Talkers = {1, 2}
  MaxQueued = 1
  MaxDepth = 1
  ThreadMod = 2
  Chunks <- AllChunks
PROPERTIES NewcomersServed HangUpReported
CHECK_DEADLOCK FALSE
