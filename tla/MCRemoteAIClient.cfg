SPECIFICATION FairSpec
CONSTANTS
  Topics = 2
  Load <- LoadTwo
  StopAsk = 1
  Ask = 2
  MaxDrops = 2
  MaxInbox = 1
INVARIANTS TypeOK AllResubscribed
PROPERTIES LoaderFinishes ReconnectReturns FramesWhole
CHECK_DEADLOCK FALSE
