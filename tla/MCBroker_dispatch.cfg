SPECIFICATION FairSpec
CONSTANTS
  Sock = {1, 2}
  Worker = {"main"}
  Main = "main"
  Topics = 3
  Stop = 1
  Ask = 2
  View = 3
  Listened = {3}
  Published = {3}
  MaxSubs = 2
  MaxPub = 2
  MaxOut = 1
PROPERTIES PublicationsLeave CallbacksReturn DispatchedInOrder
CHECK_DEADLOCK FALSE
