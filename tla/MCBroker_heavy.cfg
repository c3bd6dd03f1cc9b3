SPECIFICATION Spec
CONSTANTS
  Sock = {1, 2}
  Worker = {"main", "heavy"}
  Main = "main"
  Topics = 3
  Stop = 1
  Ask = 2
  View = 3
  Listened = {3}
  Published = {3}
  MaxSubs = 2
  MaxPub = 1
  MaxOut = 1
INVARIANTS EveryListenerServed
CHECK_DEADLOCK FALSE
