SPECIFICATION ScriptsSpec
CONSTANTS
  Sock = {1, 2}
  Casts <- AllTogether
  Worker = {"main"}
  Main = "main"
  Topics = 5
  Stop = 1
  Ask = 2
  CameraTopic = 3
  View = 5
  Commands <- FirstOnly
  Load <- StreamTopics
  Listened = {2, 5}
  Published = {2}
  MaxSubs = 3
  MaxPub = 2
  MaxOut = 3
INVARIANTS PublisherMakesTwo
PROPERTIES ListenersSettle StreamStaysOn 
CHECK_DEADLOCK FALSE
