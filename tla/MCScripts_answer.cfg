SPECIFICATION ScriptsSpec
CONSTANTS
  Sock = {1}
  Casts <- OnePublisher
  Worker = {"main"}
  Main = "main"
  Topics = 4
  Stop = 1
  Ask = 2
  CameraTopic = 3
  View = 4
  Commands <- Nothing
  Load <- StreamTopics
  Listened = {}
  Published = {2}
  MaxSubs = 3
  MaxPub = 3
  MaxOut = 8
PROPERTIES PublisherAnswered
CHECK_DEADLOCK FALSE
