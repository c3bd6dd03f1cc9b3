SPECIFICATION ScriptsSpec
CONSTANTS
  Sock = {1, 2}
  Casts <- CameraAndViewer
  Worker = {"main"}
  Main = "main"
  Topics = 4
  Stop = 1
  Ask = 2
  CameraTopic = 3
  View = 4
  Commands <- FirstOnly
  Load <- StreamTopics
  Listened = {}
  Published = {2}
  MaxSubs = 3
  MaxPub = 2
  MaxOut = 8
PROPERTIES CameraStarts
CHECK_DEADLOCK FALSE
