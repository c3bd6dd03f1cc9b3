SPECIFICATION Spec
CONSTANTS
  Sock = {1, 2}
  Worker = {"main"}
  Main = "main"
  Topics = 3
  Stop = 1
  Ask = 2
  View = 3
  Listened = {1, 2, 3}
  Published = {}
  MaxSubs = 3
  MaxPub = 0
  MaxOut = 1
INVARIANTS TypeOK ForgottenUpToTwo StreamFollowsViewers
CHECK_DEADLOCK FALSE
PROPERTIES DiesOfTheUnforgotten
