SPECIFICATION LiveSpec
CONSTANTS
  a1 = a1
  Agents = {a1}
  Conns <- MCConns
  Viewer = Viewer
  NoConn = 0
  ClosesFirst = TRUE
  MaxIncidents = 1
  Owner <- MCOwner
INVARIANTS TypeOK NothingOutlivesItsHandler
PROPERTIES FramesSpareAgents HandlersReturn PingersEnd
CHECK_DEADLOCK FALSE
