SPECIFICATION LiveSpec
CONSTANTS
  Servers = {s1, s2}
  Home = s1
  Away = s2
  Nowhere = Nowhere
  Repositories = {TRUE, FALSE}
  MaxAttempts = 3
  MaxDelay = 2
  MaxDisturbances = 5
INVARIANTS TypeOK NoConnectionLeftOpen
PROPERTIES AgentLeaves AgentConnects
CHECK_DEADLOCK FALSE
