SPECIFICATION MainLiveSpec
CONSTANTS
    h1 = h1
    h2 = h2
    Host <- Hosts2
    NoHost = NoHost
    Relay = Relay
    RelayFirst = {FALSE}
    Users = {h2}
    FirstBorn <- InOrder
    NearTie = TRUE
    MaxAttempts = 2
    MaxDisturbances = 1
INVARIANTS MainTypeOK LeaderNamesItself NeverOwnAgent
 
