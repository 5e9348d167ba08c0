SPECIFICATION FairSpec
CONSTANTS
    h1 = h1
    h2 = h2
    Host <- Hosts2
    NoHost = NoHost
    Relay = Relay
    RelayFirst = {FALSE}
    Users = {}
    FirstBorn <- InOrder
    NearTie = FALSE
    MaxAttempts = 2
    MaxDisturbances = 0
PROPERTIES OneServerInTheEnd
