SPECIFICATION LiveSpec
CONSTANTS
    h1 = h1
    h2 = h2
    Host <- Hosts2
    NoHost = NoHost
    FirstBorn <- InOrder
    NearTie = FALSE
    MaxDisturbances = 2
PROPERTIES LeadersConverge
INVARIANTS TypeOK
