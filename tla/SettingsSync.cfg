\* Two hosts, one change of the settings, one restart or failed request;
\* each host synchronises in its periodic goroutine.
SPECIFICATION LiveSpec
CONSTANTS
    Host = {h1, h2}
    LastPusher = h2
    Users = {h1}
    Restarting = {h1}
    Form <- OneForm
    Syncing = {"main"}
    Slow <- SlowBehind
    Empty = Empty
    Default = Default
    MaxEdits = 1
    MaxFaults = 1
INVARIANTS
    TypeOK
    SecretsStayLocal
PROPERTIES
    KeptWhileRunning
    FileCatchesUp
    SettingsConverge
