\* One handler, the main loop and one agent that promotes itself.
SPECIFICATION LiveSpec
CONSTANTS
    Handler = {w1}
    MainLoop = MainLoop
    Background = {b1}
    Syncer = {1}
    Kind = {"renewal"}
    Port = {p1}
    NoPort = NoPort
    MaxContexts = 2
    MaxRuns = 2
    MaxSshEdits = 2
INVARIANTS TypeOK CurrentIsCaptured SshHandleListens
PROPERTIES WatchersFollow
CHECK_DEADLOCK FALSE
