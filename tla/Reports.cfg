\* A history of one row, which is logged before, between or after the pushes;
\* two daily pushers, as of two runs of the server in one process; two days; one
\* fault or request: a restart, a write, a download or a request to GitHub that
\* fails, or a daily push by request.
CONSTANTS
    Key = {k1}
    Change = {k1}
    None = None
    RingMax = 1
    FileMax = 1
    MaxEvents = 1
    MaxFaults = 1
    Pusher = {p1, p2}
    MaxDays = 2
SPECIFICATION LiveSpec
INVARIANTS TypeOK MissedOnlyByFailure
PROPERTIES CompiledCatchesUp
