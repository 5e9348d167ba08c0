\* Two keys of state changes or not; a ring of two rows and a file that is
\* rewritten when it has more; four rows and two faults, so that a row may be
\* lost, glued to the next, or come out of order from a file that is then
\* shortened.
CONSTANTS
    Key = {k1, k2}
    Change = {k2}
    None = None
    RingMax = 2
    FileMax = 2
    MaxEvents = 4
    MaxFaults = 2
SPECIFICATION HistorySpec
INVARIANTS ShowsTheLatest RingIsBacked
\* When as many rows are logged as the bound allows, the model stops.
CHECK_DEADLOCK FALSE
