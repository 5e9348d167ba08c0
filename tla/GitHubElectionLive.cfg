\* Under fair threads; a lease expires after one tick.
\* The system may stop: an agent stays with its server, and a main loop that
\* waits for a replaced context never returns.
CHECK_DEADLOCK FALSE
SPECIFICATION LiveSpec
CONSTANTS
  h1 = h1
  h2 = h2
  Host = {h1, h2}
  NoHost = NoHost
  Interval = 0
  MaxAge = 1
  RetryLimit = 1
  MaxDisturbances = 1
  Skew <- NoSkew
PROPERTIES
  AnElectionEnds
  ALeaseIsKeptAlive
