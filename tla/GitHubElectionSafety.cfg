\* One clock is a tick ahead of the other; one fault or user command.
\* The system may stop: an agent stays with its server, and a main loop that
\* waits for a replaced context never returns.
CHECK_DEADLOCK FALSE
SPECIFICATION Spec
CONSTANTS
  h1 = h1
  h2 = h2
  Host = {h1, h2}
  NoHost = NoHost
  Interval = 1
  MaxAge = 3
  RetryLimit = 2
  MaxDisturbances = 1
  Skew <- OneSkew
INVARIANTS
  TypeOK
  PendingWritesSound
PROPERTIES
  LeaseSpec
  TakeoverJustified
