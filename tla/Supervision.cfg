SPECIFICATION LiveSpec
CONSTANTS
  Mains = {m1, m2, m3}
  Dogs = {w1, w2}
  NoMain = NoMain
  Updates = {u1, u2}
  MaxFaults = 1
  MaxStarts = 1
  MaxUpdates = 2
INVARIANTS TypeOK 
PROPERTIES ComesToRest WatchdogRestarts
CHECK_DEADLOCK FALSE
