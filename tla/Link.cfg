SPECIFICATION FairSpec
CONSTANTS
  Execs = {e1}
  NoOne = NoOne
  Conns = {k1, k2}
  NoConn = NoConn
  RetryOnAuth = {TRUE, FALSE}
  Incompatible = {}
  MaxStarts = 2
  MaxBreaks = 2
  MaxFails = 1
INVARIANTS NoVerdictForgotten Reachable
PROPERTIES ComesBack Confirmed
CHECK_DEADLOCK FALSE
