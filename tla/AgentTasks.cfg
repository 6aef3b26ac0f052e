SPECIFICATION FairSpec
CONSTANTS
  NoOne = NoOne
  Execs = {e1, e2}
  Incompatible = {}
  Malformed = {}
  Outcomes = {"passed"}
  Memory = 2
  MaxStarts = 2
  MaxStops = 2
  MaxDrops = 1
  Faults = {"timeout", "raise"}
INVARIANT OneOutcome
PROPERTIES NeverRunAgain EveryTaskEnds BegunIsRecorded
CHECK_DEADLOCK FALSE
