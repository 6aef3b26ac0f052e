SPECIFICATION Spec
CONSTANTS
  NoOne = NoOne
  Execs = {e1, e2, e3, e4}
  Incompatible = {e4}
  Malformed = {e3}
  Outcomes = {"passed"}
  Memory = 1
  MaxStarts = 1
  MaxStops = 1
  MaxDrops = 0
  Faults = {"startfail", "timeout", "crash", "exit"}
INVARIANTS TypeOK RefsAreBacked ServerServesRuns
SYMMETRY Interchangeable
CHECK_DEADLOCK FALSE
