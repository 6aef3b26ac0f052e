CONSTANTS
  suite = suite  case = case  hook = hook  node = node  step = step
  Suites = {suite}
  Cases = {case}
  Nodes = {hook, node}
  Steps = {step}
  Asserted = {step}
  SuiteOf <- OneCase
  ParentOf <- Tree
  Conns = {c1, c2}
  Reports = {"passed", "failed", "error", "stopped"}
  MaxReads = 1
SPECIFICATION Spec
INVARIANTS VerdictCoversRows
PROPERTIES ResultsStand NoFalsePass
CHECK_DEADLOCK FALSE
