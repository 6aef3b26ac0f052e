CONSTANTS
  suite = suite  suite2 = suite2  case = case
  hook = hook  hook2 = hook2  node = node  step = step
  Suites = {suite, suite2}
  Cases = {case}
  Nodes = {hook, hook2, node}
  Steps = {step}
  Asserted = {step}
  SuiteOf <- OneCase
  ParentOf <- Tree
  Conns = {1, 2}
  Reports = {"passed", "failed", "error", "stopped", "skipped"}
  MaxReads = 2
  SuiteOrder <- Order
  CasesOf <- InSuite
  SetupOf <- Before
  MainOf <- Main
  TeardownOf <- After
  Assertions = {hook}
  Lenient = {}
  MaxConns = 2
  MaxWire = 1
SPECIFICATION PathSpec
INVARIANTS Agreement NeverBetter
CHECK_DEADLOCK FALSE
