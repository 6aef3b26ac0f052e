SPECIFICATION Spec
CONSTANTS
  Execs = {1, 2}
  Devices = {"d1"}
  Agents = {"a1"}
  DeviceOf <- OneDevice
  AgentOf <- OneAgent
  Workers = {w1}
  NoWorker = NoWorker
  MaxSessions = 2
  CancelExecs = {}
  StopExecs = {1}
  Faults = {"offline", "release", "raise", "lost", "snapshot"}
  AgentStatuses = {}
  ChildSets <- NoChildren
INVARIANTS
  ActiveHoldsDevice
  LockIsOwned
  OverlapOnlyAfterVerdict
PROPERTIES
  ImplementsPromise
