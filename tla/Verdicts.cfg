SPECIFICATION Spec
CONSTANTS
  Execs = {1}
  Devices = {"d1"}
  Agents = {"a1"}
  DeviceOf <- OneDevice
  AgentOf <- OneAgent
  Workers = {w1, w2}
  NoWorker = NoWorker
  MaxSessions = 3
  CancelExecs = {1}
  StopExecs = {1}
  Faults = {"raise", "die", "shutdown", "lost", "offline", "crash", "release", "delete"}
  AgentStatuses = {"passed", "failed", "error"}
  ChildSets <- SomeChildren
INVARIANTS
  AgentIsCurrent
PROPERTIES
  VerdictOnlyWorsens
  SettledIsFinal
