SPECIFICATION Spec
CONSTANTS
  Execs = {1}
  Devices = {"d1"}
  Agents = {"a1"}
  DeviceOf <- OneDevice
  AgentOf <- OneAgent
  Workers = {w1}
  NoWorker = NoWorker
  MaxSessions = 3
  CancelExecs = {1}
  StopExecs = {}
  Faults = {"die", "shutdown", "stale", "lost"}
  AgentStatuses = {}
  ChildSets <- NoChildren
INVARIANTS
  TypeOK
  OneDispatcher
  DeliveredOnce
  QueuedIsClaimable
