SPECIFICATION FairSpec
CONSTANTS
  Execs = {1, 2}
  Devices = {"d1"}
  Agents = {"a1"}
  DeviceOf <- OneDevice
  AgentOf <- OneAgent
  Workers = {w1}
  NoWorker = NoWorker
  MaxSessions = 3
  CancelExecs = {}
  StopExecs = {}
  Faults = {"shutdown", "offline"}
  AgentStatuses = {}
  ChildSets <- NoChildren
PROPERTIES
  EveryExecutionSettles
  EveryLockIsReleased
