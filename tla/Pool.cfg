SPECIFICATION FairSpec
CONSTANTS
  Execs = {1, 2, 3}
  NoExec = NoExec
  Devices = {"d1", "d2"}
  DeviceOf <- TwoDevices
  Concurrency = 2
  MaxRetries = 1
  MaxStops = 1
  MaxFails = 1
  MaxFlaps = 1
INVARIANTS PoolIsBounded StopLeavesNoTask ClaimsAreHeld NoLostWakeup
PROPERTIES EveryExecutionIsTaken
CHECK_DEADLOCK FALSE
