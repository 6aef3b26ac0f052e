SPECIFICATION Spec
CONSTANTS
  Requests = {r1, r2}
  Nothing = Nothing
  Assets <- MCAssets
  Configs <- MCConfigs
  AssetEdits <- MCAssetEdits
  ConfigEdits <- MCConfigEdits
  Targets <- MCOneTarget
  Resolution <- Outcomes
  Resolves <- ResolvesTo
  SnapshotReady <- RowsReady
  LayoutOf <- MCLayoutOf
  VarsOf <- MCVarsOf
  RulesOf <- MCRulesOf
  TargetOf <- MCTargetOf
  MaxEdits = 0
  MaxTokens = 1
  MaxRetries = 0
  MaxRequests = 3
  MaxTargets = 1
SYMMETRY AllRequestOrders
INVARIANTS OneExecutionPerToken
CHECK_DEADLOCK FALSE
