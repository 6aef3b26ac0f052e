SPECIFICATION Spec
CONSTANTS
  Requests = {r1, r2}
  Nothing = Nothing
  Assets <- MCAssets
  Configs <- MCConfigs
  AssetEdits <- MCAssetEdits
  ConfigEdits <- MCConfigEdits
  Targets <- MCTargets
  Resolution <- Outcomes
  Resolves <- ResolvesTo
  SnapshotReady <- RowsReady
  LayoutOf <- MCLayoutOf
  VarsOf <- MCVarsOf
  RulesOf <- MCRulesOf
  TargetOf <- MCTargetOf
  MaxEdits = 1
  MaxTokens = 1
  MaxRetries = 1
  MaxRequests = 2
  MaxTargets = 1
SYMMETRY AllRequestOrders
PROPERTIES SnapshotIsCurrent EveryNodeAccounted SummaryAddsUp NothingUndefined PageShowsWhatRuns RetryIsPossible
CHECK_DEADLOCK FALSE
