SPECIFICATION Spec
CONSTANTS
  Entities <- MCEntities
  Versions <- MCVersions
  Scenarios <- MCScenarios
  MaxBuilds = 2
INVARIANTS
  Converges
  DownUndoesUp
  SecondSyncIsSilent
  DataIsKept
  CacheIsTrue
CHECK_DEADLOCK FALSE
