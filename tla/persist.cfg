SPECIFICATION MCSpec
CONSTANTS
  Values <- MCValues
  MaxCalls = 2
INVARIANTS
  SavedIsStored
  SecondSaveIsSilent
  NothingRefused
  OthersAreKept
  RemovedIsGone
CHECK_DEADLOCK FALSE
