SPECIFICATION MCSpecMoving
CONSTANTS
  Values <- MCValues
  MaxCalls = 2
INVARIANT SavedIsStored
CHECK_DEADLOCK FALSE
