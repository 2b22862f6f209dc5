SPECIFICATION Spec
CONSTANTS
  Latest = 3
  Togethers = {FALSE}
  ReplayConflicts = "any"
  maxTransactionRetries = 2
  MaxConflicts = 4
  MaxConflictsTogether = 1
  MaxQueries = 7
INVARIANT OncePerAttempt
CHECK_DEADLOCK FALSE
