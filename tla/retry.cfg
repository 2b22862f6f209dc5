SPECIFICATION Spec
CONSTANTS
  Latest = 3
  Togethers = {TRUE, FALSE}
  ReplayConflicts = "last"
  maxTransactionRetries = 2
  MaxConflicts = 4
  MaxConflictsTogether = 1
  MaxQueries = 7
INVARIANTS
  Atomic
  OncePerAttempt
PROPERTIES
  Settles
CHECK_DEADLOCK FALSE
