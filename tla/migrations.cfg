SPECIFICATION Spec
CONSTANTS
  Executors = {e1, e2}
  e1 = e1
  e2 = e2
  Latest = 3
  Options <- MCOptions
  MaxRecords = 6
  MaxRunners = 2
INVARIANTS
  RecordsTellTheTruth
  RecordedInOrder
PROPERTIES
  AllOrNothing
