SPECIFICATION Spec
CONSTANTS
  Writes = {w1, w2}
  Dialects = {"postgres", "mysql", "sqlite"}
  TopFaults = {"refused", "beforeStart", "startQuery", "afterStart", "beforeCommit", "commitQuery"}
  NestedFaults = {"afterStart", "beforeCommit", "commitQuery"}
  CatchesErrorsIn = {"mysql", "sqlite"}
  MaxDepth = 3
  MaxFailedStarts = 2
  MaxSaves = 4
CONSTANTS
  w1 = w1
  w2 = w2
INVARIANTS TypeOK IInv SessionLeftClean ActiveMeansInProgress DepthCountsTheCalls TracksRunningCalls
PROPERTIES PromiseKept
CHECK_DEADLOCK FALSE
