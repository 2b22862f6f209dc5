SPECIFICATION Spec
CONSTANTS
  Runners <- MCRunners
  Readers = {r1}
  Writers = {"w1"}
  Removers = {"x1"}
  CacheTypes = {"database", "redis"}
  Failing = {"get", "read", "store", "remove"}
  Clients = {k1, k2}
  Duration = 0
  MaxClock = 1
  MaxVersions = 2
  MaxCalls = 3
  MaxFailures = 1
INVARIANTS
  OnlyRemoveKeepsClients
  NothingUncommitted
  ServedInTime
PROPERTIES
  EverythingEnds
CHECK_DEADLOCK FALSE
