SPECIFICATION Spec
CONSTANTS
  Clients = {c1, c2, c3, c4}
  c1 = c1
  c2 = c2
  c3 = c3
  c4 = c4
  Workloads <- MCWorkloads
INVARIANTS
  LockInv
  MutualExclusion
  ResolvedIsDurable
  SequentialSaveIsAtomic
PROPERTIES
  FirstComeFirstServed
  SilentOnceReleased
  SaveSettles
  EveryQueryAnswers
