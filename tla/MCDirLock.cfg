CONSTANTS
  Proc = {p1, p2, p3}
  NoProc = NoProc
  MaxFaults = 1
SPECIFICATION FairSpec
INVARIANTS
  MutualExclusion
  HeldLockIsIntact
PROPERTIES
  ImplementsMutex
  NoCallHangs
  AbandonedLockIsRecovered
