CONSTANTS
  t1 = t1
  t2 = t2
  Actor = {a1, a2}
  Worker = {w1, w2}
  Task = {t1, t2}
  None = None
  InitTasks <- MCInitTasks
  DepSets <- MCDepSets
  NeedsEvidence = {t1}
  MaxToken = 2
  MaxUpdates = 1
  MaxCrashes = 1
SYMMETRY Symmetry
SPECIFICATION Spec
INVARIANTS
  TypeOK
  LiveLeaseStands
  EventsMatchOutcome
PROPERTIES
  StartsWhenReady
  FinishedForGood
  ImplementsBoard
CHECK_DEADLOCK FALSE
