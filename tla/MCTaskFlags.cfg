CONSTANTS
  t1 = t1
  t2 = t2
  Actor = {a1, a2}
  Worker = {w1}
  Task = {t1, t2}
  None = None
  InitTasks <- MCInitTasks
  DepSets <- MCDepSets
  NeedsEvidence = {}
  MaxToken = 1
  MaxUpdates = 0
  MaxCrashes = 0
SPECIFICATION Spec
INVARIANT FlaggedTasksWereAnnounced
CHECK_DEADLOCK FALSE
