CONSTANTS
  Actor = {m1, a1}
  Monitor = {m1}
  Worker = {w1}
  Task = {t1}
  None = None
  InitTasks <- MCInitTasks
  DepSets = {}
  NeedsEvidence = {}
  MaxToken = 1
  MaxUpdates = 0
  MaxCrashes = 0
SPECIFICATION MonitorSpec
INVARIANT CompletionAnnouncedOnce
CHECK_DEADLOCK FALSE
