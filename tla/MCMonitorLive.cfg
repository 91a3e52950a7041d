CONSTANTS
  Actor = {m1, a1}
  Monitor = {m1}
  Worker = {w1}
  Task = {t1}
  None = None
  InitTasks <- MCInitTasks
  DepSets = {}
  NeedsEvidence = {}
  MaxToken = 1
  MaxUpdates = 0
  MaxCrashes = 2
SPECIFICATION FairMonitorSpec
INVARIANTS
  MonitorTypeOK
  EventsAreTrue
  SnapshotIsNotAhead
PROPERTIES
  NoTaskIsStuck
  LostCompletionIsAnnounced
CHECK_DEADLOCK FALSE
