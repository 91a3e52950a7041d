CONSTANTS
  r1 = r1
  m1 = m1
  o1 = o1
  o2 = o2
  Requests <- MCRequests
  Messages <- MCMessages
  Owners <- MCOwners
  NoOwner = NoOwner
  NoCommand = NoCommand
  Proc = {p1, p2}
  Commands <- MCCommands
  InitLogs <- MCInitLogs
  MaxExecs = 3
  MaxCrashes = 1
SPECIFICATION FairSpec
INVARIANTS
  LogIsReadable
  LogReplaysCleanly
  AcksAreDurable
  OneAuthority
  QuietViewIsCurrent
PROPERTIES
  ImplementsCommandLog
  ExecsFinish
CHECK_DEADLOCK FALSE
