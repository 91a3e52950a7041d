CONSTANTS
  p1 = p1
  p2 = p2
  s1 = s1
  Root = Root
  Caller <- MCCallers
  Session <- MCSessions
  Mode <- MCModes
  MaxCalls = 4
  MaxCrashes = 2
SYMMETRY MCSymmetry
SPECIFICATION Spec
INVARIANTS
  CompatibleModes
  QuietListsAgree
PROPERTIES
  ClearingWorks
CHECK_DEADLOCK FALSE
