CONSTANTS
  Proc = {p1, p2}
  NoProc = NoProc
  MaxFaults = 1
SPECIFICATION Spec
INVARIANT ExclusionWithoutOverrun
