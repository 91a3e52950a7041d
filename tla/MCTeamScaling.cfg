CONSTANTS
  Actor = {a1, a2}
  None = None
  DefaultMax = 3
  InitWorkers = 1
  MaxAdd = 2
  MaxAsk = 1
  MaxCalls = 4
  MaxCrashes = 1
SYMMETRY Symmetry
SPECIFICATION Spec
INVARIANTS
  TypeOK
  RosterIsSound
  NamesAreUnique
  EveryWorkerIsListed
PROPERTY TasksStay
CHECK_DEADLOCK FALSE
