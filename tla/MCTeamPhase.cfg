CONSTANTS
  Poller = {p1, p2}
  Hook = {h1}
  MaxFixAttempts = 1
  PromptMode = TRUE
  MaxReports = 1
SPECIFICATION FairSpec
INVARIANTS
  PhaseTypeOK
  PollsNeverThrow
PROPERTIES
  PhaseFollowsWork
