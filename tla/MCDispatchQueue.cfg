CONSTANTS
  r1 = r1
  r2 = r2
  Requests <- MCRequests
  Messages = {}
  Owners = {}
  NoOwner = NoOwner
  h1 = h1
  h2 = h2
  Hook <- MCHooks
  Nobody = Nobody
  Teams <- MCTeams
  MaxAttempts = 2
SPECIFICATION FairSpec
INVARIANTS
  ReceiptsAreTrue
  HooksWorkAlone
  AttemptsAreBounded
  OnePendingPerInstruction
PROPERTIES
  ViewMovesForward
  RequestsSettle
CHECK_DEADLOCK FALSE
