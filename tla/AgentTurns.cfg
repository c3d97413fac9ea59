SPECIFICATION Spec
CONSTANTS
  NONE = NONE
  MaxIterations = 1
  SeedTurn = TRUE
  Policies = {"untrusted", "on-request"}
  InitialPolicy = "untrusted"
  SandboxOff = FALSE
  PlatformSandbox = TRUE
  Requests <- TwoRequests
  MaxTurns = 2
  MaxRuns = 2
INVARIANTS
  TypeOK
  TurnsRunOnceInOrder
  TurnsAreBracketed
  RolloutMatchesEvents
PROPERTIES
  ImplementsTurnService
