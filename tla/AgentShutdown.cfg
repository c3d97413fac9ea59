SPECIFICATION Spec
CONSTANTS
  NONE = NONE
  MaxIterations = 2
  SeedTurn = TRUE
  Policies = {"untrusted"}
  InitialPolicy = "untrusted"
  SandboxOff = FALSE
  PlatformSandbox = TRUE
  Requests <- AllRequests
  MaxTurns = 1
  MaxRuns = 1


PROPERTIES ShutdownIsNotForgotten
