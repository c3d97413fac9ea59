SPECIFICATION FairSpec
CONSTANTS
  NONE = NONE
  MaxIterations = 2
  SeedTurn = TRUE
  Policies = {"untrusted", "on-request", "never"}
  InitialPolicy = "untrusted"
  SandboxOff = FALSE
  PlatformSandbox = TRUE
  Requests <- AllRequests
  MaxTurns = 1
  MaxRuns = 0
INVARIANTS
  NoStalePending
  AskedCallsRunOnlyIfGranted
  UnfinishedToolsExplained
PROPERTIES
  InterruptEndsTurn
