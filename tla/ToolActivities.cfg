SPECIFICATION Spec
CONSTANTS
  NONE = NONE
  Agents = {a1, a2}
  Inheriting = {a1}
  Servers = {"s1", "s2"}
  Required = {"s2"}
  Requests <- EveryWay
  Policies = {"on-request"}
  ConfigPolicy = "untrusted"
  RulesPrompt = {}
  RulesForbid = {"safe"}
  SandboxOff = FALSE
  PlatformSandbox = TRUE
  MaxCalls = 2
  MaxFaults = 1
INVARIANTS
  TypeOK
  OnlyClearedRuns
  EffectsMatchAttempts
  ElicitationsArriveDuringTheirCall
  ForeignElicitationsAreLate
  DiscoveredToolsAreServed
 
CHECK_DEADLOCK FALSE
