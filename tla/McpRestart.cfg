SPECIFICATION Spec
CONSTANTS
  NONE = NONE
  Agents = {a1}
  Inheriting = {}
  Servers = {"s1"}
  Required = {"s1"}
  Requests <- EveryWay
  Policies = {"on-request"}
  ConfigPolicy = "untrusted"
  RulesPrompt = {}
  RulesForbid = {}
  SandboxOff = FALSE
  PlatformSandbox = TRUE
  MaxCalls = 2
  MaxFaults = 1
INVARIANT DiscoveredToolsSurvive
CHECK_DEADLOCK FALSE
