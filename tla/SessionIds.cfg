SPECIFICATION Spec
CONSTANTS
  NONE = NONE
  Roles = {"default", "worker"}
  Direct = {"default"}
  MaxAgents = 3
  MaxSpawns = 3
  MaxRuns = 1
INVARIANTS
  AgentIdsAreUnique
