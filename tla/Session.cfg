SPECIFICATION FairSpec
CONSTANTS
  NONE = NONE
  Roles = {"default", "worker"}
  Direct = {"default"}
  MaxAgents = 4
  MaxSpawns = 4
  MaxRuns = 1
INVARIANTS
  TypeOK
  NothingIsLost
  StartedAsAsked
PROPERTIES
  RequestsAreServed
