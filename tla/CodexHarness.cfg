SPECIFICATION Spec
CONSTANTS
  NONE = NONE
  CrewFiles <- MonitorFile
  Keys = 2
  Launchers = {l1, l2}
  Modes = {"tui", "resume", "client", "crew", "list"}
  Config <- FromToml
  Invocations <- SomeInvocations
  MaxSignals = 3
  MaxRuns = 1
  MaxReplacements = 1
INVARIANTS
  TypeOK
  RegistryIsHistory
  ListedAsStarted
  TokenFollowsCheck
  CrewIsApplied
SYMMETRY Symmetry
CHECK_DEADLOCK FALSE
