SPECIFICATION Spec
CONSTANTS
  NONE = NONE
  Sessions = {s1, s2}
  First = s1
  Resumes = {FALSE}
  MaxTurns = 2
  MaxSwitches = 0
  Ending = {}
  MaxCloses = 1
  MaxLost = 1
INVARIANT StartedMeansStarted
CHECK_DEADLOCK FALSE
