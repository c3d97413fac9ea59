SPECIFICATION Spec
CONSTANTS
  NONE = NONE
  Sessions = {s1, s2}
  First = s1
  Resumes = {TRUE}
  MaxTurns = 1
  MaxSwitches = 1
  Ending = {}
  MaxCloses = 1
  MaxLost = 1
INVARIANT InFlightIsDiscarded
CHECK_DEADLOCK FALSE
