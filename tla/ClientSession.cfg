SPECIFICATION FairSpec
CONSTANTS
  NONE = NONE
  Sessions = {s1, s2}
  First = s1
  Resumes = {FALSE}
  MaxTurns = 2
  MaxSwitches = 1
  Ending = {s1}
  MaxCloses = 1
  MaxLost = 1
INVARIANTS
  TypeOK
  TurnsAreNotRepeated
  TurnsStayWithTheirSession
  ShownInOrder
PROPERTIES
  TurnsArrive
  EventsAreShown
CHECK_DEADLOCK FALSE
