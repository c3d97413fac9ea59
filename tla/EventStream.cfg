SPECIFICATION FairSpec
CONSTANTS
  NONE = NONE
  Watchers = {w1, w2}
  Capacity = 2
  MaxEvents = 4
  MaxRuns = 1
INVARIANTS
  TypeOK
  SinkIsWindow
  OnlyEvictedAreMissed
PROPERTIES
  ImplementsEventLog
  EventsAreDelivered
