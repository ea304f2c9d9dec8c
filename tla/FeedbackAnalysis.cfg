CONSTANTS
  i1 = i1
  i2 = i2
  Item = {i1, i2}
  Arrivals <- Mixed
  Worker = {w1, w2}
  Requester = {r1, r2}
  Email = {i1}
  Edited = {i2}
  Nothing = Nothing
  Gone = Gone
  SweepLimit = 1
  MaxText = 3
  MaxEvents = 2
  MaxQueue = 1
SPECIFICATION Spec
CHECK_DEADLOCK FALSE
INVARIANTS TypeOK LabelIsCurrent AnnouncedOnce
PROPERTIES AnalysedInTheEnd
