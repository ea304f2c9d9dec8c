CONSTANTS
  c1 = c1
  c2 = c2
  w1 = w1
  w2 = w2
  Ticket = {c1, c2}
  Worker = {w1, w2}
  Reviewer = {}
  Setup <- Conversations
  Empty = {c1}
  Hooked = {}
  Offtopic = {}
  Beat = Beat
  Nothing = Nothing
  LastTime = 3
  MaxEvents = 0
  MaxQueue = 1
SPECIFICATION Spec
CHECK_DEADLOCK FALSE
PROPERTIES RefetchLosesNothing
