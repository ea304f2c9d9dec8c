CONSTANTS
  c1 = c1
  c2 = c2
  w1 = w1
  w2 = w2
  Ticket = {c1, c2}
  Worker = {w1, w2}
  Reviewer = {r1}
  Setup <- Either
  Empty = {}
  Hooked = {c1}
  Offtopic = {c1}
  Beat = Beat
  Nothing = Nothing
  LastTime = 3
  MaxEvents = 1
  MaxQueue = 1
SPECIFICATION Spec
CHECK_DEADLOCK FALSE
INVARIANTS TypeOK OnceUnlessOverlap CursorLosesNothing
PROPERTIES EveryTicketSeen
