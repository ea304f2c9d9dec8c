CONSTANTS
  r1 = r1
  r2 = r2
  Rule = {r1, r2}
  Customer = {c}
  Worker = {w1, w2}
  Names <- Cycle
  Nothing = Nothing
  None = None
  Gone = Gone
  Expired = Expired
  Initial <- Start
  Cooldown = 1
  Modulus = 2
  MaxTicks = 1
  MaxEvents = 2
  MaxQueue = 4
SPECIFICATION Spec
CHECK_DEADLOCK FALSE
INVARIANTS HeldBack CountIsLog
PROPERTIES NoEarlyFire CascadeEnds
