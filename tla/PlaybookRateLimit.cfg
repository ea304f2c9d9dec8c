CONSTANTS
  Exec = {e1, e2, e3}
  Target = {t1}
  Worker = {w1, w2}
  NoExec = NoExec
  Steps = 1
  TimeLimit = 0
  QueuedStale = 0
  QueuedExpiry = 0
  RunningStale = 1
  RateWindow = 1
  Retention = 1
  ReapBatch = 1
  MaxInFlight = 1
SPECIFICATION Spec
CHECK_DEADLOCK FALSE
INVARIANTS BurstIsBounded
SYMMETRY Symmetry
