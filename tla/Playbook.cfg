CONSTANTS
  Exec = {e1}
  Target = {t1}
  Worker = {w1, w2}
  NoExec = NoExec
  Steps = 2
  TimeLimit = 1
  QueuedStale = 0
  QueuedExpiry = 2
  RunningStale = 1
  RateWindow = 1
  Retention = 3
  ReapBatch = 1
  MaxInFlight = 3
SPECIFICATION FairSpec
CHECK_DEADLOCK FALSE
INVARIANTS TypeOK ActionsAtMostOnce LiveRunKeepsRow
PROPERTIES TerminalIsFinal KeepsPromise EveryExecutionSettles
