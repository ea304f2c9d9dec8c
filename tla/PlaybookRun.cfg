CONSTANTS
  Length = 3
SPECIFICATION RunSpec
CHECK_DEADLOCK FALSE
INVARIANTS MidwayOnlyByRules LossShows FailedLeavesNothing
