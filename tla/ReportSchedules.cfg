CONSTANTS
  Schedule = {s1, s2}
  Worker = {w1, w2}
  Beat = Beat
  Nobody = Nobody
  None = None
  Gone = Gone
  Expired = Expired
  DayLength = 2
  WeekLength = 3
  DayOfMonth <- SmallCalendar
  FirstTime = 9
  LastTime = 11
  Plan <- WeekAndMonthEnd
  MaxEvents = 2
  MaxQueue = 1
SPECIFICATION Spec
CHECK_DEADLOCK FALSE
INVARIANTS TypeOK WindowIsLatest
PROPERTIES OneReportPerWindow OnlyForEnabled BatchServesAll ComesToRest
