------------------------- MODULE MCScheduledReports -------------------------
EXTENDS ScheduledReports, TLC

\* Days of two hours; months of three, two and three days.
SmallCalendar == [d \in 0..8 |-> <<1, 2, 3, 1, 2, 1, 2, 3, 1>>[d + 1]]

Daily(h)      == [cadence |-> "daily", hour |-> h, day |-> 0]
Weekly(h, d)  == [cadence |-> "weekly", hour |-> h, day |-> d]
Monthly(h, d) == [cadence |-> "monthly", hour |-> h, day |-> d]

\* From the last hour of day 4 to that of day 5: the week turns on day 5, and the
\* third of the month, day 2 last time, does not exist in the month that just ended.
WeekAndMonthEnd == {Weekly(0, 2), Monthly(1, 3)}
==============================================================================
