-------------------------- MODULE ScheduledReports --------------------------
(***************************************************************************)
(* Report schedules: the hourly beat and the "run now" of an administrator *)
(* each make a task that computes the window a schedule is in, claims it   *)
(* with a conditional UPDATE, builds the report under the row lock of that *)
(* UPDATE and commits both.  Meanwhile administrators edit, switch and     *)
(* delete schedules, messages are delivered twice and workers die.         *)
(*                                                                         *)
(* Time is counted in hours.  A worker's session keeps the rows it loaded  *)
(* until a commit or a rollback expires them.                              *)
(***************************************************************************)
EXTENDS Integers, Sequences, FiniteSets

CONSTANTS
  Schedule, Worker,
  Beat, Nobody,
  None, Gone,    \* a schedule not created yet; a deleted one
  Expired,       \* what a session holds of a row after its commit or rollback
  DayLength, WeekLength,
  DayOfMonth,    \* calendar: DayOfMonth[d], for days 0, 1, ...
  FirstTime, LastTime,  \* the hours of the model
  Plan,          \* set of [cadence, hour, day] an administrator may choose
  MaxEvents, MaxQueue  \* bounds of the model: manual runs, edits and faults; messages

Day == DOMAIN DayOfMonth
Time == FirstTime..LastTime
DayAt(t) == t \div DayLength
HourAt(t) == t % DayLength

ASSUME ActorAssumption ==
  /\ Nobody \notin Worker \cup Schedule
  /\ Beat \notin Schedule
  /\ {None, Gone, Expired} \cap [plan : Plan, enabled : BOOLEAN] = {}
  /\ None # Gone /\ None # Expired /\ Gone # Expired /\ None \notin Int

ASSUME CalendarAssumption ==
  /\ {DayLength, WeekLength} \subseteq Nat \ {0}
  /\ {FirstTime, LastTime} \subseteq Nat /\ FirstTime <= LastTime
  /\ IsFiniteSet(Day) /\ Day = 0..(Cardinality(Day) - 1)
  /\ DayOfMonth \in [Day -> Nat \ {0}]
  /\ \A t \in Time : DayAt(t) \in Day /\ DayAt(t) >= DayOfMonth[DayAt(t)]
  /\ DayOfMonth[0] = 1
  /\ \A d \in Day \ {0} : DayOfMonth[d] \in {1, DayOfMonth[d - 1] + 1}
  /\ Plan \subseteq [cadence : {"daily", "weekly", "monthly"}, hour : 0..(DayLength - 1), day : Nat]
  /\ \A plan \in Plan : /\ plan.cadence = "weekly" => plan.day < WeekLength
                        /\ plan.cadence = "monthly" => plan.day >= 1

ASSUME BoundAssumption == {MaxEvents, MaxQueue} \subseteq Nat

VARIABLES
  now,
  row,           \* the plan and the switch of each schedule
  lastRun,       \* last_run_at; -1 for NULL
  made,          \* per schedule, the window and the hour of its reports, in order
  queue,         \* messages: Beat, or the schedule of a manual run
  lock,          \* who holds the row lock of a schedule
  pc, task, asked,  \* what a worker does, for which message, and its `now`
  todo,          \* schedules the batch has still to look at
  loaded,        \* the rows its session holds
  current, from, \* the schedule in hand and the cutoff of its window
  runs, writes, faults

job == <<pc, task, asked, todo, loaded, current, from>>
bounds == <<runs, writes, faults>>
vars == <<now, row, lastRun, made, queue, lock, job, bounds>>

Row == [plan : Plan, enabled : BOOLEAN]
Task == Schedule \cup {Beat}
Window == [from : Int, at : Int]
Bounded == runs + writes + faults < MaxEvents
AllExpired == [s \in Schedule |-> Expired]

-----------------------------------------------------------------------------
(* The calendar.                                                           *)

\* _is_due
Occurs(plan, d) ==
  \/ plan.cadence = "daily"
  \/ plan.cadence = "weekly" /\ d % WeekLength = plan.day
  \/ plan.cadence = "monthly" /\ DayOfMonth[d] = plan.day
IsDue(plan, t) == HourAt(t) = plan.hour /\ Occurs(plan, DayAt(t))

\* _cutoff, in days: the last day of the previous month is d minus its day of month.
LastOfPrevious(d) == d - DayOfMonth[d]
\* Mutated form of CutoffDay: a month without the day is not skipped.
CutoffDayNoSkip(plan, d) ==
  CASE plan.cadence = "daily" -> d
    [] plan.cadence = "weekly" -> d - ((d - plan.day) % WeekLength)
    [] plan.cadence = "monthly" ->
         IF DayOfMonth[d] >= plan.day THEN LastOfPrevious(d) + plan.day
         ELSE LastOfPrevious(LastOfPrevious(d)) + plan.day

CutoffDay(plan, d) ==
  CASE plan.cadence = "daily" -> d
    [] plan.cadence = "weekly" -> d - ((d - plan.day) % WeekLength)
    [] plan.cadence = "monthly" ->
         IF DayOfMonth[d] >= plan.day THEN LastOfPrevious(d) + plan.day
         ELSE LET e == LastOfPrevious(d)
              IN IF plan.day > DayOfMonth[e] THEN None ELSE LastOfPrevious(e) + plan.day
HasWindow(plan, t) == CutoffDay(plan, DayAt(t)) # None
Cutoff(plan, t) == CutoffDay(plan, DayAt(t)) * DayLength

-----------------------------------------------------------------------------
TypeOK ==
  /\ now \in Time
  /\ row \in [Schedule -> Row \cup {None, Gone}]
  /\ lastRun \in [Schedule -> Time \cup {-1}]
  /\ made \in [Schedule -> Seq(Window)]
  /\ queue \in [Task -> 0..MaxQueue]
  /\ lock \in [Schedule -> Worker \cup {Nobody}]
  /\ pc \in [Worker -> {"idle", "next", "claim", "generate", "mail"}]
  /\ task \in [Worker -> Task \cup {Nobody}]
  /\ asked \in [Worker -> Time]
  /\ todo \in [Worker -> SUBSET Schedule]
  /\ loaded \in [Worker -> [Schedule -> Row \cup {None, Gone, Expired}]]
  /\ current \in [Worker -> Schedule \cup {Nobody}]
  /\ from \in [Worker -> Int]
  /\ {runs, writes, faults} \subseteq Nat /\ runs + writes + faults <= MaxEvents
  /\ \A w \in Worker, s \in Schedule :
       lock[s] = w <=> pc[w] = "generate" /\ current[w] = s

Init ==
  /\ now = FirstTime
  /\ row \in [Schedule -> {None} \cup [plan : Plan, enabled : {TRUE}]]
  /\ lastRun = [s \in Schedule |-> -1]
  /\ made = [s \in Schedule |-> << >>]
  /\ queue = [k \in Task |-> 0]
  /\ lock = [s \in Schedule |-> Nobody]
  /\ pc = [w \in Worker |-> "idle"]
  /\ task = [w \in Worker |-> Nobody]
  /\ asked = [w \in Worker |-> FirstTime]
  /\ todo = [w \in Worker |-> {}]
  /\ loaded = [w \in Worker |-> AllExpired]
  /\ current = [w \in Worker |-> Nobody]
  /\ from = [w \in Worker |-> 0]
  /\ runs = 0 /\ writes = 0 /\ faults = 0

-----------------------------------------------------------------------------
(* The beat and the routes.  A write waits for the row lock.               *)

Publish(k) == queue[k] < MaxQueue /\ queue' = [queue EXCEPT ![k] = @ + 1]

Tick ==
  /\ now < LastTime
  /\ now' = now + 1
  /\ Publish(Beat)
  /\ UNCHANGED <<row, lastRun, made, lock, job, bounds>>

\* POST /run
RunNow(s) ==
  /\ row[s] \in Row /\ Bounded
  /\ Publish(s)
  /\ runs' = runs + 1
  /\ UNCHANGED <<now, row, lastRun, made, lock, job, writes, faults>>

Write(s, r) ==
  /\ Bounded /\ lock[s] = Nobody
  /\ row' = [row EXCEPT ![s] = r]
  /\ writes' = writes + 1
  /\ UNCHANGED <<now, lastRun, made, queue, lock, job, runs, faults>>

Create(s, plan) == row[s] = None /\ Write(s, [plan |-> plan, enabled |-> TRUE])
Patch(s, plan)  == row[s] \in Row /\ plan # row[s].plan /\ Write(s, [row[s] EXCEPT !.plan = plan])
Toggle(s)       == row[s] \in Row /\ Write(s, [row[s] EXCEPT !.enabled = ~@])
Delete(s)       == row[s] \in Row /\ Write(s, Gone)

-----------------------------------------------------------------------------
(* The worker.                                                             *)

\* The task ends: rollback of what is open, and the session is closed.
End(w) ==
  /\ pc' = [pc EXCEPT ![w] = "idle"]
  /\ task' = [task EXCEPT ![w] = Nobody]
  /\ asked' = [asked EXCEPT ![w] = FirstTime]
  /\ todo' = [todo EXCEPT ![w] = {}]
  /\ loaded' = [loaded EXCEPT ![w] = AllExpired]
  /\ current' = [current EXCEPT ![w] = Nobody]
  /\ from' = [from EXCEPT ![w] = 0]

\* Done with the schedule in hand: the next one, and after a manual run none.
Forward(w, rows) ==
  IF task[w] = Beat
  THEN /\ pc' = [pc EXCEPT ![w] = "next"]
       /\ todo' = [todo EXCEPT ![w] = @ \ {current[w]}]
       /\ current' = [current EXCEPT ![w] = Nobody]
       /\ from' = [from EXCEPT ![w] = 0]
       /\ loaded' = [loaded EXCEPT ![w] = rows]
       /\ UNCHANGED <<task, asked>>
  ELSE End(w)
Unlock(w) == lock' = [s \in Schedule |-> IF lock[s] = w THEN Nobody ELSE lock[s]]

\* A batch loads every enabled schedule.
TakeBeat(w) ==
  /\ pc[w] = "idle" /\ queue[Beat] > 0
  /\ queue' = [queue EXCEPT ![Beat] = @ - 1]
  /\ pc' = [pc EXCEPT ![w] = "next"]
  /\ task' = [task EXCEPT ![w] = Beat]
  /\ asked' = [asked EXCEPT ![w] = now]
  /\ todo' = [todo EXCEPT ![w] = {s \in Schedule : row[s] \in Row /\ row[s].enabled}]
  /\ loaded' = [loaded EXCEPT ![w] = row]
  /\ UNCHANGED <<now, row, lastRun, made, lock, current, from, bounds>>

\* A manual run loads its schedule; nothing to do if it is gone or has no window.
TakeOnce(w, s) ==
  /\ pc[w] = "idle" /\ queue[s] > 0
  /\ queue' = [queue EXCEPT ![s] = @ - 1]
  /\ IF row[s] \in Row /\ HasWindow(row[s].plan, now)
     THEN /\ pc' = [pc EXCEPT ![w] = "claim"]
          /\ task' = [task EXCEPT ![w] = s]
          /\ asked' = [asked EXCEPT ![w] = now]
          /\ loaded' = [loaded EXCEPT ![w][s] = row[s]]
          /\ current' = [current EXCEPT ![w] = s]
          /\ from' = [from EXCEPT ![w] = Cutoff(row[s].plan, now)]
          /\ UNCHANGED todo
     ELSE UNCHANGED job
  /\ UNCHANGED <<now, row, lastRun, made, lock, bounds>>

\* The row as the session sees it: loaded before, or again after it expired.
Seen(w, s) == IF loaded[w][s] = Expired THEN row[s] ELSE loaded[w][s]

\* Mutated form of Consider: due at the time it gets there, not when the batch began.
ConsiderLate(w, s) ==
  /\ pc[w] = "next" /\ s \in todo[w] /\ Seen(w, s) \in Row
  /\ LET plan == Seen(w, s).plan IN
       IF IsDue(plan, now) /\ HasWindow(plan, asked[w])
       THEN /\ pc' = [pc EXCEPT ![w] = "claim"]
            /\ current' = [current EXCEPT ![w] = s]
            /\ from' = [from EXCEPT ![w] = Cutoff(plan, asked[w])]
            /\ loaded' = [loaded EXCEPT ![w][s] = Seen(w, s)]
            /\ UNCHANGED <<task, asked, todo>>
       ELSE /\ todo' = [todo EXCEPT ![w] = @ \ {s}]
            /\ UNCHANGED <<pc, task, asked, loaded, current, from>>
  /\ UNCHANGED <<now, row, lastRun, made, queue, lock, bounds>>

Consider(w, s) ==
  /\ pc[w] = "next" /\ s \in todo[w] /\ Seen(w, s) \in Row
  /\ LET plan == Seen(w, s).plan IN
       IF IsDue(plan, asked[w]) /\ HasWindow(plan, asked[w])
       THEN /\ pc' = [pc EXCEPT ![w] = "claim"]
            /\ current' = [current EXCEPT ![w] = s]
            /\ from' = [from EXCEPT ![w] = Cutoff(plan, asked[w])]
            /\ loaded' = [loaded EXCEPT ![w][s] = Seen(w, s)]
            /\ UNCHANGED <<task, asked, todo>>
       ELSE /\ todo' = [todo EXCEPT ![w] = @ \ {s}]
            /\ UNCHANGED <<pc, task, asked, loaded, current, from>>
  /\ UNCHANGED <<now, row, lastRun, made, queue, lock, bounds>>

\* The row expired and was deleted: reading it raises, and so does the handler of
\* the exception, which logs schedule.id.  The batch is over.
ConsiderGone(w, s) ==
  /\ pc[w] = "next" /\ s \in todo[w] /\ Seen(w, s) = Gone
  /\ End(w)
  /\ UNCHANGED <<now, row, lastRun, made, queue, lock, bounds>>

\* Mutated form of Claimable: the switch is only looked at when the batch loads.
ClaimableSwitchedOff(s, cutoff) == row[s] \in Row /\ lastRun[s] < cutoff

\* _claim_schedule
Claimable(s, cutoff) == row[s] \in Row /\ row[s].enabled /\ lastRun[s] < cutoff

\* Mutated form of Claim: a SELECT, with the write left to the commit.
ClaimBySelect(w) ==
  /\ pc[w] = "claim" /\ Claimable(current[w], from[w])
  /\ pc' = [pc EXCEPT ![w] = "generate"]
  /\ UNCHANGED <<now, row, lastRun, made, queue, lock, task, asked, todo, loaded, current,
                 from, bounds>>

Claim(w) ==
  /\ pc[w] = "claim"
  /\ Claimable(current[w], from[w]) /\ lock[current[w]] = Nobody
  /\ lock' = [lock EXCEPT ![current[w]] = w]
  /\ pc' = [pc EXCEPT ![w] = "generate"]
  /\ UNCHANGED <<now, row, lastRun, made, queue, task, asked, todo, loaded, current,
                 from, bounds>>

\* Mutated form of ClaimNothing: it waits for the window to be free again.
ClaimNothingWaits(w) ==
  pc[w] = "claim" /\ ~Claimable(current[w], from[w]) /\ UNCHANGED vars

ClaimNothing(w) ==
  /\ pc[w] = "claim" /\ ~Claimable(current[w], from[w])
  /\ Forward(w, loaded[w])
  /\ UNCHANGED <<now, row, lastRun, made, queue, lock, bounds>>

\* The report is built and committed together with the claim; every row of the
\* session expires.
Commit(w) ==
  /\ pc[w] = "generate"
  /\ LET s == current[w] IN
       /\ lastRun' = [lastRun EXCEPT ![s] = asked[w]]
       /\ made' = [made EXCEPT ![s] = Append(@, [from |-> from[w], at |-> asked[w]])]
  /\ Unlock(w)
  /\ loaded' = [loaded EXCEPT ![w] = AllExpired]
  /\ pc' = [pc EXCEPT ![w] = "mail"]
  /\ UNCHANGED <<now, row, queue, task, asked, todo, current, from, bounds>>

\* Mutated form of Fail: no rollback before the next schedule.
FailKeepsClaim(w) ==
  /\ pc[w] = "generate" /\ Bounded
  /\ faults' = faults + 1
  /\ Forward(w, loaded[w])
  /\ UNCHANGED <<now, row, lastRun, made, queue, lock, runs, writes>>

\* Building the report fails: rollback, and on to the next schedule.
Fail(w) ==
  /\ pc[w] = "generate" /\ Bounded
  /\ faults' = faults + 1
  /\ Unlock(w)
  /\ Forward(w, AllExpired)
  /\ UNCHANGED <<now, row, lastRun, made, queue, runs, writes>>

\* The recipients are read again from the row, which may be gone by now.
Mail(w) ==
  /\ pc[w] = "mail"
  /\ IF row[current[w]] = Gone THEN End(w) ELSE Forward(w, loaded[w])
  /\ UNCHANGED <<now, row, lastRun, made, queue, lock, bounds>>

Finish(w) ==
  /\ pc[w] = "next" /\ todo[w] = {}
  /\ End(w)
  /\ UNCHANGED <<now, row, lastRun, made, queue, lock, bounds>>

\* The process is lost: the message comes back, or, at the time limit, does not.
WorkerLost(w) ==
  /\ pc[w] # "idle" /\ Bounded
  /\ faults' = faults + 1
  /\ Publish(task[w]) \/ UNCHANGED queue
  /\ Unlock(w)
  /\ End(w)
  /\ UNCHANGED <<now, row, lastRun, made, runs, writes>>

\* The broker delivers the message of a running task again.
Redeliver(w) ==
  /\ pc[w] # "idle" /\ Bounded
  /\ faults' = faults + 1
  /\ Publish(task[w])
  /\ UNCHANGED <<now, row, lastRun, made, lock, job, runs, writes>>

-----------------------------------------------------------------------------
Work(w) ==
  \/ TakeBeat(w)
  \/ \E s \in Schedule : TakeOnce(w, s) \/ Consider(w, s) \/ ConsiderGone(w, s)
  \/ Claim(w) \/ ClaimNothing(w) \/ Commit(w) \/ Mail(w) \/ Finish(w)

Next ==
  \/ Tick
  \/ \E s \in Schedule : RunNow(s) \/ Toggle(s) \/ Delete(s)
  \/ \E s \in Schedule, plan \in Plan : Create(s, plan) \/ Patch(s, plan)
  \/ \E w \in Worker : Work(w) \/ Fail(w) \/ WorkerLost(w) \/ Redeliver(w)

\* Workers take messages and go on with what they do.
Spec == Init /\ [][Next]_vars /\ \A w \in Worker : WF_vars(Work(w))

-----------------------------------------------------------------------------
\* At most one report per window, whatever overlaps, repeats or dies: the reports of
\* a schedule open ever later windows (scheduled_reports.py: "two overlapping beats
\* (or a manual run) can never both win the same window").
Periods == INSTANCE ReportPeriods
  WITH last <- lastRun, made <- made, Schedule <- Schedule, Time <- 0..LastTime
OneReportPerWindow == Periods!Spec

\* The cutoff is the start of the latest day the plan names, for the plan the session
\* saw: no nearer one is passed over, and a month without the day gives no window.
WindowIsLatest ==
  \A w \in Worker : pc[w] = "claim" =>
    LET plan == loaded[w][current[w]].plan
        d == from[w] \div DayLength
    IN /\ Occurs(plan, d) /\ HourAt(from[w]) = 0 /\ d <= DayAt(asked[w])
       /\ \A e \in (d + 1)..DayAt(asked[w]) : ~Occurs(plan, e)

\* A report is only made for a schedule that exists and is switched on at the moment
\* of the commit, however long the narrative took since the claim.
OnlyForEnabled ==
  [][\A s \in Schedule : made'[s] # made[s] => row[s] \in Row /\ row[s].enabled]_vars

\* A batch serves all it should: when it finishes, and nothing failed and nobody
\* edited a schedule, every schedule due at its hour has the report of that window.
BatchServesAll ==
  [][\A w \in Worker : Finish(w) /\ faults = 0 /\ writes = 0 =>
       \A s \in Schedule : row[s] \in Row /\ IsDue(row[s].plan, asked[w])
         => lastRun[s] >= Cutoff(row[s].plan, asked[w])]_vars

\* Nobody waits for ever on a row lock: in the end all messages are worked off.
ComesToRest == <>[](\A w \in Worker : pc[w] = "idle" /\ \A k \in Task : queue[k] = 0)

=============================================================================
