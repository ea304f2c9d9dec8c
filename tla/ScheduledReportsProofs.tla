----------------------- MODULE ScheduledReportsProofs -----------------------
(* Machine-checked proofs about ScheduledReports, for any schedules, workers, *)
(* plans and calendar that respect its assumptions.                           *)
EXTENDS ScheduledReports, FiniteSetTheorems, WellFoundedInduction, TLAPS

(* The calendar: a window opens before it is asked for.                      *)

LEMMA DayRange ==
  ASSUME NEW t \in Time
  PROVE  /\ t \in Nat /\ DayAt(t) \in Day /\ DayAt(t) \in Nat
         /\ DayAt(t) >= DayOfMonth[DayAt(t)]
         /\ DayAt(t) * DayLength <= t
<1>1. t \in Nat /\ DayLength \in Nat \ {0}
  BY CalendarAssumption DEF Time
<1>2. DayAt(t) \in Day /\ DayAt(t) >= DayOfMonth[DayAt(t)]
  BY CalendarAssumption
<1>3. DayAt(t) \in Nat /\ DayAt(t) * DayLength <= t
  BY <1>1 DEF DayAt
<1> QED BY <1>1, <1>2, <1>3

LEMMA DaysBefore ==
  ASSUME NEW d \in Day, NEW e \in Int, 0 <= e, e <= d
  PROVE  e \in Day /\ DayOfMonth[e] \in Nat \ {0}
<1>1. Cardinality(Day) \in Nat
  BY CalendarAssumption, FS_CardinalityType
<1>2. Day = 0..(Cardinality(Day) - 1) /\ DayOfMonth \in [Day -> Nat \ {0}]
  BY CalendarAssumption
<1> QED BY <1>1, <1>2

\* A non-empty set of numbers has a least one.
LEMMA LeastElement ==
  ASSUME NEW T, T \subseteq Nat, T # {}
  PROVE  \E x \in T : \A y \in T : x <= y
<1>1. PICK x \in T : \A y \in T : <<y, x>> \notin OpToRel(<, Nat)
  BY NatLessThanWellFounded, WFMin
<1>2. \A y \in T : ~(y < x)
  BY <1>1, Zenon DEF OpToRel
<1> QED BY <1>2

\* A day is the first of its month or follows a day of the same month.
LEMMA DayNumbers == ASSUME NEW d \in Day PROVE d \in Nat /\ DayOfMonth[d] \in Nat \ {0}
<1>1. PICK n \in Int : Day = 0..n
  <2>1. Cardinality(Day) \in Nat
    <3>1. IsFiniteSet(Day)
      BY CalendarAssumption
    <3> QED BY <3>1, FS_CardinalityType
  <2>2. Day = 0..(Cardinality(Day) - 1)
    BY CalendarAssumption
  <2> QED BY <2>1, <2>2
<1>2. d \in Nat
  BY <1>1
<1> QED BY <1>2, CalendarAssumption

\* The days of a month before a day are the days before it: the number goes down by one
\* with each, to the first.
LEMMA MonthDays ==
  ASSUME NEW d \in Day, NEW k \in Nat, k < DayOfMonth[d]
  PROVE  d - k \in Day /\ DayOfMonth[d - k] = DayOfMonth[d] - k
<1> DEFINE Wrong == {j \in Nat : j < DayOfMonth[d] /\ ~(d - j \in Day /\ DayOfMonth[d - j] = DayOfMonth[d] - j)}
<1>1. d \in Nat /\ DayOfMonth[d] \in Nat \ {0}
  BY DayNumbers
<1>2. SUFFICES ASSUME Wrong # {} PROVE FALSE
  OBVIOUS
<1>3. PICK j \in Wrong : \A i \in Wrong : j <= i
  <2>1. Wrong \subseteq Nat
    OBVIOUS
  <2> HIDE DEF Wrong
  <2> QED BY <1>2, <2>1, LeastElement
<1>4. j # 0
  BY <1>1, <1>3
<1>5. j - 1 \in Nat /\ j - 1 \notin Wrong
  BY <1>3, <1>4
<1> DEFINE e == d - (j - 1)
<1>6. e \in Day /\ DayOfMonth[e] = DayOfMonth[d] - (j - 1)
  BY <1>1, <1>3, <1>5
<1>7. e \in Nat /\ e # 0 /\ DayOfMonth[e] # 1
  <2>1. DayOfMonth[0] = 1
    BY CalendarAssumption
  <2> QED BY <2>1, <1>6, <1>1, <1>3, DayNumbers
<1>8. DayOfMonth[e] = DayOfMonth[e - 1] + 1
  BY <1>6, <1>7, CalendarAssumption
<1>9. e - 1 \in Day /\ DayOfMonth[e - 1] \in Nat \ {0} /\ e - 1 = d - j
  <2> HIDE DEF e
  <2>1. e - 1 \in Int /\ 0 <= e - 1 /\ e - 1 <= e
    BY <1>7
  <2>2. e - 1 \in Day /\ DayOfMonth[e - 1] \in Nat \ {0}
    BY <2>1, <1>6, DaysBefore
  <2> QED BY <2>2, <1>1, <1>3 DEF e
<1>10. d - j \in Day /\ DayOfMonth[d - j] = DayOfMonth[d] - j
  BY <1>1, <1>3, <1>6, <1>8, <1>9
<1> QED BY <1>3, <1>10

\* Division with remainder is unique.
LEMMA Remainders ==
  ASSUME NEW L \in Nat \ {0}, NEW p \in Int, NEW q \in Int, NEW a \in 0..(L - 1),
         NEW b \in 0..(L - 1), p * L + a = q * L + b
  PROVE  p = q /\ a = b
<1> DEFINE m == p - q
<1>1. m \in Int /\ m * L = b - a
  OBVIOUS
<1>2. -L < m * L /\ m * L < L
  BY <1>1
<1>3. p = q + m
  OBVIOUS
<1> HIDE DEF m
<1>4. m = 0
  <2>1. m <= -1 => m * L <= -L
    BY <1>1
  <2>2. m >= 1 => m * L >= L
    BY <1>1
  <2> QED BY <1>1, <1>2, <2>1, <2>2
<1>5. p = q
  BY <1>3, <1>4
<1> QED BY <1>5

LEMMA DivMod ==
  ASSUME NEW L \in Nat \ {0}, NEW x \in Int
  PROVE  x \div L \in Int /\ x % L \in 0..(L - 1) /\ x = (x \div L) * L + (x % L)
  OBVIOUS

\* Counting back by the remainder ends at the nearest day with that remainder.
LEMMA SameWeekday ==
  ASSUME NEW d \in Int, NEW n \in Nat, n < WeekLength, NEW c \in Int, c = d - ((d - n) % WeekLength)
  PROVE  c % WeekLength = n /\ c <= d /\ \A e \in (c + 1)..d : e % WeekLength # n
<1> DEFINE L == WeekLength
           r == (d - n) % L
           q == (d - n) \div L
<1>1. L \in Nat \ {0} /\ n \in 0..(L - 1)
  BY CalendarAssumption
<1>2. c = d - r
  OBVIOUS
<1>3. q \in Int /\ r \in 0..(L - 1) /\ d - n = q * L + r
  BY <1>1, DivMod
<1> HIDE DEF L, r, q
<1>4. q * L \in Int /\ c = q * L + n /\ c <= d /\ d - c < L
  BY <1>1, <1>2, <1>3
<1>5. c % L = n
  <2>1. c \div L \in Int /\ c % L \in 0..(L - 1) /\ c = (c \div L) * L + (c % L)
    BY <1>1, DivMod, Zenon
  <2> DEFINE p == c \div L
             a == c % L
  <2>2. p \in Int /\ a \in 0..(L - 1) /\ p * L + a = q * L + n
    BY <2>1, <1>4
  <2> HIDE DEF p, a
  <2>3. L \in Nat \ {0} /\ q \in Int /\ n \in 0..(L - 1)
    BY <1>1, <1>3
  <2>4. p = q /\ a = n
    BY <2>2, <2>3, Remainders
  <2> QED BY <2>4 DEF a
<1>6. ASSUME NEW e \in (c + 1)..d, e % L = n PROVE FALSE
  <2>1. PICK p \in Int : e = p * L + n
    <3>1. e \in Int
      BY <1>6
    <3>2. e \div L \in Int /\ e = (e \div L) * L + (e % L)
      BY <1>1, <3>1, DivMod, Zenon
    <3> QED BY <3>2, <1>6
  <2> DEFINE m == p - q
  <2>2. m \in Int /\ m * L = e - c
    BY <2>1, <1>1, <1>3, <1>4
  <2>3. 0 < m * L /\ m * L < L
    BY <2>2, <1>1, <1>4
  <2> HIDE DEF m
  <2>4. m <= 0 => m * L <= 0
    BY <2>2, <1>1
  <2>5. m >= 1 => m * L >= L
    BY <2>2, <1>1
  <2> QED BY <2>2, <2>3, <2>4, <2>5, <1>1
<1> QED BY <1>4, <1>5, <1>6 DEF L

\* The day of the month a plan names, counted back from a day of the same month.
LEMMA SameMonthDay ==
  ASSUME NEW d \in Day, NEW n \in Nat \ {0}, n <= DayOfMonth[d],
         NEW c \in Int, c = LastOfPrevious(d) + n
  PROVE  /\ c \in Day /\ DayOfMonth[c] = n /\ c <= d
         /\ \A e \in (c + 1)..d : DayOfMonth[e] # n /\ DayOfMonth[e] > 1
<1>1. d \in Nat /\ DayOfMonth[d] \in Nat \ {0} /\ c = d - (DayOfMonth[d] - n)
  BY DayNumbers DEF LastOfPrevious
<1>2. c \in Day /\ DayOfMonth[c] = n
  <2> DEFINE k == DayOfMonth[d] - n
  <2>1. k \in Nat /\ k < DayOfMonth[d] /\ c = d - k /\ n = DayOfMonth[d] - k
    BY <1>1
  <2> HIDE DEF k
  <2> QED BY <2>1, MonthDays
<1>3. ASSUME NEW e \in (c + 1)..d PROVE DayOfMonth[e] # n /\ DayOfMonth[e] > 1
  <2> DEFINE k == d - e
  <2>1. k \in Nat /\ k < DayOfMonth[d] /\ e = d - k /\ DayOfMonth[d] - k > n
    BY <1>1
  <2> HIDE DEF k
  <2>2. DayOfMonth[e] = DayOfMonth[d] - k
    BY <2>1, MonthDays
  <2> QED BY <1>1, <2>1, <2>2
<1> QED BY <1>1, <1>2, <1>3

LEMMA WindowDay ==
  ASSUME NEW plan \in Plan, NEW t \in Time, HasWindow(plan, t), NEW c, c = CutoffDay(plan, DayAt(t))
  PROVE  /\ c \in Int /\ c <= DayAt(t) /\ Occurs(plan, c)
         /\ \A e \in (c + 1)..DayAt(t) : ~Occurs(plan, e)
<1> DEFINE d == DayAt(t)
<1>1. /\ plan.cadence \in {"daily", "weekly", "monthly"} /\ plan.day \in Nat
      /\ WeekLength \in Nat \ {0}
      /\ plan.cadence = "weekly" => plan.day < WeekLength
      /\ plan.cadence = "monthly" => plan.day >= 1
  BY CalendarAssumption
<1>2. d \in Nat /\ d \in Day /\ DayOfMonth[d] \in Nat \ {0} /\ d >= DayOfMonth[d]
  BY DayRange, DayNumbers
<1>3. c = CutoffDay(plan, d) /\ c # None
  BY DEF HasWindow
<1> HIDE DEF d
<1>4. CASE plan.cadence = "daily"
  BY <1>2, <1>3, <1>4 DEF CutoffDay, Occurs, d
<1>5. CASE plan.cadence = "weekly"
  <2>1. c = d - ((d - plan.day) % WeekLength)
    BY <1>3, <1>5 DEF CutoffDay
  <2>2. c \in Int
    BY <1>1, <1>2, <2>1
  <2> DEFINE n == plan.day
  <2>3. d \in Int /\ n \in Nat /\ n < WeekLength
    BY <1>1, <1>2, <1>5
  <2> HIDE DEF n
  <2>4. c % WeekLength = n /\ c <= d /\ \A e \in (c + 1)..d : e % WeekLength # n
    <3>1. c = d - ((d - n) % WeekLength)
      BY <2>1 DEF n
    <3> QED BY <2>2, <2>3, <3>1, SameWeekday, Zenon
  <2> QED BY <1>5, <2>2, <2>4 DEF Occurs, d, n
<1>6. CASE plan.cadence = "monthly"
  <2> DEFINE e == LastOfPrevious(d)
  <2>1. e \in Day /\ e \in Nat /\ e < d /\ DayOfMonth[e] \in Nat \ {0}
    BY <1>2, DaysBefore DEF LastOfPrevious
  <2>2. c = IF DayOfMonth[d] >= plan.day THEN e + plan.day
            ELSE IF plan.day > DayOfMonth[e] THEN None ELSE LastOfPrevious(e) + plan.day
    BY <1>3, <1>6 DEF CutoffDay
  <2>3. e = d - DayOfMonth[d]
    BY DEF LastOfPrevious
  <2>4. SUFFICES /\ c \in Int /\ c <= d /\ DayOfMonth[c] = plan.day
                 /\ \A f \in (c + 1)..d : DayOfMonth[f] # plan.day
    BY <1>6 DEF Occurs, d
  <2>5. CASE DayOfMonth[d] >= plan.day
    <3>1. c \in Int /\ c = LastOfPrevious(d) + plan.day
      BY <2>1, <2>2, <2>5, <1>1
    <3> QED BY <1>1, <1>2, <1>6, <2>5, <3>1, SameMonthDay
  <2>6. CASE ~(DayOfMonth[d] >= plan.day)
    <3>1. plan.day <= DayOfMonth[e] /\ c = LastOfPrevious(e) + plan.day
      BY <2>1, <2>2, <2>6, <1>1, <1>3
    <3>2. c \in Int
      BY <2>1, <3>1, <1>1 DEF LastOfPrevious
    <3> HIDE DEF e
    <3>3. /\ DayOfMonth[c] = plan.day /\ c <= e
          /\ \A f \in (c + 1)..e : DayOfMonth[f] # plan.day
      BY <1>1, <1>6, <2>1, <3>1, <3>2, SameMonthDay
    <3>4. ASSUME NEW f \in (e + 1)..d PROVE DayOfMonth[f] # plan.day
      <4> DEFINE k == d - f
      <4>1. k \in Nat /\ k < DayOfMonth[d] /\ f = d - k
        BY <1>2, <2>1, <2>3
      <4> HIDE DEF k
      <4>2. DayOfMonth[f] = DayOfMonth[d] - k
        BY <1>2, <4>1, MonthDays
      <4> QED BY <4>1, <4>2, <1>1, <1>2, <2>6
    <3> QED BY <1>2, <2>1, <3>2, <3>3, <3>4
  <2> QED BY <2>5, <2>6
<1> QED BY <1>1, <1>4, <1>5, <1>6

\* A schedule that is due has a window.
LEMMA DueHasWindow ==
  ASSUME NEW plan \in Plan, NEW t \in Time, IsDue(plan, t) PROVE HasWindow(plan, t)
<1> DEFINE d == DayAt(t)
<1>1. /\ plan.cadence \in {"daily", "weekly", "monthly"} /\ plan.day \in Nat
      /\ WeekLength \in Nat \ {0} /\ None \notin Int
  BY CalendarAssumption, ActorAssumption
<1>2. d \in Nat /\ d \in Day /\ DayOfMonth[d] \in Nat \ {0}
  BY DayRange, DayNumbers
<1>3. Occurs(plan, d)
  BY DEF IsDue
<1> HIDE DEF d
<1>4. CASE plan.cadence = "daily"
  BY <1>1, <1>2, <1>4 DEF HasWindow, CutoffDay, d
<1>5. CASE plan.cadence = "weekly"
  <2>1. d - ((d - plan.day) % WeekLength) \in Int
    BY <1>1, <1>2
  <2> QED BY <1>1, <1>5, <2>1 DEF HasWindow, CutoffDay, d
<1>6. CASE plan.cadence = "monthly"
  BY <1>1, <1>2, <1>3, <1>6 DEF HasWindow, CutoffDay, LastOfPrevious, Occurs, d
<1> QED BY <1>1, <1>4, <1>5, <1>6

\* A cutoff is the first hour of its day.
LEMMA FirstHour ==
  ASSUME NEW c \in Int
  PROVE  c * DayLength \in Int /\ HourAt(c * DayLength) = 0 /\ (c * DayLength) \div DayLength = c
<1> DEFINE L == DayLength
           x == c * L
           q == x \div L
           r == x % L
<1>1. L \in Nat \ {0} /\ 0 \in 0..(L - 1)
  BY CalendarAssumption
<1>2. x \in Int /\ x = c * L + 0
  BY <1>1
<1> HIDE DEF L, x
<1>3. q \in Int /\ r \in 0..(L - 1) /\ x = q * L + r
  BY <1>1, <1>2, DivMod
<1> HIDE DEF q, r
<1>4. q = c /\ r = 0
  BY <1>1, <1>2, <1>3, Remainders
<1> QED BY <1>2, <1>4 DEF L, x, q, r, HourAt

LEMMA CutoffRange ==
  ASSUME NEW plan \in Plan, NEW t \in Time, HasWindow(plan, t)
  PROVE  Cutoff(plan, t) \in Int /\ Cutoff(plan, t) <= t
<1> DEFINE c == CutoffDay(plan, DayAt(t))
<1>1. c \in Int /\ c <= DayAt(t) /\ DayAt(t) \in Nat /\ DayLength \in Nat \ {0}
  BY WindowDay, DayRange, CalendarAssumption
<1>2. t \in Nat /\ DayAt(t) * DayLength <= t
  BY DayRange
<1> HIDE DEF c
<1>3. c * DayLength \in Int /\ c * DayLength <= DayAt(t) * DayLength
  BY <1>1
<1>4. Cutoff(plan, t) = c * DayLength
  BY DEF Cutoff, c
<1> QED BY <1>1, <1>2, <1>3, <1>4

(* The inductive invariant.                                                  *)

SeenRows == Row \cup {None, Gone, Expired}

\* A worker that has a schedule in hand computed its window, and as long as it holds
\* the row lock what its UPDATE tested is still so.
JobOK ==
  \A w \in Worker :
    /\ pc[w] # "idle" => task[w] \in Task
    /\ pc[w] \in {"claim", "generate", "mail"} => current[w] \in Schedule /\ from[w] <= asked[w]
    /\ pc[w] = "generate" => Claimable(current[w], from[w])

JobTypes ==
  /\ pc \in [Worker -> {"idle", "next", "claim", "generate", "mail"}]
  /\ task \in [Worker -> Task \cup {Nobody}]
  /\ asked \in [Worker -> Time]
  /\ todo \in [Worker -> SUBSET Schedule]
  /\ loaded \in [Worker -> [Schedule -> SeenRows]]
  /\ current \in [Worker -> Schedule \cup {Nobody}]
  /\ from \in [Worker -> Int]
RowTypes ==
  /\ now \in Time
  /\ row \in [Schedule -> Row \cup {None, Gone}]
  /\ lastRun \in [Schedule -> Time \cup {-1}]
  /\ made \in [Schedule -> Seq(Window)]
  /\ queue \in [Task -> 0..MaxQueue]
BoundTypes == {runs, writes, faults} \subseteq Nat /\ runs + writes + faults <= MaxEvents
LockTypes == lock \in [Schedule -> Worker \cup {Nobody}]
LockHeld ==
  \A w \in Worker, s \in Schedule : lock[s] = w <=> pc[w] = "generate" /\ current[w] = s

IInv == JobTypes /\ RowTypes /\ BoundTypes /\ LockTypes /\ LockHeld /\ JobOK

LEMMA TypeOKParts == TypeOK <=> JobTypes /\ RowTypes /\ BoundTypes /\ LockTypes /\ LockHeld
  BY DEF TypeOK, JobTypes, RowTypes, BoundTypes, LockTypes, LockHeld, SeenRows

LEMMA TimeFacts == Time \subseteq Nat /\ FirstTime \in Time
  BY CalendarAssumption DEF Time

LEMMA InitIInv == Init => IInv
<1> SUFFICES ASSUME Init PROVE IInv
  OBVIOUS
<1>1. JobTypes
  BY TimeFacts DEF Init, JobTypes, AllExpired, SeenRows
<1>2. RowTypes
  <2>1. row \in [Schedule -> Row \cup {None, Gone}]
    BY DEF Init, Row
  <2>2. made \in [Schedule -> Seq(Window)]
    BY DEF Init
  <2>3. queue \in [Task -> 0..MaxQueue]
    BY BoundAssumption DEF Init
  <2> QED BY <2>1, <2>2, <2>3, TimeFacts DEF Init, RowTypes
<1>3. BoundTypes /\ LockTypes
  BY BoundAssumption DEF Init, BoundTypes, LockTypes
<1>4. LockHeld /\ JobOK
  BY ActorAssumption DEF Init, LockHeld, JobOK
<1> QED BY <1>1, <1>2, <1>3, <1>4 DEF IInv

(* How the worker's variables change.                                        *)

LEMMA EndTypes ==
  ASSUME JobTypes, NEW w \in Worker, End(w)
  PROVE  /\ JobTypes' /\ pc'[w] = "idle"
         /\ \A v \in Worker \ {w} : /\ pc'[v] = pc[v] /\ task'[v] = task[v] /\ asked'[v] = asked[v]
                                    /\ current'[v] = current[v] /\ from'[v] = from[v]
  BY TimeFacts DEF JobTypes, End, AllExpired, SeenRows

LEMMA ForwardTypes ==
  ASSUME JobTypes, NEW w \in Worker, NEW rows \in [Schedule -> SeenRows], Forward(w, rows)
  PROVE  /\ JobTypes' /\ pc'[w] \in {"idle", "next"}
         /\ pc'[w] = "next" => task'[w] = Beat
         /\ \A v \in Worker \ {w} : /\ pc'[v] = pc[v] /\ task'[v] = task[v] /\ asked'[v] = asked[v]
                                    /\ current'[v] = current[v] /\ from'[v] = from[v]
<1>1. CASE task[w] = Beat
  <2>1. /\ pc' = [pc EXCEPT ![w] = "next"]
        /\ todo' = [todo EXCEPT ![w] = @ \ {current[w]}]
        /\ current' = [current EXCEPT ![w] = Nobody]
        /\ from' = [from EXCEPT ![w] = 0]
        /\ loaded' = [loaded EXCEPT ![w] = rows]
        /\ UNCHANGED <<task, asked>>
    BY <1>1 DEF Forward
  <2> QED BY <1>1, <2>1 DEF JobTypes
<1>2. CASE task[w] # Beat
  BY <1>2, EndTypes DEF Forward
<1> QED BY <1>1, <1>2

\* A worker without the lock changes only its own variables; what it does next is
\* covered by the invariant.
LEMMA OwnStep ==
  ASSUME LockHeld, JobOK, NEW w \in Worker, UNCHANGED <<row, lastRun, lock>>,
         pc[w] # "generate", pc'[w] # "generate",
         pc'[w] # "idle" => task'[w] \in Task,
         pc'[w] \in {"claim", "mail"} => current'[w] \in Schedule /\ from'[w] <= asked'[w],
         \A v \in Worker \ {w} : /\ pc'[v] = pc[v] /\ task'[v] = task[v] /\ asked'[v] = asked[v]
                                 /\ current'[v] = current[v] /\ from'[v] = from[v]
  PROVE  LockHeld' /\ JobOK'
<1>1. LockHeld'
  BY DEF LockHeld
<1>2. JobOK'
  BY DEF JobOK, Claimable
<1> QED BY <1>1, <1>2

\* The holder of a lock gives it back: what the others hold stays.
LEMMA UnlockStep ==
  ASSUME LockTypes, LockHeld, NEW w \in Worker, Unlock(w),
         pc'[w] # "generate",
         \A v \in Worker \ {w} : pc'[v] = pc[v] /\ current'[v] = current[v]
  PROVE  LockTypes' /\ LockHeld'
<1>1. LockTypes'
  BY DEF LockTypes, Unlock
<1>2. ASSUME NEW v \in Worker, NEW s \in Schedule
      PROVE  lock'[s] = v <=> pc'[v] = "generate" /\ current'[v] = s
  <2>1. lock'[s] = IF lock[s] = w THEN Nobody ELSE lock[s]
    BY DEF Unlock
  <2>2. Nobody \notin Worker
    BY ActorAssumption
  <2>3. CASE v = w
    BY <2>1, <2>2, <2>3
  <2>4. CASE v # w
    BY <2>1, <2>2, <2>4 DEF LockHeld
  <2> QED BY <2>3, <2>4
<1> QED BY <1>1, <1>2 DEF LockHeld

(* The steps.                                                                *)

LEMMA PublishTypes ==
  ASSUME RowTypes, NEW k \in Task, Publish(k)
  PROVE  queue' \in [Task -> 0..MaxQueue]
  BY BoundAssumption DEF RowTypes, Publish

LEMMA TickStep == IInv /\ Tick => IInv'
<1> SUFFICES ASSUME IInv, Tick PROVE IInv'
  OBVIOUS
<1>1. RowTypes'
  <2>1. queue' \in [Task -> 0..MaxQueue]
    BY PublishTypes DEF Tick, Task, IInv
  <2>2. now' \in Time
    BY CalendarAssumption DEF Tick, Time, IInv, RowTypes
  <2> QED BY <2>1, <2>2 DEF Tick, RowTypes, IInv
<1>2. UNCHANGED <<lastRun, row, lock, job, bounds>>
  BY DEF Tick
<1>3. JobTypes' /\ JobOK' /\ LockHeld' /\ LockTypes' /\ BoundTypes'
  BY <1>2 DEF IInv, JobTypes, JobOK, Claimable, LockHeld, LockTypes, BoundTypes, job, bounds
<1> QED BY <1>1, <1>3 DEF IInv

LEMMA BoundStep ==
  ASSUME BoundTypes, Bounded,
         \/ runs' = runs + 1 /\ UNCHANGED <<writes, faults>>
         \/ writes' = writes + 1 /\ UNCHANGED <<runs, faults>>
         \/ faults' = faults + 1 /\ UNCHANGED <<runs, writes>>
  PROVE  BoundTypes'
  BY BoundAssumption DEF BoundTypes, Bounded

LEMMA RunNowStep == ASSUME IInv, NEW s \in Schedule, RunNow(s) PROVE IInv'
<1>1. BoundTypes'
  BY BoundStep DEF RunNow, IInv
<1>2. RowTypes'
  <2>1. queue' \in [Task -> 0..MaxQueue]
    BY PublishTypes DEF RunNow, Task, IInv
  <2> QED BY <2>1 DEF RunNow, RowTypes, IInv
<1>3. UNCHANGED <<lastRun, row, lock, job>>
  BY DEF RunNow
<1>4. JobTypes' /\ JobOK' /\ LockHeld' /\ LockTypes'
  BY <1>3 DEF IInv, JobTypes, JobOK, Claimable, LockHeld, LockTypes, job
<1> QED BY <1>1, <1>2, <1>4 DEF IInv

\* An administrator's write waits for the row lock, so it takes nothing from a holder.
LEMMA WriteStep ==
  ASSUME IInv, NEW s \in Schedule, NEW r \in Row \cup {None, Gone}, Write(s, r) PROVE IInv'
<1>1. BoundTypes'
  BY BoundStep DEF Write, IInv
<1>2. RowTypes'
  BY DEF Write, RowTypes, IInv
<1>3. JobTypes' /\ LockHeld' /\ LockTypes'
  BY DEF IInv, JobTypes, LockHeld, LockTypes, job, Write
<1>4. ASSUME NEW w \in Worker, pc[w] = "generate" PROVE row'[current[w]] = row[current[w]]
  <2>1. current[w] \in Schedule
    BY <1>4 DEF IInv, JobOK
  <2>2. current[w] # s
    BY <1>4, <2>1, ActorAssumption DEF IInv, LockHeld, Write
  <2> QED BY <2>1, <2>2 DEF Write, IInv, RowTypes
<1>5. JobOK'
  BY <1>4 DEF IInv, JobOK, Claimable, Write, job
<1> QED BY <1>1, <1>2, <1>3, <1>5 DEF IInv

LEMMA PlanStep ==
  ASSUME IInv, NEW s \in Schedule, NEW plan \in Plan, Create(s, plan) \/ Patch(s, plan)
  PROVE  IInv'
<1>1. CASE Create(s, plan)
  <2>1. [plan |-> plan, enabled |-> TRUE] \in Row
    BY DEF Row
  <2> QED BY <1>1, <2>1, WriteStep DEF Create
<1>2. CASE Patch(s, plan)
  <2>1. [row[s] EXCEPT !.plan = plan] \in Row
    BY <1>2 DEF Patch, Row
  <2> QED BY <1>2, <2>1, WriteStep DEF Patch
<1> QED BY <1>1, <1>2

LEMMA TakeBeatStep == ASSUME IInv, NEW w \in Worker, TakeBeat(w) PROVE IInv'
<1>1. JobTypes'
  BY DEF IInv, JobTypes, TakeBeat, RowTypes, SeenRows, Task
<1>2. RowTypes' /\ BoundTypes' /\ LockTypes'
  BY BoundAssumption DEF IInv, RowTypes, TakeBeat, BoundTypes, LockTypes, bounds, Task
<1>3. LockHeld' /\ JobOK'
  BY OwnStep DEF IInv, TakeBeat, JobTypes, Task
<1> QED BY <1>1, <1>2, <1>3 DEF IInv

LEMMA SeenType ==
  ASSUME IInv, NEW w \in Worker, NEW s \in Schedule
  PROVE  /\ Seen(w, s) \in SeenRows
         /\ \A r \in Row : r.plan \in Plan
  BY DEF IInv, JobTypes, RowTypes, Seen, SeenRows, Row

LEMMA TakeOnceStep == ASSUME IInv, NEW w \in Worker, NEW s \in Schedule, TakeOnce(w, s) PROVE IInv'
<1>1. RowTypes' /\ BoundTypes' /\ LockTypes'
  BY BoundAssumption DEF IInv, RowTypes, TakeOnce, BoundTypes, LockTypes, bounds, Task
<1>2. CASE row[s] \in Row /\ HasWindow(row[s].plan, now)
  <2>1. Cutoff(row[s].plan, now) \in Int /\ Cutoff(row[s].plan, now) <= now
    BY <1>2, CutoffRange DEF IInv, RowTypes, Row
  <2>2. JobTypes'
    <3>1. /\ pc' = [pc EXCEPT ![w] = "claim"]
          /\ task' = [task EXCEPT ![w] = s]
          /\ asked' = [asked EXCEPT ![w] = now]
          /\ loaded' = [loaded EXCEPT ![w][s] = row[s]]
          /\ current' = [current EXCEPT ![w] = s]
          /\ from' = [from EXCEPT ![w] = Cutoff(row[s].plan, now)]
          /\ UNCHANGED todo
      BY <1>2 DEF TakeOnce
    <3>2. row[s] \in SeenRows /\ s \in Task /\ now \in Time
      BY DEF IInv, RowTypes, SeenRows, Task
    <3> QED BY <2>1, <3>1, <3>2 DEF IInv, JobTypes
  <2>3. LockHeld' /\ JobOK'
    BY <1>2, <2>1, OwnStep DEF IInv, TakeOnce, JobTypes, Task
  <2> QED BY <1>1, <2>2, <2>3 DEF IInv
<1>3. CASE ~(row[s] \in Row /\ HasWindow(row[s].plan, now))
  <2>1. UNCHANGED <<job, row, lastRun, lock>>
    BY <1>3 DEF TakeOnce
  <2> QED BY <1>1, <2>1 DEF IInv, job, JobTypes, JobOK, LockHeld, Claimable
<1> QED BY <1>2, <1>3

LEMMA ConsiderStep == ASSUME IInv, NEW w \in Worker, NEW s \in Schedule, Consider(w, s) PROVE IInv'
<1> DEFINE plan == Seen(w, s).plan
<1>1. RowTypes' /\ BoundTypes' /\ LockTypes'
  BY DEF IInv, RowTypes, Consider, BoundTypes, LockTypes, bounds
<1>2. CASE IsDue(plan, asked[w]) /\ HasWindow(plan, asked[w])
  <2>1. Cutoff(plan, asked[w]) \in Int /\ Cutoff(plan, asked[w]) <= asked[w]
    BY <1>2, CutoffRange, SeenType DEF IInv, JobTypes, Consider
  <2>2. JobTypes'
    <3>1. /\ pc' = [pc EXCEPT ![w] = "claim"]
          /\ current' = [current EXCEPT ![w] = s]
          /\ from' = [from EXCEPT ![w] = Cutoff(plan, asked[w])]
          /\ loaded' = [loaded EXCEPT ![w][s] = Seen(w, s)]
          /\ UNCHANGED <<task, asked, todo>>
      BY <1>2 DEF Consider
    <3> QED BY <2>1, <3>1, SeenType DEF IInv, JobTypes
  <2>3. LockHeld' /\ JobOK'
    BY <1>2, <2>1, OwnStep DEF IInv, Consider, JobTypes, JobOK
  <2> QED BY <1>1, <2>2, <2>3 DEF IInv
<1>3. CASE ~(IsDue(plan, asked[w]) /\ HasWindow(plan, asked[w]))
  BY <1>1, <1>3 DEF IInv, Consider, JobTypes, JobOK, LockHeld, Claimable
<1> QED BY <1>2, <1>3

LEMMA ClaimStep == ASSUME IInv, NEW w \in Worker, Claim(w) PROVE IInv'
<1>1. RowTypes' /\ BoundTypes' /\ JobTypes' /\ LockTypes'
  BY DEF IInv, RowTypes, JobTypes, Claim, BoundTypes, LockTypes, bounds
<1>2. current[w] \in Schedule /\ from[w] <= asked[w] /\ task[w] \in Task
  BY DEF IInv, JobOK, Claim
<1>3. LockHeld'
  <2> SUFFICES ASSUME NEW v \in Worker, NEW s \in Schedule
               PROVE  lock'[s] = v <=> pc'[v] = "generate" /\ current'[v] = s
    BY DEF LockHeld
  <2>1. lock[current[w]] = Nobody /\ Nobody \notin Worker
    BY ActorAssumption DEF Claim
  <2>2. lock'[s] = IF s = current[w] THEN w ELSE lock[s]
    BY <1>2 DEF Claim, IInv, LockTypes
  <2>3. pc'[v] = (IF v = w THEN "generate" ELSE pc[v]) /\ current'[v] = current[v]
    BY DEF Claim, IInv, JobTypes
  <2>4. (lock[s] = v) <=> (pc[v] = "generate" /\ current[v] = s)
    BY DEF IInv, LockHeld
  <2>5. pc[w] = "claim"
    BY DEF Claim
  <2> QED BY <2>1, <2>2, <2>3, <2>4, <2>5
<1>4. JobOK'
  BY <1>2 DEF IInv, JobOK, Claim, Claimable, JobTypes
<1> QED BY <1>1, <1>3, <1>4 DEF IInv

LEMMA LeaveStep ==
  ASSUME IInv, NEW w \in Worker,
         ClaimNothing(w) \/ Mail(w) \/ Finish(w) \/ \E s \in Schedule : ConsiderGone(w, s)
  PROVE  IInv'
<1>1. /\ UNCHANGED <<now, row, lastRun, made, queue, lock, bounds>>
      /\ pc[w] # "generate"
      /\ End(w) \/ Forward(w, loaded[w])
  BY DEF ClaimNothing, Mail, Finish, ConsiderGone
<1>2. RowTypes' /\ BoundTypes' /\ LockTypes'
  BY <1>1 DEF IInv, RowTypes, BoundTypes, LockTypes, bounds
<1>3. /\ JobTypes' /\ pc'[w] \in {"idle", "next"}
      /\ pc'[w] = "next" => task'[w] = Beat
      /\ \A v \in Worker \ {w} : /\ pc'[v] = pc[v] /\ task'[v] = task[v] /\ asked'[v] = asked[v]
                                 /\ current'[v] = current[v] /\ from'[v] = from[v]
  <2>1. CASE End(w)
    BY <2>1, EndTypes DEF IInv
  <2>2. CASE Forward(w, loaded[w])
    BY <2>2, ForwardTypes DEF IInv, JobTypes
  <2> QED BY <1>1, <2>1, <2>2
<1>4. LockHeld' /\ JobOK'
  BY <1>1, <1>3, OwnStep DEF IInv, Task
<1> QED BY <1>2, <1>3, <1>4 DEF IInv

LEMMA WindowOf == ASSUME NEW a \in Int, NEW b \in Int PROVE [from |-> a, at |-> b] \in Window
  BY DEF Window

LEMMA CommitStep == ASSUME IInv, NEW w \in Worker, Commit(w) PROVE IInv'
<1>1. /\ current[w] \in Schedule /\ from[w] <= asked[w] /\ task[w] \in Task
      /\ asked[w] \in Time /\ from[w] \in Int
  BY DEF IInv, JobOK, Commit, JobTypes
<1>2. RowTypes'
  <2>1. lastRun' \in [Schedule -> Time \cup {-1}]
    BY <1>1 DEF IInv, RowTypes, Commit
  <2>2. [from |-> from[w], at |-> asked[w]] \in Window
    <3>1. asked[w] \in Nat
      BY <1>1, TimeFacts, Zenon
    <3>2. asked[w] \in Int
      BY <3>1
    <3> QED BY <1>1, <3>2, WindowOf
  <2>3. made' \in [Schedule -> Seq(Window)]
    BY <1>1, <2>2 DEF IInv, RowTypes, Commit
  <2> QED BY <2>1, <2>3 DEF IInv, RowTypes, Commit
<1>3. BoundTypes' /\ JobTypes'
  BY DEF IInv, BoundTypes, JobTypes, Commit, bounds, AllExpired, SeenRows
<1>4. LockTypes' /\ LockHeld'
  BY UnlockStep DEF IInv, Commit, JobTypes
<1>5. ASSUME NEW v \in Worker \ {w}, pc[v] = "generate" PROVE current[v] # current[w]
  BY <1>1, <1>5 DEF IInv, LockHeld, Commit
<1>6. JobOK'
  <2>1. ASSUME NEW v \in Worker \ {w}, pc[v] = "generate"
        PROVE  Claimable(current[v], from[v])'
    BY <1>1, <1>5, <2>1 DEF IInv, JobOK, Commit, Claimable, JobTypes, RowTypes
  <2>2. /\ pc'[w] = "mail" /\ \A v \in Worker \ {w} : pc'[v] = pc[v]
        /\ UNCHANGED <<task, current, from, asked>>
    BY DEF IInv, JobTypes, Commit
  <2> QED BY <1>1, <2>1, <2>2 DEF IInv, JobOK
<1> QED BY <1>2, <1>3, <1>4, <1>6 DEF IInv

LEMMA FailStep == ASSUME IInv, NEW w \in Worker, Fail(w) PROVE IInv'
<1>1. RowTypes' /\ BoundTypes'
  BY BoundStep DEF IInv, RowTypes, Fail
<1>2. /\ JobTypes' /\ pc'[w] \in {"idle", "next"}
      /\ pc'[w] = "next" => task'[w] = Beat
      /\ \A v \in Worker \ {w} : /\ pc'[v] = pc[v] /\ task'[v] = task[v] /\ asked'[v] = asked[v]
                                 /\ current'[v] = current[v] /\ from'[v] = from[v]
  <2>1. AllExpired \in [Schedule -> SeenRows]
    BY DEF AllExpired, SeenRows
  <2> QED BY <2>1, ForwardTypes DEF IInv, Fail
<1>3. LockTypes' /\ LockHeld'
  BY <1>2, UnlockStep DEF IInv, Fail
<1>4. JobOK'
  BY <1>2 DEF IInv, JobOK, Fail, Claimable, Task
<1> QED BY <1>1, <1>2, <1>3, <1>4 DEF IInv

LEMMA WorkerLostStep == ASSUME IInv, NEW w \in Worker, WorkerLost(w) PROVE IInv'
<1>1. BoundTypes'
  BY BoundStep DEF IInv, WorkerLost
<1>2. RowTypes'
  <2>1. queue' \in [Task -> 0..MaxQueue]
    BY PublishTypes DEF IInv, WorkerLost, JobOK, RowTypes
  <2> QED BY <2>1 DEF IInv, RowTypes, WorkerLost
<1>3. /\ JobTypes' /\ pc'[w] = "idle"
      /\ \A v \in Worker \ {w} : /\ pc'[v] = pc[v] /\ task'[v] = task[v] /\ asked'[v] = asked[v]
                                 /\ current'[v] = current[v] /\ from'[v] = from[v]
  BY EndTypes DEF IInv, WorkerLost
<1>4. LockTypes' /\ LockHeld'
  BY <1>3, UnlockStep DEF IInv, WorkerLost
<1>5. JobOK'
  BY <1>3 DEF IInv, JobOK, WorkerLost, Claimable, Task
<1> QED BY <1>1, <1>2, <1>3, <1>4, <1>5 DEF IInv

LEMMA RedeliverStep == ASSUME IInv, NEW w \in Worker, Redeliver(w) PROVE IInv'
<1>1. BoundTypes'
  BY BoundStep DEF IInv, Redeliver
<1>2. RowTypes'
  <2>1. queue' \in [Task -> 0..MaxQueue]
    BY PublishTypes DEF IInv, Redeliver, JobOK
  <2> QED BY <2>1 DEF IInv, RowTypes, Redeliver
<1>3. JobTypes' /\ LockTypes' /\ LockHeld' /\ JobOK'
  BY DEF IInv, Redeliver, job, JobTypes, LockTypes, LockHeld, JobOK, Claimable
<1> QED BY <1>1, <1>2, <1>3 DEF IInv

LEMMA NextIInv == IInv /\ [Next]_vars => IInv'
<1> SUFFICES ASSUME IInv, [Next]_vars PROVE IInv'
  OBVIOUS
<1>1. CASE Tick
  BY <1>1, TickStep
<1>2. CASE \E s \in Schedule : RunNow(s) \/ Toggle(s) \/ Delete(s)
  <2>1. PICK s \in Schedule : RunNow(s) \/ Toggle(s) \/ Delete(s)
    BY <1>2
  <2>2. CASE RunNow(s)
    BY <2>2, RunNowStep
  <2>3. CASE Toggle(s)
    <3>1. [row[s] EXCEPT !.enabled = ~@] \in Row
      BY <2>3 DEF Toggle, Row
    <3> QED BY <2>3, <3>1, WriteStep DEF Toggle
  <2>4. CASE Delete(s)
    BY <2>4, WriteStep DEF Delete
  <2> QED BY <2>1, <2>2, <2>3, <2>4
<1>3. CASE \E s \in Schedule, plan \in Plan : Create(s, plan) \/ Patch(s, plan)
  BY <1>3, PlanStep
<1>4. ASSUME NEW w \in Worker, Work(w) \/ Fail(w) \/ WorkerLost(w) \/ Redeliver(w) PROVE IInv'
  BY <1>4, TakeBeatStep, TakeOnceStep, ConsiderStep, ClaimStep, LeaveStep, CommitStep, FailStep,
     WorkerLostStep, RedeliverStep DEF Work
<1>5. CASE UNCHANGED vars
  BY <1>5 DEF vars, job, bounds, IInv, JobTypes, RowTypes, BoundTypes, LockTypes, LockHeld, JobOK,
     Claimable
<1> QED BY <1>1, <1>2, <1>3, <1>4, <1>5 DEF Next

LEMMA Invariance == Spec => []IInv
<1>1. Init => IInv
  BY InitIInv
<1>2. IInv /\ [Next]_vars => IInv'
  BY NextIInv
<1> QED BY <1>1, <1>2, PTL DEF Spec

\* Every variable keeps its type, and the row lock is held exactly by the worker that
\* is building the report of the schedule.
THEOREM TypeCorrect == Spec => []TypeOK
<1>1. IInv => TypeOK
  BY TypeOKParts DEF IInv
<1> QED BY <1>1, Invariance, PTL

\* Only a commit makes a report, and what the claim tested still holds then.
LEMMA MadeByCommit ==
  ASSUME IInv, [Next]_vars
  PROVE  \/ UNCHANGED <<lastRun, made>>
         \/ \E w \in Worker :
              /\ current[w] \in Schedule /\ Claimable(current[w], from[w]) /\ from[w] <= asked[w]
              /\ lastRun' = [lastRun EXCEPT ![current[w]] = asked[w]]
              /\ made' = [made EXCEPT ![current[w]] =
                            Append(@, [from |-> from[w], at |-> asked[w]])]
<1>1. CASE \E w \in Worker : Commit(w)
  BY <1>1 DEF Commit, IInv, JobOK
<1>2. CASE ~\E w \in Worker : Commit(w)
  BY <1>2 DEF Next, vars, Tick, RunNow, Toggle, Delete, Create, Patch, Write, Work, TakeBeat,
     TakeOnce, Consider, ConsiderGone, Claim, ClaimNothing, Mail, Finish, Fail, WorkerLost, Redeliver
<1> QED BY <1>1, <1>2

\* A report is only made for a schedule that exists and is switched on at the moment of
\* the commit: an administrator who switches it off meanwhile waits for the row lock.
THEOREM ReportsAreWanted == Spec => OnlyForEnabled
<1>1. IInv /\ [Next]_vars =>
        [\A s \in Schedule : made'[s] # made[s] => row[s] \in Row /\ row[s].enabled]_vars
  <2> SUFFICES ASSUME IInv, [Next]_vars, NEW s \in Schedule, made'[s] # made[s]
               PROVE  row[s] \in Row /\ row[s].enabled
    OBVIOUS
  <2>1. PICK w \in Worker :
          /\ current[w] \in Schedule /\ Claimable(current[w], from[w])
          /\ made' = [made EXCEPT ![current[w]] =
                        Append(@, [from |-> from[w], at |-> asked[w]])]
    BY MadeByCommit
  <2>2. s = current[w]
    BY <2>1 DEF IInv, RowTypes
  <2> QED BY <2>1, <2>2 DEF Claimable
<1> QED BY <1>1, Invariance, PTL DEF Spec, OnlyForEnabled

\* However beats, manual runs, repeated messages and lost workers interleave, each report
\* opens a window later than all before it: the specification implements ReportPeriods.
THEOREM OneWindowOneReport == Spec => OneReportPerWindow
<1>1. Init => Periods!Init
  BY DEF Init, Periods!Init
<1>2. IInv /\ [Next]_vars => [Periods!Next]_(Periods!vars)
  <2> SUFFICES ASSUME IInv, [Next]_vars PROVE [Periods!Next]_(Periods!vars)
    OBVIOUS
  <2>1. CASE UNCHANGED <<lastRun, made>>
    BY <2>1 DEF Periods!vars
  <2>2. CASE ~UNCHANGED <<lastRun, made>>
    <3>1. PICK w \in Worker :
            /\ current[w] \in Schedule /\ Claimable(current[w], from[w]) /\ from[w] <= asked[w]
            /\ lastRun' = [lastRun EXCEPT ![current[w]] = asked[w]]
            /\ made' = [made EXCEPT ![current[w]] =
                          Append(@, [from |-> from[w], at |-> asked[w]])]
      BY <2>2, MadeByCommit
    <3>2. /\ lastRun[current[w]] \in Time \cup {-1} /\ asked[w] \in Time /\ from[w] \in Int
          /\ lastRun[current[w]] < from[w] /\ LastTime \in Nat
      BY <3>1, CalendarAssumption DEF IInv, RowTypes, JobTypes, Claimable
    <3>3. asked[w] \in 0..LastTime /\ from[w] \in 0..LastTime
      BY <3>1, <3>2, TimeFacts DEF Time
    <3>4. Periods!Make(current[w], from[w], asked[w])
      BY <3>1, <3>2 DEF Periods!Make
    <3> QED BY <3>1, <3>3, <3>4 DEF Periods!Next
  <2> QED BY <2>1, <2>2
<1> QED BY <1>1, <1>2, Invariance, PTL DEF Spec, OneReportPerWindow, Periods!Spec

-----------------------------------------------------------------------------
(* Batches and windows: a second invariant, relative to the first.           *)

Calm == writes = 0 /\ faults = 0
Served(w, s) ==
  row[s] \in Row /\ IsDue(row[s].plan, asked[w]) => lastRun[s] >= Cutoff(row[s].plan, asked[w])

\* The window in hand is that of the plan the session holds.
Windowed ==
  \A w \in Worker : pc[w] \in {"claim", "generate"} =>
    /\ loaded[w][current[w]] \in Row
    /\ HasWindow(loaded[w][current[w]].plan, asked[w])
    /\ from[w] = Cutoff(loaded[w][current[w]].plan, asked[w])
Batches == \A w \in Worker : pc[w] = "next" => task[w] = Beat
\* As long as nobody edits: every schedule is on, and a session holds current rows.
AllOn == Calm => \A s \in Schedule : row[s] \in Row => row[s].enabled
Fresh == Calm => \A w \in Worker, s \in Schedule : loaded[w][s] \in {Expired, row[s]}
\* A batch drops a schedule only when it needs nothing more.
Dropped(w, s) == s \notin todo[w] \/ (pc[w] = "mail" /\ s = current[w])
BatchOK ==
  Calm => \A w \in Worker, s \in Schedule :
            pc[w] # "idle" /\ task[w] = Beat /\ Dropped(w, s) => Served(w, s)

BInv == Windowed /\ Batches /\ AllOn /\ Fresh /\ BatchOK

LEMMA HoursAreIntegers == ASSUME NEW t \in Time PROVE t \in Int
  BY CalendarAssumption DEF Time

LEMMA InitBInv == Init => BInv
<1> SUFFICES ASSUME Init PROVE BInv
  OBVIOUS
<1>1. Windowed /\ Batches /\ BatchOK
  BY DEF Init, Windowed, Batches, BatchOK
<1>2. AllOn
  <2> SUFFICES ASSUME NEW s \in Schedule, row[s] \in Row PROVE row[s].enabled
    BY DEF AllOn
  <2>1. row[s] \in {None} \cup [plan : Plan, enabled : {TRUE}]
    BY DEF Init
  <2>2. row[s] # None
    BY ActorAssumption DEF Row
  <2> QED BY <2>1, <2>2
<1>3. Fresh
  BY DEF Init, Fresh, AllExpired
<1> QED BY <1>1, <1>2, <1>3 DEF BInv

\* A worker's step leaves the jobs of the others alone.
OthersKeep(w) ==
  \A v \in Worker \ {w} :
    /\ pc'[v] = pc[v] /\ task'[v] = task[v] /\ asked'[v] = asked[v] /\ todo'[v] = todo[v]
    /\ loaded'[v] = loaded[v] /\ current'[v] = current[v] /\ from'[v] = from[v]

\* Where a worker gets to when it is done with a schedule.
LEMMA EndResult ==
  ASSUME IInv, NEW w \in Worker, End(w)
  PROVE  OthersKeep(w) /\ pc'[w] = "idle" /\ loaded'[w] = AllExpired
  BY DEF IInv, JobTypes, End, OthersKeep

LEMMA ForwardResult ==
  ASSUME IInv, NEW w \in Worker, NEW rows, Forward(w, rows)
  PROVE  /\ OthersKeep(w) /\ pc'[w] \in {"idle", "next"} /\ loaded'[w] \in {rows, AllExpired}
         /\ pc'[w] = "next" => /\ task[w] = Beat /\ task'[w] = Beat
                               /\ todo'[w] = todo[w] \ {current[w]} /\ asked'[w] = asked[w]
<1>1. CASE task[w] = Beat
  <2>1. /\ pc' = [pc EXCEPT ![w] = "next"]
        /\ todo' = [todo EXCEPT ![w] = @ \ {current[w]}]
        /\ current' = [current EXCEPT ![w] = Nobody]
        /\ from' = [from EXCEPT ![w] = 0]
        /\ loaded' = [loaded EXCEPT ![w] = rows]
        /\ UNCHANGED <<task, asked>>
    BY <1>1 DEF Forward
  <2> QED BY <1>1, <2>1 DEF IInv, JobTypes, OthersKeep
<1>2. CASE task[w] # Beat
  BY <1>2, EndResult DEF Forward
<1> QED BY <1>1, <1>2

LEMMA WorkKeeps ==
  ASSUME IInv, NEW w \in Worker, Work(w) \/ Fail(w) \/ WorkerLost(w)
  PROVE  OthersKeep(w)
<1>1. CASE TakeBeat(w) \/ Claim(w) \/ Commit(w)
  BY <1>1 DEF IInv, JobTypes, TakeBeat, Claim, Commit, OthersKeep
<1>2. CASE \E s \in Schedule : TakeOnce(w, s) \/ Consider(w, s)
  BY <1>2 DEF IInv, JobTypes, TakeOnce, Consider, OthersKeep, job
<1>3. CASE \/ \E s \in Schedule : ConsiderGone(w, s)
           \/ ClaimNothing(w) \/ Mail(w) \/ Finish(w) \/ Fail(w) \/ WorkerLost(w)
  BY <1>3, EndResult, ForwardResult DEF ConsiderGone, ClaimNothing, Mail, Finish, Fail, WorkerLost
<1> QED BY <1>1, <1>2, <1>3 DEF Work

\* A window is computed when a schedule is taken up, and stays with the job.
LEMMA WindowedStep == IInv /\ BInv /\ [Next]_vars => Windowed' /\ Batches'
<1> SUFFICES ASSUME IInv, BInv, [Next]_vars PROVE Windowed' /\ Batches'
  OBVIOUS
<1>1. CASE UNCHANGED job
  BY <1>1 DEF BInv, Windowed, Batches, job
<1> DEFINE WindowOfJob(w) ==
      /\ pc[w] \in {"claim", "generate"} =>
           /\ loaded[w][current[w]] \in Row
           /\ HasWindow(loaded[w][current[w]].plan, asked[w])
           /\ from[w] = Cutoff(loaded[w][current[w]].plan, asked[w])
      /\ pc[w] = "next" => task[w] = Beat
<1>2. ASSUME NEW w \in Worker, OthersKeep(w), WindowOfJob(w)' PROVE Windowed' /\ Batches'
  <2>1. ASSUME NEW v \in Worker PROVE WindowOfJob(v)'
    <3>1. WindowOfJob(v)
      BY DEF BInv, Windowed, Batches
    <3> QED BY <1>2, <3>1 DEF OthersKeep
  <2> QED BY <2>1 DEF Windowed, Batches
<1>3. ASSUME NEW w \in Worker, Work(w) \/ Fail(w) \/ WorkerLost(w), ~UNCHANGED job
      PROVE  WindowOfJob(w)'
  <2>1. CASE TakeBeat(w)
    BY <2>1 DEF IInv, JobTypes, TakeBeat
  <2>2. ASSUME NEW s \in Schedule, TakeOnce(w, s) PROVE WindowOfJob(w)'
    <3>1. /\ row[s] \in Row /\ HasWindow(row[s].plan, now)
          /\ pc' = [pc EXCEPT ![w] = "claim"]
          /\ asked' = [asked EXCEPT ![w] = now]
          /\ loaded' = [loaded EXCEPT ![w][s] = row[s]]
          /\ current' = [current EXCEPT ![w] = s]
          /\ from' = [from EXCEPT ![w] = Cutoff(row[s].plan, now)]
      BY <1>3, <2>2 DEF TakeOnce
    <3>2. /\ pc'[w] = "claim" /\ asked'[w] = now /\ loaded'[w][s] = row[s] /\ current'[w] = s
          /\ from'[w] = Cutoff(row[s].plan, now)
      BY <3>1 DEF IInv, JobTypes
    <3> QED BY <3>1, <3>2
  <2>3. ASSUME NEW s \in Schedule, Consider(w, s) PROVE WindowOfJob(w)'
    <3> DEFINE plan == Seen(w, s).plan
    <3>1. CASE IsDue(plan, asked[w]) /\ HasWindow(plan, asked[w])
      <4>1. /\ pc' = [pc EXCEPT ![w] = "claim"]
            /\ current' = [current EXCEPT ![w] = s]
            /\ from' = [from EXCEPT ![w] = Cutoff(plan, asked[w])]
            /\ loaded' = [loaded EXCEPT ![w][s] = Seen(w, s)]
            /\ asked' = asked /\ Seen(w, s) \in Row
        BY <2>3, <3>1 DEF Consider
      <4>2. /\ pc'[w] = "claim" /\ loaded'[w][s] = Seen(w, s) /\ current'[w] = s
            /\ from'[w] = Cutoff(plan, asked[w])
        BY <4>1 DEF IInv, JobTypes
      <4> QED BY <3>1, <4>1, <4>2
    <3>2. CASE ~(IsDue(plan, asked[w]) /\ HasWindow(plan, asked[w]))
      <4>1. UNCHANGED <<pc, task>> /\ pc[w] = "next"
        BY <2>3, <3>2 DEF Consider
      <4> QED BY <4>1 DEF BInv, Batches
    <3> QED BY <3>1, <3>2
  <2>4. CASE Claim(w) \/ Commit(w)
    <3>1. CASE Claim(w)
      <4>1. pc[w] = "claim" /\ pc'[w] = "generate" /\ UNCHANGED <<loaded, current, asked, from>>
        BY <3>1 DEF Claim, IInv, JobTypes
      <4> QED BY <4>1 DEF BInv, Windowed
    <3>2. CASE Commit(w)
      BY <3>2 DEF Commit, IInv, JobTypes
    <3> QED BY <2>4, <3>1, <3>2
  <2>5. CASE \/ \E s \in Schedule : ConsiderGone(w, s)
             \/ ClaimNothing(w) \/ Mail(w) \/ Finish(w) \/ Fail(w) \/ WorkerLost(w)
    <3>1. pc'[w] \in {"idle", "next"} /\ (pc'[w] = "next" => task'[w] = Beat)
      BY <2>5, EndResult, ForwardResult
         DEF ConsiderGone, ClaimNothing, Mail, Finish, Fail, WorkerLost
    <3> QED BY <3>1
  <2> QED BY <1>3, <2>1, <2>2, <2>3, <2>4, <2>5 DEF Work
<1>4. CASE \E w \in Worker : Work(w) \/ Fail(w) \/ WorkerLost(w)
  <2> HIDE DEF WindowOfJob
  <2> QED BY <1>1, <1>2, <1>3, <1>4, WorkKeeps
<1>5. CASE ~\E w \in Worker : Work(w) \/ Fail(w) \/ WorkerLost(w)
  <2>1. UNCHANGED job
    BY <1>5 DEF Next, vars, Tick, RunNow, Toggle, Delete, Create, Patch, Write, Redeliver
  <2> QED BY <2>1, <1>1
<1> QED BY <1>4, <1>5

\* A step into a state without edits and faults comes from one and touches no row.
LEMMA CalmStep ==
  ASSUME IInv, [Next]_vars, Calm'
  PROVE  /\ Calm /\ row' = row
         /\ \A s \in Schedule : lastRun'[s] >= lastRun[s]
         /\ UNCHANGED job \/ \E w \in Worker : Work(w)
<1>1. writes \in Nat /\ faults \in Nat
  BY DEF IInv, BoundTypes
<1>2. \/ /\ row' = row /\ writes' = writes /\ faults' = faults
         /\ UNCHANGED job \/ \E w \in Worker : Work(w)
      \/ writes' = writes + 1 \/ faults' = faults + 1
  <2>1. CASE Tick \/ (\E s \in Schedule : RunNow(s)) \/ UNCHANGED vars
    BY <2>1 DEF Tick, RunNow, vars, bounds
  <2>2. CASE \E w \in Worker : Work(w)
    <3>1. PICK w \in Worker : Work(w)
      BY <2>2
    <3>2. row' = row /\ bounds' = bounds
      BY <3>1 DEF Work, TakeBeat, TakeOnce, Consider, ConsiderGone, Claim, ClaimNothing, Commit,
         Mail, Finish
    <3> QED BY <2>2, <3>2 DEF bounds
  <2>3. CASE \/ \E s \in Schedule : Toggle(s) \/ Delete(s)
             \/ \E s \in Schedule, plan \in Plan : Create(s, plan) \/ Patch(s, plan)
             \/ \E w \in Worker : Fail(w) \/ WorkerLost(w) \/ Redeliver(w)
    BY <2>3 DEF Toggle, Delete, Create, Patch, Write, Fail, WorkerLost, Redeliver
  <2> QED BY <2>1, <2>2, <2>3 DEF Next
<1>3. Calm /\ row' = row /\ (UNCHANGED job \/ \E w \in Worker : Work(w))
  BY <1>1, <1>2 DEF Calm
<1>4. ASSUME NEW s \in Schedule PROVE lastRun'[s] >= lastRun[s]
  <2>1. lastRun[s] \in Int
    <3>1. lastRun[s] \in Time \/ lastRun[s] = -1
      BY DEF IInv, RowTypes
    <3> QED BY <3>1, HoursAreIntegers
  <2>2. CASE UNCHANGED lastRun
    BY <2>1, <2>2
  <2>3. CASE ~UNCHANGED lastRun
    <3>1. PICK w \in Worker :
            /\ current[w] \in Schedule /\ Claimable(current[w], from[w]) /\ from[w] <= asked[w]
            /\ lastRun' = [lastRun EXCEPT ![current[w]] = asked[w]]
      BY <2>3, MadeByCommit
    <3>2. asked[w] \in Int /\ from[w] \in Int /\ lastRun[current[w]] < from[w]
      <4>1. asked[w] \in Time /\ from[w] \in Int /\ lastRun[current[w]] < from[w]
        BY <3>1 DEF IInv, JobTypes, Claimable
      <4> QED BY <4>1, HoursAreIntegers
    <3>3. lastRun'[s] = IF s = current[w] THEN asked[w] ELSE lastRun[s]
      BY <3>1 DEF IInv, RowTypes
    <3> QED BY <2>1, <3>1, <3>2, <3>3
  <2> QED BY <2>2, <2>3
<1> QED BY <1>3, <1>4

LEMMA FreshStep == IInv /\ BInv /\ [Next]_vars => AllOn' /\ Fresh'
<1> SUFFICES ASSUME IInv, BInv, [Next]_vars, Calm' PROVE AllOn' /\ Fresh'
  BY DEF AllOn, Fresh
<1>1. Calm /\ row' = row /\ (UNCHANGED job \/ \E w \in Worker : Work(w))
  BY CalmStep
<1>2. /\ \A s \in Schedule : row[s] \in Row => row[s].enabled
      /\ \A v \in Worker, s \in Schedule : loaded[v][s] \in {Expired, row[s]}
  BY <1>1 DEF BInv, AllOn, Fresh
<1>3. AllOn'
  BY <1>1, <1>2 DEF AllOn
<1>4. CASE UNCHANGED job
  BY <1>1, <1>2, <1>3, <1>4 DEF Fresh, job
<1>5. ASSUME NEW w \in Worker, Work(w), NEW s \in Schedule
      PROVE  loaded'[w][s] \in {Expired, row[s]}
  <2>1. CASE TakeBeat(w)
    BY <2>1 DEF TakeBeat, IInv, JobTypes
  <2>2. ASSUME NEW u \in Schedule, TakeOnce(w, u) PROVE loaded'[w][s] \in {Expired, row[s]}
    <3>1. loaded' \in {loaded, [loaded EXCEPT ![w][u] = row[u]]}
      BY <2>2 DEF TakeOnce, job
    <3> QED BY <1>2, <3>1 DEF IInv, JobTypes
  <2>3. ASSUME NEW u \in Schedule, Consider(w, u) PROVE loaded'[w][s] \in {Expired, row[s]}
    <3>1. loaded' \in {loaded, [loaded EXCEPT ![w][u] = Seen(w, u)]}
      BY <2>3 DEF Consider
    <3>2. Seen(w, u) = row[u]
      BY <1>2 DEF Seen
    <3> QED BY <1>2, <3>1, <3>2 DEF IInv, JobTypes
  <2>4. CASE Claim(w)
    BY <1>2, <2>4 DEF Claim
  <2>5. CASE Commit(w)
    BY <2>5 DEF Commit, IInv, JobTypes, AllExpired
  <2>6. CASE \/ \E u \in Schedule : ConsiderGone(w, u)
             \/ ClaimNothing(w) \/ Mail(w) \/ Finish(w)
    <3>1. loaded'[w] \in {loaded[w], AllExpired}
      BY <2>6, EndResult, ForwardResult DEF ConsiderGone, ClaimNothing, Mail, Finish
    <3> QED BY <1>2, <3>1 DEF AllExpired
  <2> QED BY <1>5, <2>1, <2>2, <2>3, <2>4, <2>5, <2>6 DEF Work
<1>6. CASE \E w \in Worker : Work(w)
  <2>1. PICK w \in Worker : Work(w)
    BY <1>6
  <2>2. OthersKeep(w)
    BY <2>1, WorkKeeps
  <2> QED BY <1>1, <1>2, <1>3, <1>5, <2>1, <2>2 DEF Fresh, OthersKeep
<1> QED BY <1>1, <1>4, <1>6

\* What is served stays served.
LEMMA ServedStays ==
  ASSUME IInv, [Next]_vars, Calm', NEW w \in Worker, asked'[w] = asked[w], NEW s \in Schedule,
         Served(w, s)
  PROVE  Served(w, s)'
<1> SUFFICES ASSUME row'[s] \in Row, IsDue(row'[s].plan, asked'[w])
             PROVE  lastRun'[s] >= Cutoff(row'[s].plan, asked'[w])
  BY DEF Served, IsDue, Occurs, HourAt, DayAt, Cutoff, CutoffDay, LastOfPrevious
<1>1. row' = row /\ lastRun'[s] >= lastRun[s]
  BY CalmStep
<1>2. row[s].plan \in Plan /\ asked[w] \in Time
  BY <1>1 DEF Row, IInv, JobTypes
<1>3. HasWindow(row[s].plan, asked[w])
  BY <1>1, <1>2, DueHasWindow
<1>4. Cutoff(row[s].plan, asked[w]) \in Int
  BY <1>2, <1>3, CutoffRange
<1>5. lastRun[s] >= Cutoff(row[s].plan, asked[w])
  BY <1>1 DEF Served
<1>6. lastRun[s] \in Int /\ lastRun'[s] \in Int
  <2>1. (lastRun[s] \in Time \/ lastRun[s] = -1) /\ (lastRun'[s] \in Time \/ lastRun'[s] = -1)
    BY NextIInv DEF IInv, RowTypes
  <2> QED BY <2>1, HoursAreIntegers
<1>7. lastRun'[s] >= Cutoff(row[s].plan, asked[w])
  BY <1>1, <1>4, <1>5, <1>6
<1> QED BY <1>1, <1>7

\* The window a batch has in hand is the one its schedule is due for.
LEMMA InHand ==
  ASSUME IInv, BInv, Calm, NEW w \in Worker, pc[w] \in {"claim", "generate"}
  PROVE  /\ current[w] \in Schedule /\ row[current[w]] \in Row
         /\ from[w] = Cutoff(row[current[w]].plan, asked[w])
<1>1. current[w] \in Schedule
  BY DEF IInv, JobOK
<1>2. loaded[w][current[w]] = row[current[w]]
  <2>1. loaded[w][current[w]] \in Row /\ loaded[w][current[w]] \in {Expired, row[current[w]]}
    BY <1>1 DEF BInv, Windowed, Fresh
  <2>2. Expired \notin Row
    BY ActorAssumption DEF Row
  <2> QED BY <2>1, <2>2
<1> QED BY <1>1, <1>2 DEF BInv, Windowed

LEMMA BatchStep == IInv /\ BInv /\ [Next]_vars => BatchOK'
<1> SUFFICES ASSUME IInv, BInv, [Next]_vars, Calm' PROVE BatchOK'
  BY DEF BatchOK
<1>1. Calm /\ row' = row /\ (UNCHANGED job \/ \E w \in Worker : Work(w))
  BY CalmStep
<1>2. \A v \in Worker, s \in Schedule :
        pc[v] # "idle" /\ task[v] = Beat /\ Dropped(v, s) => Served(v, s)
  BY <1>1 DEF BInv, BatchOK
<1> DEFINE Settled(v, s) == pc[v] # "idle" /\ task[v] = Beat /\ Dropped(v, s) => Served(v, s)
<1>3. ASSUME NEW v \in Worker, NEW s \in Schedule,
             pc'[v] = pc[v], task'[v] = task[v], asked'[v] = asked[v], todo'[v] = todo[v],
             current'[v] = current[v]
      PROVE  Settled(v, s)'
  BY <1>2, <1>3, ServedStays DEF Dropped
<1>4. CASE UNCHANGED job
  BY <1>3, <1>4 DEF job, BatchOK
<1>5. ASSUME NEW w \in Worker, Work(w), ~UNCHANGED job, NEW s \in Schedule,
             pc'[w] # "idle", task'[w] = Beat, Dropped(w, s)'
      PROVE  Served(w, s)'
  <2>1. CASE TakeBeat(w)
    <3>1. todo'[w] = {u \in Schedule : row[u] \in Row /\ row[u].enabled} /\ pc'[w] = "next"
      BY <2>1 DEF TakeBeat, IInv, JobTypes
    <3>2. row[s] \notin Row
      BY <1>1, <1>5, <3>1 DEF Dropped, BInv, AllOn
    <3> QED BY <1>1, <3>2 DEF Served
  <2>2. CASE \E u \in Schedule : TakeOnce(w, u)
    <3>1. PICK u \in Schedule : TakeOnce(w, u)
      BY <2>2
    <3>2. task' = [task EXCEPT ![w] = u]
      BY <1>5, <3>1 DEF TakeOnce
    <3> QED BY <1>5, <3>2, ActorAssumption DEF IInv, JobTypes
  <2>3. ASSUME NEW u \in Schedule, Consider(w, u) PROVE Served(w, s)'
    <3> DEFINE plan == Seen(w, u).plan
    <3>1. Seen(w, u) = row[u] /\ row[u] \in Row /\ pc[w] = "next" /\ asked' = asked /\ task' = task
      BY <1>1, <2>3 DEF Seen, BInv, Fresh, Consider
    <3>2. CASE IsDue(plan, asked[w]) /\ HasWindow(plan, asked[w])
      <4>1. pc' = [pc EXCEPT ![w] = "claim"] /\ todo' = todo
        BY <2>3, <3>2 DEF Consider
      <4>2. s \notin todo[w]
        BY <1>5, <4>1 DEF Dropped, IInv, JobTypes
      <4> QED BY <1>2, <1>5, <3>1, <4>2, ServedStays DEF Dropped
    <3>3. CASE ~(IsDue(plan, asked[w]) /\ HasWindow(plan, asked[w]))
      <4>1. pc' = pc /\ todo' = [todo EXCEPT ![w] = @ \ {u}]
        BY <2>3, <3>3 DEF Consider
      <4>2. s = u \/ s \notin todo[w]
        BY <1>5, <3>1, <4>1 DEF Dropped, IInv, JobTypes
      <4>3. CASE s = u
        <5>1. plan \in Plan /\ asked[w] \in Time
          BY <3>1 DEF Row, IInv, JobTypes
        <5>2. ~IsDue(row[s].plan, asked[w])
          BY <3>1, <3>3, <4>3, <5>1, DueHasWindow
        <5>3. Served(w, s)
          BY <5>2 DEF Served
        <5> QED BY <3>1, <5>3, ServedStays
      <4>4. CASE s \notin todo[w]
        BY <1>2, <1>5, <3>1, <4>4, ServedStays DEF Dropped
      <4> QED BY <4>2, <4>3, <4>4
    <3> QED BY <3>2, <3>3
  <2>4. CASE Claim(w)
    <3>1. pc[w] = "claim" /\ pc'[w] = "generate" /\ UNCHANGED <<task, asked, todo, current>>
      BY <2>4 DEF Claim, IInv, JobTypes
    <3>2. s \notin todo[w]
      BY <1>5, <3>1 DEF Dropped
    <3> QED BY <1>2, <1>5, <3>1, <3>2, ServedStays DEF Dropped
  <2>5. CASE Commit(w)
    <3>1. /\ pc[w] = "generate" /\ UNCHANGED <<task, asked, todo, current>>
          /\ lastRun' = [lastRun EXCEPT ![current[w]] = asked[w]]
      BY <2>5 DEF Commit
    <3>2. /\ current[w] \in Schedule /\ row[current[w]] \in Row
          /\ from[w] = Cutoff(row[current[w]].plan, asked[w]) /\ from[w] <= asked[w]
      BY <1>1, <3>1, InHand DEF IInv, JobOK
    <3>3. CASE s = current[w]
      <4>1. lastRun'[s] = asked[w] /\ asked[w] \in Int /\ from[w] \in Int
        BY <3>1, <3>3, HoursAreIntegers DEF IInv, RowTypes, JobTypes
      <4>2. lastRun'[s] >= Cutoff(row[s].plan, asked[w])
        BY <3>2, <3>3, <4>1
      <4>3. row'[s] = row[s] /\ asked'[w] = asked[w]
        BY <1>1, <3>1
      <4> QED BY <4>2, <4>3 DEF Served
    <3>4. CASE s # current[w]
      <4>1. s \notin todo[w]
        BY <1>5, <3>1, <3>4 DEF Dropped
      <4> QED BY <1>2, <1>5, <3>1, <4>1, ServedStays DEF Dropped
    <3> QED BY <3>3, <3>4
  <2>6. CASE \E u \in Schedule : ConsiderGone(w, u) \/ Finish(w)
    BY <1>5, <2>6, EndResult DEF ConsiderGone, Finish
  <2>7. CASE ClaimNothing(w) \/ Mail(w)
    <3>1. /\ pc'[w] = "next" /\ task[w] = Beat /\ pc[w] # "idle"
          /\ todo'[w] = todo[w] \ {current[w]} /\ asked'[w] = asked[w]
      BY <1>5, <2>7, EndResult, ForwardResult DEF ClaimNothing, Mail
    <3>2. s \notin todo[w] \/ s = current[w]
      BY <1>5, <3>1 DEF Dropped
    <3>3. CASE s \notin todo[w]
      BY <1>2, <1>5, <3>1, <3>3, ServedStays DEF Dropped
    <3>4. CASE s = current[w] /\ Mail(w)
      <4>1. pc[w] = "mail"
        BY <3>4 DEF Mail
      <4> QED BY <1>2, <3>1, <3>4, <4>1, ServedStays DEF Dropped
    <3>5. CASE s = current[w] /\ ClaimNothing(w)
      <4>1. pc[w] = "claim" /\ ~Claimable(s, from[w])
        BY <3>5 DEF ClaimNothing
      <4>2. row[s] \in Row /\ from[w] = Cutoff(row[s].plan, asked[w]) /\ from[w] \in Int
        BY <1>1, <3>5, <4>1, InHand DEF IInv, JobTypes
      <4>3. row[s].enabled
        BY <1>1, <4>2 DEF BInv, AllOn
      <4>4. lastRun[s] \in Int
        <5>1. lastRun[s] \in Time \/ lastRun[s] = -1
          BY DEF IInv, RowTypes
        <5> QED BY <5>1, HoursAreIntegers
      <4>5. lastRun[s] >= from[w]
        BY <4>1, <4>2, <4>3, <4>4 DEF Claimable
      <4>6. Served(w, s)
        BY <4>2, <4>5 DEF Served
      <4> QED BY <3>1, <4>6, ServedStays
    <3> QED BY <2>7, <3>2, <3>3, <3>4, <3>5
  <2> QED BY <1>5, <2>1, <2>2, <2>3, <2>4, <2>5, <2>6, <2>7 DEF Work
<1>6. ASSUME NEW w \in Worker, Work(w), ~UNCHANGED job, NEW v \in Worker, NEW s \in Schedule
      PROVE  Settled(v, s)'
  <2>1. CASE v = w
    BY <1>5, <1>6, <2>1
  <2>2. CASE v # w
    BY <1>3, <1>6, <2>2, WorkKeeps DEF OthersKeep
  <2> QED BY <2>1, <2>2
<1>7. BatchOK' <=> \A v \in Worker, s \in Schedule : Settled(v, s)'
  BY DEF BatchOK
<1> HIDE DEF Settled
<1> QED BY <1>1, <1>4, <1>6, <1>7

LEMMA WindowInvariance == Spec => []BInv
<1>1. Init => BInv
  BY InitBInv
<1>2. IInv /\ BInv /\ [Next]_vars => BInv'
  BY WindowedStep, FreshStep, BatchStep DEF BInv
<1> QED BY <1>1, <1>2, Invariance, PTL DEF Spec

\* Whatever calendar, plan and interleaving: the window a worker is about to claim opens at
\* midnight of the latest day, not after the hour it asked, that its plan names.
THEOREM LatestWindow == Spec => []WindowIsLatest
<1>1. IInv /\ BInv => WindowIsLatest
  <2> SUFFICES ASSUME IInv, BInv, NEW w \in Worker, pc[w] = "claim",
                      NEW plan, plan = loaded[w][current[w]].plan,
                      NEW d, d = from[w] \div DayLength
               PROVE  /\ Occurs(plan, d) /\ HourAt(from[w]) = 0 /\ d <= DayAt(asked[w])
                      /\ \A e \in (d + 1)..DayAt(asked[w]) : ~Occurs(plan, e)
    BY DEF WindowIsLatest
  <2> DEFINE c == CutoffDay(plan, DayAt(asked[w]))
  <2>1. /\ plan \in Plan /\ asked[w] \in Time /\ HasWindow(plan, asked[w])
        /\ from[w] = c * DayLength
    BY DEF BInv, Windowed, Row, Cutoff, IInv, JobTypes
  <2> HIDE DEF c
  <2>2. /\ c \in Int /\ c <= DayAt(asked[w]) /\ Occurs(plan, c)
        /\ \A e \in (c + 1)..DayAt(asked[w]) : ~Occurs(plan, e)
    BY <2>1, WindowDay DEF c
  <2>3. d = c /\ HourAt(from[w]) = 0
    BY <2>1, <2>2, FirstHour
  <2> QED BY <2>2, <2>3
<1> QED BY <1>1, Invariance, WindowInvariance, PTL

\* A batch that ran without faults and edits has served every schedule that was due.
THEOREM BatchesServeAll == Spec => BatchServesAll
<1>1. IInv /\ BInv /\ [Next]_vars =>
        [\A w \in Worker : Finish(w) /\ faults = 0 /\ writes = 0 =>
           \A s \in Schedule : row[s] \in Row /\ IsDue(row[s].plan, asked[w])
             => lastRun[s] >= Cutoff(row[s].plan, asked[w])]_vars
  <2> SUFFICES ASSUME IInv, BInv, NEW w \in Worker, Finish(w), faults = 0, writes = 0,
                      NEW s \in Schedule
               PROVE  row[s] \in Row /\ IsDue(row[s].plan, asked[w])
                        => lastRun[s] >= Cutoff(row[s].plan, asked[w])
    OBVIOUS
  <2>1. pc[w] = "next" /\ todo[w] = {} /\ task[w] = Beat
    BY DEF Finish, BInv, Batches
  <2>2. Served(w, s)
    BY <2>1 DEF BInv, BatchOK, Dropped, Calm
  <2> QED BY <2>2 DEF Served
<1> QED BY <1>1, Invariance, WindowInvariance, PTL DEF Spec, BatchServesAll
==============================================================================
