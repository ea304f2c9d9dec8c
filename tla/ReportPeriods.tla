--------------------------- MODULE ReportPeriods ---------------------------
(***************************************************************************)
(* What scheduled reports promise: each report opens a window of its own,  *)
(* later than every window of the same schedule that already has one.      *)
(***************************************************************************)
EXTENDS Integers, Sequences

CONSTANTS
  Schedule,
  Time           \* hours

VARIABLES
  last,          \* hour the latest report of a schedule was asked for; -1 if none
  made           \* per schedule, the [from, at] of its reports in order

vars == <<last, made>>

Init ==
  /\ last = [s \in Schedule |-> -1]
  /\ made = [s \in Schedule |-> << >>]

\* A report for the window that opened at `from`, asked for at `at`.
Make(s, from, at) ==
  /\ last[s] < from /\ from <= at
  /\ last' = [last EXCEPT ![s] = at]
  /\ made' = [made EXCEPT ![s] = Append(@, [from |-> from, at |-> at])]

Next == \E s \in Schedule, from \in Time, at \in Time : Make(s, from, at)

Spec == Init /\ [][Next]_vars
=============================================================================
