-------------------------- MODULE PlaybookLifecycle --------------------------
(***************************************************************************)
(* What a churn playbook execution promises the person who asked for it,   *)
(* whatever brokers, workers and reapers do: its actions are dispatched in *)
(* order, each at most once and only after it started, it ends in one      *)
(* outcome that never changes, and it is reported done only when the whole *)
(* sequence was gone through.  One step may move several executions (a     *)
(* batch, a reaper's UPDATE), each by one move of its own life.            *)
(***************************************************************************)
EXTENDS Integers

CONSTANTS Exec, Steps   \* executions; length of the action sequence

VARIABLES
  status,        \* status[e]
  attempted      \* attempted[e][i]: times the i-th action of e was dispatched

Init ==
  /\ status = [e \in Exec |-> "none"]
  /\ attempted = [e \in Exec |-> [i \in 1..Steps |-> 0]]

Same(e) == attempted'[e] = attempted[e]

Request(e) == status[e] = "none" /\ status'[e] = "queued" /\ Same(e)

Start(e) == status[e] = "queued" /\ status'[e] = "running" /\ Same(e)

\* A purge may take the row away under the worker that runs it.
Act(e, i) ==
  /\ status[e] \in {"running", "purged"}
  /\ \A j \in 1..Steps : attempted[e][j] = IF j < i THEN 1 ELSE 0
  /\ attempted'[e] = [attempted[e] EXCEPT ![i] = 1]
  /\ status'[e] = status[e]

Drop(e) == /\ status[e] = "queued"
           /\ status'[e] \in {"cancelled", "failed"}
           /\ Same(e)

Fail(e) == status[e] = "running" /\ status'[e] = "failed" /\ Same(e)

Complete(e) ==
  /\ status[e] = "running"
  /\ \A i \in 1..Steps : attempted[e][i] = 1
  /\ status'[e] = "done"
  /\ Same(e)

Purge(e) == status[e] # "none" /\ status'[e] = "purged" /\ Same(e)

Move(e) == \/ Request(e) \/ Start(e) \/ Drop(e) \/ Fail(e) \/ Complete(e) \/ Purge(e)
           \/ \E i \in 1..Steps : Act(e, i)

Next == \A e \in Exec : Move(e) \/ (status'[e] = status[e] /\ Same(e))

Spec == Init /\ [][Next]_<<status, attempted>>
==============================================================================
