-------------------------- MODULE PlaybookExecution --------------------------
(***************************************************************************)
(* Life of the rows of churn_playbook_executions: the routes that create   *)
(* and dispatch them, the Celery broker that carries run_playbook(id), the *)
(* workers that run playbook_engine.execute, and the beat tasks that reap  *)
(* and purge.  One action is one database round trip or one broker call,   *)
(* so workers, routes and reaper interleave as they do in PostgreSQL's     *)
(* READ COMMITTED.                                                         *)
(*                                                                         *)
(* Time is discrete and relative: `age` and `sinceStart` count ticks since *)
(* created_at and started_at and stop at a cap above every threshold.      *)
(***************************************************************************)
EXTENDS Integers, FiniteSets

CONSTANTS
  Exec,          \* execution ids
  Target,        \* (playbook_id, customer_email) pairs
  Worker,        \* Celery worker processes
  NoExec,        \* what an idle worker holds
  Steps,         \* length of a playbook's action_sequence
  TimeLimit,     \* task_time_limit, in ticks
  QueuedStale,   \* QUEUED_STALE_MINUTES
  QueuedExpiry,  \* QUEUED_MAX_REDISPATCH_HOURS
  RunningStale,  \* RUNNING_STALE_HOURS
  RateWindow,    \* _RATE_LIMIT_MINUTES
  Retention,     \* EXECUTION_RETENTION_DAYS
  ReapBatch,     \* REAP_BATCH_LIMIT
  MaxInFlight    \* bound of the model: messages per execution id

ASSUME ExecAssumption == NoExec \notin Exec

\* celery_app.py and config.py: a task lives at most 10 minutes, and only a
\* row that has been running for over an hour is presumed dead.
ASSUME TimeAssumption ==
  /\ {TimeLimit, QueuedStale, QueuedExpiry, RunningStale, RateWindow,
      Retention, Steps, ReapBatch, MaxInFlight} \subseteq Nat
  /\ TimeLimit <= RunningStale
  /\ RateWindow <= RunningStale
  /\ QueuedExpiry <= Retention

VARIABLES
  status,        \* status column, "none" before the row exists, "purged" after
  target,        \* playbook_id and customer_email columns
  age,           \* ticks since created_at
  sinceStart,    \* ticks since started_at; StartCap when it never started
  attempted,     \* attempted[e][i]: times the i-th action of e was dispatched
  unpublished,   \* rows whose creator has committed and not yet dispatched
  queue,         \* run_playbook(e) messages at the broker
  pc, job,       \* what each worker does, and on which execution
  busy,          \* ticks since the worker received its message
  step, ok,      \* actions of the sequence done, and whether one succeeded
  reaper,        \* phase of reap_stale_executions
  reapAge,       \* ticks since the reaper computed `now`
  expiredIds, staleIds, redispatchIds   \* the id lists it selected

rowVars    == <<status, target, age, sinceStart, attempted>>
brokerVars == <<unpublished, queue>>
workerVars == <<pc, job, busy, step, ok>>
reaperVars == <<reaper, reapAge, expiredIds, staleIds, redispatchIds>>
vars == <<rowVars, brokerVars, workerVars, reaperVars>>

Status   == {"none", "queued", "running", "done", "failed", "cancelled", "purged"}
Terminal == {"done", "failed", "cancelled"}
Row      == {e \in Exec : status[e] \notin {"none", "purged"}}
Pc       == {"idle", "load", "check", "cancel", "claim", "prepare", "act"}
Phase    == {"idle", "stale", "fail", "select", "publish"}

AgeCap   == Retention + TimeLimit + 1
StartCap == RunningStale + TimeLimit + 1
Older(n, cap) == IF n < cap THEN n + 1 ELSE n

RowsOK ==
  /\ status \in [Exec -> Status]
  /\ target \in [Exec -> Target]
  /\ age \in [Exec -> 0..AgeCap]
  /\ sinceStart \in [Exec -> 0..StartCap]
  /\ attempted \in [Exec -> [1..Steps -> Nat]]

BrokerOK == unpublished \subseteq Exec /\ queue \in [Exec -> Nat]

WorkersOK ==
  /\ pc \in [Worker -> Pc]
  /\ job \in [Worker -> Exec \cup {NoExec}]
  /\ busy \in [Worker -> 0..TimeLimit]
  /\ step \in [Worker -> 0..Steps]
  /\ ok \in [Worker -> BOOLEAN]

ReaperOK ==
  /\ reaper \in Phase
  /\ reapAge \in 0..TimeLimit
  /\ expiredIds \subseteq Exec
  /\ staleIds \subseteq Exec
  /\ redispatchIds \subseteq Exec

TypeOK == RowsOK /\ BrokerOK /\ WorkersOK /\ ReaperOK

Init ==
  /\ status = [e \in Exec |-> "none"]
  /\ target \in [Exec -> Target]
  /\ age = [e \in Exec |-> 0]
  /\ sinceStart = [e \in Exec |-> StartCap]
  /\ attempted = [e \in Exec |-> [i \in 1..Steps |-> 0]]
  /\ unpublished = {}
  /\ queue = [e \in Exec |-> 0]
  /\ pc = [w \in Worker |-> "idle"]
  /\ job = [w \in Worker |-> NoExec]
  /\ busy = [w \in Worker |-> 0]
  /\ step = [w \in Worker |-> 0]
  /\ ok = [w \in Worker |-> FALSE]
  /\ reaper = "idle"
  /\ reapAge = 0
  /\ expiredIds = {}
  /\ staleIds = {}
  /\ redispatchIds = {}

------------------------------------------------------------------------------
(* Creation and dispatch: routes/playbooks.py, automation engine, triggers. *)

\* One manual run or automation action is a singleton; run-batch commits one
\* row per matched customer in one transaction.
Create(batch) ==
  /\ batch # {}
  /\ \A e \in batch : status[e] = "none"
  /\ \A e, f \in batch : e # f => target[e] # target[f]
  /\ status' = [e \in Exec |-> IF e \in batch THEN "queued" ELSE status[e]]
  /\ unpublished' = unpublished \cup batch
  /\ UNCHANGED <<target, age, sinceStart, attempted, queue, workerVars, reaperVars>>

InFlight(e) == queue[e] + Cardinality({w \in Worker : job[w] = e})
Enqueue(e)  == /\ InFlight(e) < MaxInFlight
               /\ queue' = [queue EXCEPT ![e] = @ + 1]

Dispatch(e) ==
  /\ e \in unpublished
  /\ unpublished' = unpublished \ {e}
  /\ Enqueue(e)
  /\ UNCHANGED <<rowVars, workerVars, reaperVars>>

\* The publish raises, which the route logs and swallows, or the API process
\* dies between its commit and the publish.
DispatchLost(e) ==
  /\ e \in unpublished
  /\ unpublished' = unpublished \ {e}
  /\ UNCHANGED <<queue, rowVars, workerVars, reaperVars>>

\* visibility_timeout: Redis hands out again a message that a worker fetched and
\* has not acknowledged for an hour, even one whose turn has come meanwhile.
Redeliver(e) ==
  /\ InFlight(e) > 0
  /\ Enqueue(e)
  /\ UNCHANGED <<unpublished, rowVars, workerVars, reaperVars>>

------------------------------------------------------------------------------
(* The worker: tasks.churn_playbooks.run_playbook and playbook_engine.      *)

Release(w) ==
  /\ pc'   = [pc EXCEPT ![w] = "idle"]
  /\ job'  = [job EXCEPT ![w] = NoExec]
  /\ busy' = [busy EXCEPT ![w] = 0]
  /\ step' = [step EXCEPT ![w] = 0]
  /\ ok'   = [ok EXCEPT ![w] = FALSE]

Goto(w, label) ==
  /\ pc' = [pc EXCEPT ![w] = label]
  /\ UNCHANGED <<job, busy, step, ok>>

Deliver(w, e) ==
  /\ pc[w] = "idle"
  /\ queue[e] > 0
  /\ queue' = [queue EXCEPT ![e] = @ - 1]
  /\ pc' = [pc EXCEPT ![w] = "load"]
  /\ job' = [job EXCEPT ![w] = e]
  /\ UNCHANGED <<busy, step, ok, unpublished, rowVars, reaperVars>>

\* The idempotency guard: a missing row or one not queued is skipped.
Load(w) ==
  /\ pc[w] = "load"
  /\ IF status[job[w]] = "queued" THEN Goto(w, "check") ELSE Release(w)
  /\ UNCHANGED <<rowVars, brokerVars, reaperVars>>

\* Mutated form of RateLimited: a run still under way does not count.
RateLimitedByDoneOnly(e) ==
  \E f \in Exec \ {e} : /\ target[f] = target[e]
                        /\ age[f] <= RateWindow
                        /\ status[f] = "done"

RateLimited(e) ==
  \E f \in Exec \ {e} : /\ target[f] = target[e]
                        /\ age[f] <= RateWindow
                        /\ status[f] \in {"done", "running"}

CheckRate(w) ==
  /\ pc[w] = "check"
  /\ Goto(w, IF RateLimited(job[w]) THEN "cancel" ELSE "claim")
  /\ UNCHANGED <<rowVars, brokerVars, reaperVars>>

\* UPDATE ... WHERE id = :id AND status = 'queued', committed.
TransitionFromQueued(e, new) ==
  status' = IF status[e] = "queued" THEN [status EXCEPT ![e] = new] ELSE status

Cancel(w) ==
  /\ pc[w] = "cancel"
  /\ TransitionFromQueued(job[w], "cancelled")
  /\ Release(w)
  /\ UNCHANGED <<target, age, sinceStart, attempted, brokerVars, reaperVars>>

\* Mutated form of Claim: the read-then-write guard the conditional UPDATE replaced.
ClaimAnyway(w) ==
  /\ pc[w] = "claim"
  /\ status' = [status EXCEPT ![job[w]] = "running"]
  /\ sinceStart' = [sinceStart EXCEPT ![job[w]] = 0]
  /\ Goto(w, "prepare")
  /\ UNCHANGED <<target, age, attempted, brokerVars, reaperVars>>

Claim(w) ==
  /\ pc[w] = "claim"
  /\ TransitionFromQueued(job[w], "running")
  /\ IF status[job[w]] = "queued"
     THEN /\ sinceStart' = [sinceStart EXCEPT ![job[w]] = 0]
          /\ Goto(w, "prepare")
     ELSE /\ UNCHANGED sinceStart
          /\ Release(w)
  /\ UNCHANGED <<target, age, attempted, brokerVars, reaperVars>>

\* Load the playbook and the customer's health row; when either is missing
\* the run goes straight to finalization with nothing succeeded.
Prepare(w) ==
  /\ pc[w] = "prepare"
  /\ pc' = [pc EXCEPT ![w] = "act"]
  /\ \E found \in BOOLEAN :
       step' = IF found THEN step ELSE [step EXCEPT ![w] = Steps]
  /\ UNCHANGED <<job, busy, ok, rowVars, brokerVars, reaperVars>>

\* One action of the sequence; a failing handler is logged and the loop goes on.
RunAction(w) ==
  /\ pc[w] = "act"
  /\ step[w] < Steps
  /\ step' = [step EXCEPT ![w] = @ + 1]
  /\ attempted' = [attempted EXCEPT ![job[w]][step[w] + 1] = @ + 1]
  /\ \E good \in BOOLEAN : ok' = [ok EXCEPT ![w] = @ \/ good]
  /\ UNCHANGED <<pc, job, busy, status, target, age, sinceStart, brokerVars, reaperVars>>

\* The ORM writes the loaded row back by primary key, whatever its status now.
WriteBack(e, new) ==
  status' = IF e \in Row THEN [status EXCEPT ![e] = new] ELSE status

\* Mutated form of Finalize: the run is over once an action succeeded.
FinalizeEarly(w) ==
  /\ pc[w] = "act"
  /\ step[w] = Steps \/ ok[w]
  /\ WriteBack(job[w], IF ok[w] THEN "done" ELSE "failed")
  /\ Release(w)
  /\ UNCHANGED <<target, age, sinceStart, attempted, brokerVars, reaperVars>>

Finalize(w) ==
  /\ pc[w] = "act"
  /\ step[w] = Steps
  /\ WriteBack(job[w], IF ok[w] THEN "done" ELSE "failed")
  /\ Release(w)
  /\ UNCHANGED <<target, age, sinceStart, attempted, brokerVars, reaperVars>>

\* execute() raises past the loop: a malformed action entry leaves the session
\* usable and the handler marks the row failed.
Raise(w) ==
  /\ pc[w] = "act"
  /\ WriteBack(job[w], "failed")
  /\ Release(w)
  /\ UNCHANGED <<target, age, sinceStart, attempted, brokerVars, reaperVars>>

\* A database error leaves the session unusable: the handler's own query
\* raises too, nothing is written, and the message is acknowledged all the same.
RaiseUnmarked(w) ==
  /\ pc[w] # "idle"
  /\ Release(w)
  /\ UNCHANGED <<rowVars, brokerVars, reaperVars>>

\* The claim commits but the connection drops before the worker learns of it.
ClaimAckLost(w) ==
  /\ pc[w] = "claim"
  /\ status[job[w]] = "queued"
  /\ status' = [status EXCEPT ![job[w]] = "running"]
  /\ sinceStart' = [sinceStart EXCEPT ![job[w]] = 0]
  /\ Release(w)
  /\ UNCHANGED <<target, age, attempted, brokerVars, reaperVars>>

\* task_acks_late with task_reject_on_worker_lost: the message goes back.
WorkerLost(w) ==
  /\ pc[w] # "idle"
  /\ queue' = [queue EXCEPT ![job[w]] = @ + 1]
  /\ Release(w)
  /\ UNCHANGED <<rowVars, unpublished, reaperVars>>

\* task_time_limit: the process is killed and the message acknowledged.
TimeLimitKill(w) ==
  /\ busy[w] = TimeLimit
  /\ RaiseUnmarked(w)

WorkerStep(w) ==
  \/ Load(w) \/ CheckRate(w) \/ Cancel(w) \/ Claim(w)
  \/ Prepare(w) \/ RunAction(w) \/ Finalize(w) \/ TimeLimitKill(w)

WorkerFails(w) == Raise(w) \/ RaiseUnmarked(w) \/ ClaimAckLost(w) \/ WorkerLost(w)

------------------------------------------------------------------------------
(* The beat tasks: reap_stale_executions and purge_old_executions.          *)

\* ORDER BY ... LIMIT: the oldest `ReapBatch` members, ties in any order.
Oldest(ids, since) ==
  {chosen \in SUBSET ids :
     /\ Cardinality(chosen) <= ReapBatch
     /\ chosen # ids => Cardinality(chosen) = ReapBatch
     /\ \A e \in chosen, f \in ids \ chosen : since[e] >= since[f]}

\* Every cutoff is relative to the `now` the reaper computed when it began.
SelectExpired ==
  /\ reaper = "idle"
  /\ reaper' = "stale"
  /\ expiredIds' \in Oldest({e \in Exec : /\ status[e] = "queued"
                                          /\ age[e] > QueuedExpiry}, age)
  /\ UNCHANGED <<reapAge, staleIds, redispatchIds, rowVars, brokerVars, workerVars>>

\* Mutated form of SelectStale: staleness measured from created_at.
SelectStaleByCreation ==
  /\ reaper = "stale"
  /\ reaper' = "fail"
  /\ staleIds' \in Oldest({e \in Exec : /\ status[e] = "running"
                                        /\ age[e] - reapAge > RunningStale}, age)
  /\ UNCHANGED <<reapAge, expiredIds, redispatchIds, rowVars, brokerVars, workerVars>>

\* Mutated form of SelectStale: no row is ever presumed abandoned.
SelectNoStale ==
  /\ reaper = "stale"
  /\ reaper' = "fail"
  /\ staleIds' = {}
  /\ UNCHANGED <<reapAge, expiredIds, redispatchIds, rowVars, brokerVars, workerVars>>

SelectStale ==
  /\ reaper = "stale"
  /\ reaper' = "fail"
  /\ staleIds' \in Oldest({e \in Exec : /\ status[e] = "running"
                                        /\ sinceStart[e] - reapAge > RunningStale},
                          sinceStart)
  /\ UNCHANGED <<reapAge, expiredIds, redispatchIds, rowVars, brokerVars, workerVars>>

\* Mutated form of FailSelected: the UPDATE trusts the ids it selected.
FailSelectedAnyway ==
  /\ reaper = "fail"
  /\ reaper' = "select"
  /\ status' = [e \in Exec |-> IF e \in expiredIds \cup staleIds THEN "failed"
                                                                ELSE status[e]]
  /\ expiredIds' = {}
  /\ staleIds' = {}
  /\ UNCHANGED <<target, age, sinceStart, attempted, reapAge, redispatchIds,
                 brokerVars, workerVars>>

\* Both conditional UPDATEs become visible at the commit; the rows they match
\* stay locked from the UPDATE to the commit, so the two are one step.
FailSelected ==
  /\ reaper = "fail"
  /\ reaper' = "select"
  /\ status' = [e \in Exec |->
       IF \/ e \in expiredIds /\ status[e] = "queued"
          \/ e \in staleIds /\ status[e] = "running"
       THEN "failed" ELSE status[e]]
  /\ expiredIds' = {}
  /\ staleIds' = {}
  /\ UNCHANGED <<target, age, sinceStart, attempted, reapAge, redispatchIds,
                 brokerVars, workerVars>>

SelectRedispatch ==
  /\ reaper = "select"
  /\ reaper' = "publish"
  /\ redispatchIds' \in Oldest({e \in Exec : /\ status[e] = "queued"
                                             /\ age[e] - reapAge > QueuedStale
                                             /\ age[e] - reapAge <= QueuedExpiry}, age)
  /\ UNCHANGED <<reapAge, expiredIds, staleIds, rowVars, brokerVars, workerVars>>

Republish(e) ==
  /\ reaper = "publish"
  /\ e \in redispatchIds
  /\ redispatchIds' = redispatchIds \ {e}
  /\ Enqueue(e)
  /\ UNCHANGED <<reaper, reapAge, expiredIds, staleIds, unpublished, rowVars, workerVars>>

\* A failed re-publish is logged; the next run selects the row again.
RepublishLost(e) ==
  /\ reaper = "publish"
  /\ e \in redispatchIds
  /\ redispatchIds' = redispatchIds \ {e}
  /\ UNCHANGED <<reaper, reapAge, expiredIds, staleIds, rowVars, brokerVars, workerVars>>

ReaperReset ==
  /\ reaper' = "idle"
  /\ reapAge' = 0
  /\ expiredIds' = {}
  /\ staleIds' = {}
  /\ redispatchIds' = {}
  /\ UNCHANGED <<rowVars, brokerVars, workerVars>>

ReaperDone == reaper = "publish" /\ redispatchIds = {} /\ ReaperReset

\* The reaper is a Celery task itself: its process dies or meets the time limit.
ReaperLost == reaper # "idle" /\ ReaperReset

ReaperStep == \/ SelectExpired \/ SelectStale \/ FailSelected
              \/ SelectRedispatch \/ ReaperDone
              \/ \E e \in Exec : RepublishLost(e)

Purge ==
  /\ \E e \in Row : age[e] > Retention
  /\ status' = [e \in Exec |->
       IF e \in Row /\ age[e] > Retention THEN "purged" ELSE status[e]]
  /\ UNCHANGED <<target, age, sinceStart, attempted, brokerVars, workerVars, reaperVars>>

------------------------------------------------------------------------------
\* Mutated form of Tick: no task_time_limit, a task may run on for ever.
TickUnlimited ==
  /\ age' = [e \in Exec |-> IF e \in Row THEN Older(age[e], AgeCap) ELSE age[e]]
  /\ sinceStart' = [e \in Exec |->
       IF e \in Row THEN Older(sinceStart[e], StartCap) ELSE sinceStart[e]]
  /\ busy' = [w \in Worker |-> IF pc[w] # "idle" THEN busy[w] + 1 ELSE 0]
  /\ reapAge' = IF reaper # "idle" THEN reapAge + 1 ELSE 0
  /\ UNCHANGED <<status, target, attempted, brokerVars, pc, job, step, ok, reaper,
                 expiredIds, staleIds, redispatchIds>>

Tick ==
  /\ \A w \in Worker : pc[w] # "idle" => busy[w] < TimeLimit
  /\ reaper # "idle" => reapAge < TimeLimit
  /\ age' = [e \in Exec |-> IF e \in Row THEN Older(age[e], AgeCap) ELSE age[e]]
  /\ sinceStart' = [e \in Exec |->
       IF e \in Row THEN Older(sinceStart[e], StartCap) ELSE sinceStart[e]]
  /\ busy' = [w \in Worker |-> IF pc[w] # "idle" THEN busy[w] + 1 ELSE 0]
  /\ reapAge' = IF reaper # "idle" THEN reapAge + 1 ELSE 0
  /\ UNCHANGED <<status, target, attempted, brokerVars, pc, job, step, ok, reaper,
                 expiredIds, staleIds, redispatchIds>>

Next ==
  \/ \E batch \in SUBSET Exec : Create(batch)
  \/ \E e \in Exec : Dispatch(e) \/ DispatchLost(e) \/ Redeliver(e) \/ Republish(e)
  \/ \E w \in Worker, e \in Exec : Deliver(w, e)
  \/ \E w \in Worker : WorkerStep(w) \/ WorkerFails(w)
  \/ ReaperStep \/ ReaperLost \/ Purge \/ Tick

Spec == Init /\ [][Next]_vars

\* Beat keeps firing and a started task keeps stepping until it ends or is
\* killed; the broker, the routes and the users owe nothing.  A reaper may be
\* lost over and over, but not every single time.
Fairness ==
  /\ WF_vars(Tick)
  /\ WF_vars(SelectExpired)
  /\ SF_vars(SelectStale)
  /\ SF_vars(FailSelected)
  /\ WF_vars(ReaperStep)
  /\ \A w \in Worker : WF_vars(WorkerStep(w))

FairSpec == Spec /\ Fairness

------------------------------------------------------------------------------
(* Properties                                                               *)

\* No action of an execution is ever dispatched twice, whatever deliveries,
\* redeliveries, reaper re-publishes and crashes do (actions are not idempotent).
ActionsAtMostOnce == \A e \in Exec, i \in 1..Steps : attempted[e][i] <= 1

Holds(w, e) == pc[w] \in {"prepare", "act"} /\ job[w] = e

\* A worker that runs an execution's actions still owns its row: the reaper
\* never fails a live run, and no second worker claims it.
LiveRunKeepsRow ==
  \A w \in Worker, e \in Exec :
    Holds(w, e) => /\ status[e] \in {"running", "purged"}
                   /\ \A v \in Worker : Holds(v, e) => v = w

\* The inductive invariant behind the three safety properties.
WorkerHasJob == \A w \in Worker : pc[w] # "idle" => job[w] \in Exec

NoProgressYet ==
  /\ \A w \in Worker : pc[w] # "act" => step[w] = 0 /\ ~ok[w]
  /\ \A e \in Exec, i \in 1..Steps : status[e] \in {"none", "queued"} => attempted[e][i] = 0

\* The row of a live run cannot look abandoned: it started after its task did,
\* and the task's own time is limited.
LiveRunIsYoung ==
  \A w \in Worker, e \in Exec :
    Holds(w, e) /\ status[e] = "running" => sinceStart[e] <= busy[w]

\* A holder has dispatched exactly the actions before its step, each once.
HolderProgress ==
  \A w \in Worker, e \in Exec :
    Holds(w, e) /\ (step[w] < Steps \/ ok[w]) =>
      \A i \in 1..Steps : attempted[e][i] = IF i <= step[w] THEN 1 ELSE 0

\* What the reaper has selected as abandoned stays abandoned.
StaleIdsAbandoned ==
  \A e \in staleIds : /\ status[e] \notin {"none", "queued"}
                      /\ \A w \in Worker : ~Holds(w, e)

IInv == /\ TypeOK /\ WorkerHasJob /\ NoProgressYet /\ LiveRunKeepsRow /\ LiveRunIsYoung
        /\ HolderProgress /\ StaleIdsAbandoned /\ ActionsAtMostOnce

\* A settled row is never rewritten, only purged: no late finalization
\* overwrites what the reaper or another worker decided.
TerminalIsFinal ==
  [][\A e \in Exec : status[e] \in Terminal => status'[e] \in {status[e], "purged"}]_vars

\* Every execution a user or a rule asked for settles, even if each dispatch of
\* it is lost or the worker that claimed it dies.
EveryExecutionSettles ==
  \A e \in Exec : status[e] \in {"queued", "running"} ~>
                    status[e] \in Terminal \cup {"purged"}

\* Every execution, taken alone, lives the life its requester was promised.
Lifecycle == INSTANCE PlaybookLifecycle
KeepsPromise == Lifecycle!Spec

\* The rate limit as it is documented: an execution never starts while a recent row
\* of the same playbook and customer is running or done.  The code does not keep it:
\* its query is not atomic with the claim, and two workers may both ask first.
RecentRunBlocks ==
  [][\A e, f \in Exec :
       (/\ status[e] = "queued" /\ status'[e] = "running"
        /\ e # f /\ target[e] = target[f])
       => ~(status[f] \in {"done", "running"} /\ age[f] <= RateWindow)]_vars

\* What is left of it: of one playbook and customer there are never more recent runs
\* than workers, whatever workers are lost and however their queries and claims
\* interleave, for whoever asks once one of them has claimed is held back.
RecentRuns(t) == {f \in Exec : /\ target[f] = t
                               /\ age[f] <= RateWindow
                               /\ status[f] \in {"done", "running"}}
BurstIsBounded == \A t \in Target : Cardinality(RecentRuns(t)) <= Cardinality(Worker)
==============================================================================
