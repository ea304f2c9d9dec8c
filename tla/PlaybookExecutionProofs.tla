----------------------- MODULE PlaybookExecutionProofs -----------------------
(* Machine-checked proofs about PlaybookExecution, for any sets of           *)
(* executions and workers and any timing that respects TimeAssumption.       *)
EXTENDS PlaybookExecution, FiniteSetTheorems, TLAPS

LEMMA InitIInv == Init => IInv
<1> SUFFICES ASSUME Init PROVE IInv
  OBVIOUS
<1> USE TimeAssumption DEF Init
<1>1. TypeOK
  BY DEF TypeOK, RowsOK, BrokerOK, WorkersOK, ReaperOK, Status, Pc, Phase, AgeCap, StartCap
<1>2. \A w \in Worker, e \in Exec : ~Holds(w, e)
  BY DEF Holds
<1>3. WorkerHasJob /\ NoProgressYet /\ ActionsAtMostOnce /\ StaleIdsAbandoned
  BY DEF WorkerHasJob, NoProgressYet, ActionsAtMostOnce, StaleIdsAbandoned
<1>4. LiveRunKeepsRow /\ LiveRunIsYoung /\ HolderProgress
  BY <1>2 DEF LiveRunKeepsRow, LiveRunIsYoung, HolderProgress
<1> QED BY <1>1, <1>3, <1>4 DEF IInv

(* Types, one group of variables at a time.                                  *)

LEMMA ReleaseTypes ==
  ASSUME WorkersOK, NEW w \in Worker, Release(w) PROVE WorkersOK'
  BY TimeAssumption DEF WorkersOK, Release, Pc

LEMMA GotoTypes ==
  ASSUME WorkersOK, NEW w \in Worker, NEW label \in Pc, Goto(w, label) PROVE WorkersOK'
  BY DEF WorkersOK, Goto

\* Every assignment to the status column puts a status there.
LEMMA StatusTypes ==
  ASSUME RowsOK, NEW e \in Exec, NEW new \in Status,
         TransitionFromQueued(e, new) \/ WriteBack(e, new)
  PROVE  status' \in [Exec -> Status]
  BY DEF RowsOK, TransitionFromQueued, WriteBack

LEMMA CapTypes == AgeCap \in Nat /\ StartCap \in Nat
  BY TimeAssumption DEF AgeCap, StartCap

LEMMA OlderRange ==
  ASSUME NEW cap \in Nat, NEW n \in 0..cap PROVE Older(n, cap) \in 0..cap
  BY DEF Older

LEMMA CountTypes ==
  ASSUME NEW f \in [Exec -> [1..Steps -> Nat]], NEW e \in Exec, NEW i \in 1..Steps
  PROVE  [f EXCEPT ![e][i] = @ + 1] \in [Exec -> [1..Steps -> Nat]]
<1>1. f[e] \in [1..Steps -> Nat]
  OBVIOUS
<1>2. f[e][i] \in Nat
  BY <1>1, Zenon
<1>3. f[e][i] + 1 \in Nat
  BY <1>2
<1>4. [f[e] EXCEPT ![i] = f[e][i] + 1] \in [1..Steps -> Nat]
  BY <1>1, <1>3
<1> QED BY <1>4

LEMMA RowTypesStep == TypeOK /\ WorkerHasJob /\ [Next]_vars => RowsOK'
<1> SUFFICES ASSUME RowsOK, WorkersOK, WorkerHasJob, [Next]_vars PROVE RowsOK'
  BY DEF TypeOK
<1>0. ASSUME UNCHANGED rowVars PROVE RowsOK'
  BY <1>0 DEF rowVars, RowsOK
<1>1. ASSUME status' \in [Exec -> Status], UNCHANGED <<target, age, sinceStart, attempted>>
      PROVE RowsOK'
  BY <1>1 DEF RowsOK
<1>2. ASSUME status' \in [Exec -> Status], UNCHANGED <<target, age, attempted>>,
             NEW e \in Exec, sinceStart' = [sinceStart EXCEPT ![e] = 0]
      PROVE RowsOK'
  <2>1. sinceStart' \in [Exec -> 0..StartCap]
    BY <1>2, TimeAssumption DEF RowsOK, StartCap
  <2> QED BY <1>2, <2>1 DEF RowsOK
<1>3. ASSUME NEW batch \in SUBSET Exec, Create(batch) PROVE RowsOK'
  <2>1. status' \in [Exec -> Status]
    BY <1>3 DEF Create, RowsOK, Status
  <2> QED BY <2>1, <1>3, <1>1 DEF Create
<1>4. ASSUME NEW w \in Worker, WorkerStep(w) \/ WorkerFails(w) PROVE RowsOK'
  <2>1. CASE Load(w) \/ CheckRate(w) \/ Prepare(w) \/ RaiseUnmarked(w)
             \/ TimeLimitKill(w) \/ WorkerLost(w)
    BY <2>1, <1>0 DEF Load, CheckRate, Prepare, RaiseUnmarked, TimeLimitKill, WorkerLost
  <2>2. CASE Cancel(w)
    <3>1. job[w] \in Exec /\ "cancelled" \in Status
      BY <2>2 DEF Cancel, WorkerHasJob, Status
    <3> QED BY <2>2, <3>1, StatusTypes, <1>1 DEF Cancel
  <2>3. CASE Claim(w)
    <3>1. job[w] \in Exec /\ "running" \in Status
      BY <2>3 DEF Claim, WorkerHasJob, Status
    <3>2. status' \in [Exec -> Status]
      BY <2>3, <3>1, StatusTypes DEF Claim
    <3> QED BY <2>3, <3>1, <3>2, <1>1, <1>2 DEF Claim
  <2>4. CASE RunAction(w)
    <3>1. job[w] \in Exec
      BY <2>4 DEF RunAction, WorkerHasJob
    <3>2. step[w] + 1 \in 1..Steps
      BY <2>4, TimeAssumption DEF RunAction, WorkersOK
    <3>3. attempted' \in [Exec -> [1..Steps -> Nat]]
      BY <2>4, <3>1, <3>2, CountTypes DEF RunAction, RowsOK
    <3> QED BY <2>4, <3>3 DEF RunAction, RowsOK
  <2>5. CASE Finalize(w)
    <3>1. job[w] \in Exec /\ (IF ok[w] THEN "done" ELSE "failed") \in Status
      BY <2>5 DEF Finalize, WorkerHasJob, Status
    <3> QED BY <2>5, <3>1, StatusTypes, <1>1 DEF Finalize
  <2>6. CASE Raise(w)
    <3>1. job[w] \in Exec /\ "failed" \in Status
      BY <2>6 DEF Raise, WorkerHasJob, Status
    <3> QED BY <2>6, <3>1, StatusTypes, <1>1 DEF Raise
  <2>7. CASE ClaimAckLost(w)
    <3>1. job[w] \in Exec
      BY <2>7 DEF ClaimAckLost, WorkerHasJob
    <3>2. status' \in [Exec -> Status]
      BY <2>7, <3>1 DEF ClaimAckLost, RowsOK, Status
    <3> QED BY <2>7, <3>1, <3>2, <1>2 DEF ClaimAckLost
  <2> QED BY <1>4, <2>1, <2>2, <2>3, <2>4, <2>5, <2>6, <2>7 DEF WorkerStep, WorkerFails
<1>5. CASE FailSelected
  <2>1. status' \in [Exec -> Status]
    BY <1>5 DEF FailSelected, RowsOK, Status
  <2> QED BY <1>5, <2>1, <1>1 DEF FailSelected
<1>6. CASE Purge
  <2>1. status' \in [Exec -> Status]
    BY <1>6 DEF Purge, RowsOK, Status
  <2> QED BY <1>6, <2>1, <1>1 DEF Purge
<1>7. CASE Tick
  <2>1. age' \in [Exec -> 0..AgeCap]
    BY <1>7, OlderRange, CapTypes DEF Tick, RowsOK
  <2>2. sinceStart' \in [Exec -> 0..StartCap]
    BY <1>7, OlderRange, CapTypes DEF Tick, RowsOK
  <2> QED BY <1>7, <2>1, <2>2 DEF Tick, RowsOK
<1> QED
  BY <1>0, <1>3, <1>4, <1>5, <1>6, <1>7
  DEF Next, vars, ReaperStep, ReaperLost, SelectExpired, SelectStale, SelectRedispatch,
      ReaperDone, RepublishLost, ReaperReset, Dispatch, DispatchLost, Redeliver, Republish, Deliver

LEMMA BrokerTypesStep == TypeOK /\ WorkerHasJob /\ [Next]_vars => BrokerOK'
<1> SUFFICES ASSUME BrokerOK, WorkerHasJob, [Next]_vars PROVE BrokerOK'
  BY DEF TypeOK
<1> USE DEF BrokerOK
<1>0. ASSUME UNCHANGED brokerVars PROVE BrokerOK'
  BY <1>0 DEF brokerVars
<1>1. ASSUME NEW batch \in SUBSET Exec, Create(batch) PROVE BrokerOK'
  BY <1>1 DEF Create
<1>2. ASSUME NEW e \in Exec, Dispatch(e) \/ DispatchLost(e) \/ Redeliver(e) \/ Republish(e) PROVE BrokerOK'
  BY <1>2 DEF Dispatch, DispatchLost, Redeliver, Republish, Enqueue
<1>3. ASSUME NEW w \in Worker, NEW e \in Exec, Deliver(w, e) PROVE BrokerOK'
  BY <1>3 DEF Deliver
<1>4. ASSUME NEW w \in Worker, WorkerStep(w) \/ WorkerFails(w) PROVE BrokerOK'
  <2>1. CASE WorkerLost(w)
    BY <2>1 DEF WorkerLost, WorkerHasJob
  <2>2. CASE ~WorkerLost(w)
    BY <1>4, <2>2, <1>0
    DEF WorkerStep, WorkerFails, Load, CheckRate, Cancel, Claim, Prepare, RunAction,
        Finalize, TimeLimitKill, Raise, RaiseUnmarked, ClaimAckLost
  <2> QED BY <2>1, <2>2
<1>5. CASE ReaperStep \/ ReaperLost \/ Purge \/ Tick \/ UNCHANGED vars
  BY <1>5, <1>0
  DEF ReaperStep, ReaperLost, SelectExpired, SelectStale, FailSelected, SelectRedispatch,
      ReaperDone, RepublishLost, ReaperReset, Purge, Tick, vars
<1> QED BY <1>1, <1>2, <1>3, <1>4, <1>5 DEF Next

LEMMA WorkerTypesStep == TypeOK /\ WorkerHasJob /\ [Next]_vars => (WorkersOK /\ WorkerHasJob)'
<1> SUFFICES ASSUME WorkersOK, WorkerHasJob, [Next]_vars PROVE (WorkersOK /\ WorkerHasJob)'
  BY DEF TypeOK
<1>0. ASSUME UNCHANGED workerVars PROVE (WorkersOK /\ WorkerHasJob)'
  BY <1>0 DEF workerVars, WorkersOK, WorkerHasJob
<1>1. ASSUME NEW w \in Worker, Release(w) PROVE (WorkersOK /\ WorkerHasJob)'
  BY <1>1, ReleaseTypes DEF Release, WorkersOK, WorkerHasJob
<1>2. ASSUME NEW w \in Worker, pc[w] # "idle", NEW label \in Pc, Goto(w, label)
      PROVE (WorkersOK /\ WorkerHasJob)'
  BY <1>2, GotoTypes DEF Goto, WorkersOK, WorkerHasJob
<1>3. ASSUME NEW w \in Worker, NEW e \in Exec, Deliver(w, e)
      PROVE (WorkersOK /\ WorkerHasJob)'
  BY <1>3 DEF Deliver, WorkersOK, WorkerHasJob, Pc
<1>4. ASSUME NEW w \in Worker, WorkerStep(w) PROVE (WorkersOK /\ WorkerHasJob)'
  <2>1. CASE Load(w)
    <3>1. "check" \in Pc /\ pc[w] # "idle"
      BY <2>1 DEF Load, Pc
    <3> QED BY <3>1, <2>1, <1>1, <1>2 DEF Load
  <2>2. CASE CheckRate(w)
    <3>1. (IF RateLimited(job[w]) THEN "cancel" ELSE "claim") \in Pc /\ pc[w] # "idle"
      BY <2>2 DEF CheckRate, Pc
    <3> QED BY <3>1, <2>2, <1>2 DEF CheckRate
  <2>3. CASE Claim(w)
    <3>1. "prepare" \in Pc /\ pc[w] # "idle"
      BY <2>3 DEF Claim, Pc
    <3> QED BY <3>1, <2>3, <1>1, <1>2 DEF Claim
  <2>4. CASE Prepare(w)
    BY <2>4, TimeAssumption DEF Prepare, WorkersOK, WorkerHasJob, Pc
  <2>5. CASE RunAction(w)
    BY <2>5, TimeAssumption DEF RunAction, WorkersOK, WorkerHasJob
  <2>6. CASE Cancel(w) \/ Finalize(w) \/ TimeLimitKill(w)
    BY <2>6, <1>1 DEF Cancel, Finalize, TimeLimitKill, RaiseUnmarked
  <2> QED BY <1>4, <2>1, <2>2, <2>3, <2>4, <2>5, <2>6 DEF WorkerStep
<1>5. ASSUME NEW w \in Worker, WorkerFails(w) PROVE (WorkersOK /\ WorkerHasJob)'
  BY <1>5, <1>1 DEF WorkerFails, Raise, RaiseUnmarked, ClaimAckLost, WorkerLost
<1>6. CASE Tick
  <2>1. busy' \in [Worker -> 0..TimeLimit]
    BY <1>6, TimeAssumption DEF Tick, WorkersOK
  <2> QED BY <2>1, <1>6 DEF Tick, WorkersOK, WorkerHasJob
<1>7. CASE ReaperStep \/ ReaperLost \/ Purge \/ UNCHANGED vars
  BY <1>7, <1>0
  DEF ReaperStep, ReaperLost, SelectExpired, SelectStale, FailSelected, SelectRedispatch,
      ReaperDone, RepublishLost, ReaperReset, Purge, vars
<1> QED BY <1>0, <1>3, <1>4, <1>5, <1>6, <1>7
        DEF Next, Create, Dispatch, DispatchLost, Redeliver, Republish

LEMMA ReaperTypesStep == TypeOK /\ [Next]_vars => ReaperOK'
<1> SUFFICES ASSUME ReaperOK, [Next]_vars PROVE ReaperOK'
  BY DEF TypeOK
<1> USE TimeAssumption DEF ReaperOK, Phase
<1>0. ASSUME UNCHANGED reaperVars PROVE ReaperOK'
  BY <1>0 DEF reaperVars
<1>1. CASE SelectExpired \/ SelectStale
  BY <1>1 DEF SelectExpired, SelectStale, Oldest
<1>2. CASE FailSelected \/ SelectRedispatch
  BY <1>2 DEF FailSelected, SelectRedispatch, Oldest
<1>3. CASE ReaperDone \/ ReaperLost \/ \E e \in Exec : RepublishLost(e) \/ Republish(e)
  BY <1>3 DEF ReaperDone, ReaperLost, ReaperReset, RepublishLost, Republish
<1>4. CASE Tick
  BY <1>4 DEF Tick
<1> QED
  BY <1>0, <1>1, <1>2, <1>3, <1>4
  DEF Next, vars, Create, Dispatch, DispatchLost, Redeliver, Deliver, WorkerStep, WorkerFails, Load,
      CheckRate, Cancel, Claim, Prepare, RunAction, Finalize, TimeLimitKill, Raise,
      RaiseUnmarked, ClaimAckLost, WorkerLost, ReaperStep, Purge

(* The safety part of the inductive invariant.                               *)

Safe == /\ NoProgressYet /\ LiveRunKeepsRow /\ LiveRunIsYoung /\ HolderProgress
        /\ StaleIdsAbandoned /\ ActionsAtMostOnce

\* Most steps start no run and advance none: nobody becomes a holder, the
\* holders that remain keep their rows and their progress, nothing is dispatched,
\* and no row returns to queued.
NobodyStarts ==
  \A v \in Worker, e \in Exec :
    Holds(v, e)' => /\ Holds(v, e)
                    /\ step'[v] = step[v] /\ ok'[v] = ok[v] /\ busy'[v] = busy[v]
RowsOnlySettle ==
  \A e \in Exec :
    /\ (status[e] \in {"none", "queued"}) \/ status'[e] \notin {"none", "queued"}
    /\ \A v \in Worker : Holds(v, e)' => \/ status'[e] = status[e]
                                         \/ status'[e] = "purged"
IdleKeepsNoStep == \A v \in Worker : pc'[v] # "act" => step'[v] = 0 /\ ~ok'[v]

LEMMA QuietStep ==
  ASSUME Safe, NobodyStarts, RowsOnlySettle, IdleKeepsNoStep, staleIds \subseteq Exec,
         staleIds' \subseteq staleIds, UNCHANGED <<sinceStart, attempted>>
  PROVE  Safe'
<1> USE DEF Safe
<1>1. NoProgressYet'
  BY DEF NoProgressYet, RowsOnlySettle, IdleKeepsNoStep
<1>2. LiveRunKeepsRow'
  BY DEF LiveRunKeepsRow, RowsOnlySettle, NobodyStarts
<1>3. LiveRunIsYoung'
  BY DEF LiveRunIsYoung, RowsOnlySettle, NobodyStarts
<1>4. HolderProgress'
  BY DEF HolderProgress, NobodyStarts
<1>5. StaleIdsAbandoned'
  BY DEF StaleIdsAbandoned, RowsOnlySettle, NobodyStarts
<1>6. ActionsAtMostOnce'
  BY DEF ActionsAtMostOnce
<1> QED BY <1>1, <1>2, <1>3, <1>4, <1>5, <1>6

\* A worker that lets go of its message holds nothing, the others as before.
LEMMA ReleaseIsQuiet ==
  ASSUME Safe, WorkersOK, NEW w \in Worker, Release(w)
  PROVE  /\ NobodyStarts /\ IdleKeepsNoStep
         /\ \A v \in Worker, e \in Exec : Holds(v, e)' => v # w
<1>1. \A v \in Worker : pc'[v] # "idle" =>
        /\ v # w /\ pc'[v] = pc[v] /\ job'[v] = job[v]
        /\ step'[v] = step[v] /\ ok'[v] = ok[v] /\ busy'[v] = busy[v]
  BY DEF Release, WorkersOK
<1>2. IdleKeepsNoStep
  BY DEF Release, WorkersOK, IdleKeepsNoStep, Safe, NoProgressYet
<1> QED BY <1>1, <1>2 DEF NobodyStarts, Holds

\* Reads, deliveries, broker calls, the reaper's other selections.
LEMMA SameRowsStep ==
  ASSUME Safe, TypeOK, NobodyStarts, IdleKeepsNoStep, staleIds' \subseteq staleIds,
         UNCHANGED <<status, sinceStart, attempted>>
  PROVE  Safe'
<1>1. RowsOnlySettle
  BY DEF RowsOnlySettle
<1>2. staleIds \subseteq Exec
  BY DEF TypeOK, ReaperOK
<1> QED BY <1>1, <1>2, QuietStep

LEMMA WorkerSafeStep ==
  ASSUME IInv, Safe, NEW w \in Worker, WorkerStep(w) \/ WorkerFails(w)
  PROVE  Safe'
<1> USE DEF Safe
<1>0. RowsOK /\ WorkersOK /\ TypeOK /\ WorkerHasJob /\ staleIds \subseteq Exec
  BY DEF IInv, TypeOK, ReaperOK
<1>1. ASSUME Release(w), UNCHANGED <<status, sinceStart, attempted, staleIds>> PROVE Safe'
  BY <1>0, <1>1, ReleaseIsQuiet, SameRowsStep
<1>2. ASSUME NEW label \in {"check", "cancel", "claim"}, pc[w] \in {"load", "check"},
             Goto(w, label), UNCHANGED <<status, sinceStart, attempted, staleIds>>
      PROVE  Safe'
  <2>1. NobodyStarts
    BY <1>0, <1>2 DEF NobodyStarts, Holds, Goto, WorkersOK
  <2>2. IdleKeepsNoStep
    BY <1>0, <1>2 DEF IdleKeepsNoStep, NoProgressYet, Goto, WorkersOK
  <2> QED BY <1>0, <1>2, <2>1, <2>2, SameRowsStep
<1>3. ASSUME Release(w), UNCHANGED <<sinceStart, attempted, staleIds>>, NEW new \in {"done", "failed", "cancelled"},
             \/ TransitionFromQueued(job[w], new)
             \/ Holds(w, job[w]) /\ WriteBack(job[w], new)
      PROVE  Safe'
  <2>1. \A e \in Exec : e # job[w] => status'[e] = status[e]
    BY <1>0, <1>3 DEF TransitionFromQueued, WriteBack, RowsOK
  <2>2. \A v \in Worker, e \in Exec : Holds(v, e)' => Holds(v, e) /\ v # w
    BY <1>0, <1>3, ReleaseIsQuiet DEF NobodyStarts
  <2>3. \A v \in Worker, e \in Exec : Holds(v, e)' => status'[e] = status[e]
    BY <1>3, <2>1, <2>2 DEF TransitionFromQueued, LiveRunKeepsRow
  <2>4. RowsOnlySettle
    BY <1>0, <1>3, <2>3 DEF RowsOnlySettle, TransitionFromQueued, WriteBack, RowsOK
  <2> QED BY <1>0, <1>3, <2>4, ReleaseIsQuiet, QuietStep
<1>4. CASE Load(w) \/ CheckRate(w)
  BY <1>4, <1>1, <1>2 DEF Load, CheckRate, rowVars, reaperVars
<1>5. CASE Cancel(w)
  BY <1>5, <1>3 DEF Cancel, reaperVars
<1>6. CASE Finalize(w) \/ Raise(w)
  <2>1. Holds(w, job[w])
    BY <1>0, <1>6 DEF Finalize, Raise, Holds
  <2> QED BY <1>6, <2>1, <1>3 DEF Finalize, Raise, reaperVars
<1>7. CASE RaiseUnmarked(w) \/ TimeLimitKill(w) \/ WorkerLost(w)
  BY <1>7, <1>1 DEF RaiseUnmarked, TimeLimitKill, WorkerLost, rowVars, reaperVars
<1>8. ASSUME status[job[w]] = "queued", status' = [status EXCEPT ![job[w]] = "running"],
             sinceStart' = [sinceStart EXCEPT ![job[w]] = 0],
             UNCHANGED <<attempted, staleIds>>, pc[w] = "claim",
             Goto(w, "prepare") \/ Release(w)
      PROVE  Safe'
  <2>0. job[w] \in Exec
    BY <1>0, <1>8 DEF WorkerHasJob
  <2>1. \A v \in Worker : ~Holds(v, job[w])
    BY <2>0, <1>8 DEF LiveRunKeepsRow
  <2>2. \A v \in Worker, e \in Exec : v # w /\ Holds(v, e)' =>
          /\ Holds(v, e) /\ e # job[w]
          /\ step'[v] = step[v] /\ ok'[v] = ok[v] /\ busy'[v] = busy[v]
    BY <1>0, <1>8, <2>1 DEF Holds, Goto, Release, WorkersOK
  <2>3. \A e \in Exec : Holds(w, e)' =>
          /\ e = job[w]
          /\ step'[w] = 0 /\ ~ok'[w] /\ busy'[w] \in Nat
    BY <1>0, <1>8, TimeAssumption DEF Holds, Goto, Release, WorkersOK, NoProgressYet
  <2>4. /\ status'[job[w]] = "running" /\ sinceStart'[job[w]] = 0
        /\ \A e \in Exec \ {job[w]} : status'[e] = status[e] /\ sinceStart'[e] = sinceStart[e]
    BY <1>0, <1>8, <2>0 DEF RowsOK
  <2>5. NoProgressYet'
    BY <1>0, <1>8, <2>4 DEF NoProgressYet, Goto, Release, WorkersOK
  <2>6. LiveRunKeepsRow'
    BY <2>2, <2>3, <2>4 DEF LiveRunKeepsRow
  <2>7. LiveRunIsYoung'
    BY <2>2, <2>3, <2>4 DEF LiveRunIsYoung
  <2>8. HolderProgress'
    <3>1. \A i \in 1..Steps : attempted'[job[w]][i] = 0
      BY <2>0, <1>8 DEF NoProgressYet
    <3> QED BY <2>2, <2>3, <3>1, <1>8, TimeAssumption DEF HolderProgress
  <2>9. StaleIdsAbandoned'
    <3>1. job[w] \notin staleIds
      BY <2>0, <1>8 DEF StaleIdsAbandoned
    <3> QED BY <1>0, <1>8, <2>2, <2>3, <2>4, <3>1 DEF StaleIdsAbandoned
  <2> QED BY <1>8, <2>5, <2>6, <2>7, <2>8, <2>9 DEF ActionsAtMostOnce
<1>9. CASE Claim(w) \/ ClaimAckLost(w)
  <2>1. CASE status[job[w]] = "queued"
    BY <1>9, <2>1, <1>8 DEF Claim, ClaimAckLost, TransitionFromQueued, reaperVars
  <2>2. CASE status[job[w]] # "queued"
    BY <1>9, <2>2, <1>1 DEF Claim, ClaimAckLost, TransitionFromQueued, reaperVars
  <2> QED BY <2>1, <2>2
<1>10. CASE Prepare(w)
  <2>1. \A v \in Worker, e \in Exec : Holds(v, e)' => Holds(v, e) /\ ok'[v] = ok[v] /\ busy'[v] = busy[v]
    BY <1>0, <1>10 DEF Prepare, Holds, WorkersOK
  <2>2. \A v \in Worker : \/ step'[v] = step[v]
                          \/ v = w /\ step'[v] = Steps /\ ~ok'[v]
    BY <1>0, <1>10 DEF Prepare, WorkersOK, NoProgressYet
  <2>3. UNCHANGED <<status, sinceStart, attempted, staleIds>>
    BY <1>10 DEF Prepare, rowVars, reaperVars
  <2>4. NoProgressYet'
    BY <1>0, <1>10, <2>3 DEF Prepare, NoProgressYet, WorkersOK
  <2>5. LiveRunKeepsRow' /\ LiveRunIsYoung' /\ StaleIdsAbandoned'
    BY <1>0, <2>1, <2>3 DEF LiveRunKeepsRow, LiveRunIsYoung, StaleIdsAbandoned
  <2>6. HolderProgress'
    BY <2>1, <2>2, <2>3, TimeAssumption DEF HolderProgress
  <2> QED BY <2>3, <2>4, <2>5, <2>6 DEF ActionsAtMostOnce
<1>11. CASE RunAction(w)
  <2>0. /\ job[w] \in Exec /\ Holds(w, job[w]) /\ step[w] + 1 \in 1..Steps
        /\ UNCHANGED <<status, sinceStart, staleIds, pc, job, busy>>
    BY <1>0, <1>11, TimeAssumption DEF RunAction, WorkerHasJob, Holds, WorkersOK, reaperVars
  <2>1. \A v \in Worker, e \in Exec : Holds(v, e)' <=> Holds(v, e)
    BY <2>0 DEF Holds
  <2>2. /\ \A e \in Exec \ {job[w]} : attempted'[e] = attempted[e]
        /\ \A i \in 1..Steps : attempted'[job[w]][i] =
             IF i = step[w] + 1 THEN attempted[job[w]][i] + 1 ELSE attempted[job[w]][i]
    BY <1>0, <1>11, <2>0 DEF RunAction, RowsOK
  <2>3. \A i \in 1..Steps : attempted[job[w]][i] = IF i <= step[w] THEN 1 ELSE 0
    BY <1>11, <2>0 DEF RunAction, HolderProgress
  <2>4. \A i \in 1..Steps : attempted'[job[w]][i] = IF i <= step'[w] THEN 1 ELSE 0
    BY <1>0, <1>11, <2>0, <2>2, <2>3, TimeAssumption DEF RunAction, WorkersOK
  <2>5. \A v \in Worker \ {w} : step'[v] = step[v] /\ ok'[v] = ok[v]
    BY <1>0, <1>11 DEF RunAction, WorkersOK
  <2>6. NoProgressYet'
    <3>1. status[job[w]] \notin {"none", "queued"}
      BY <2>0 DEF LiveRunKeepsRow
    <3> QED BY <1>11, <2>0, <2>2, <2>5, <3>1 DEF NoProgressYet, RunAction
  <2>7. LiveRunKeepsRow' /\ LiveRunIsYoung' /\ StaleIdsAbandoned'
    BY <1>0, <2>0, <2>1 DEF LiveRunKeepsRow, LiveRunIsYoung, StaleIdsAbandoned
  <2>8. HolderProgress'
    <3>1. \A v \in Worker \ {w} : ~Holds(v, job[w])
      BY <2>0 DEF LiveRunKeepsRow
    <3>2. \A e \in Exec : Holds(w, e) => e = job[w]
      BY DEF Holds
    <3> QED BY <2>1, <2>2, <2>4, <2>5, <3>1, <3>2 DEF HolderProgress
  <2>9. ActionsAtMostOnce'
    BY <2>0, <2>2, <2>4, TimeAssumption DEF ActionsAtMostOnce
  <2> QED BY <2>6, <2>7, <2>8, <2>9
<1> QED
  BY <1>4, <1>5, <1>6, <1>7, <1>9, <1>10, <1>11 DEF WorkerStep, WorkerFails

LEMMA OtherSafeStep ==
  ASSUME IInv, Safe,
         \/ \E batch \in SUBSET Exec : Create(batch)
         \/ \E e \in Exec : Dispatch(e) \/ DispatchLost(e) \/ Redeliver(e) \/ Republish(e)
         \/ \E w \in Worker, e \in Exec : Deliver(w, e)
         \/ ReaperStep \/ ReaperLost \/ Purge \/ Tick \/ UNCHANGED vars
  PROVE  Safe'
<1> USE DEF Safe
<1>0. /\ RowsOK /\ WorkersOK /\ TypeOK /\ WorkerHasJob /\ staleIds \subseteq Exec
      /\ reapAge \in 0..TimeLimit
  BY DEF IInv, TypeOK, ReaperOK
<1>1. ASSUME UNCHANGED workerVars PROVE NobodyStarts /\ IdleKeepsNoStep
  BY <1>1 DEF workerVars, NobodyStarts, IdleKeepsNoStep, Holds, NoProgressYet
<1>2. ASSUME UNCHANGED workerVars, UNCHANGED rowVars, staleIds' \subseteq staleIds PROVE Safe'
  BY <1>0, <1>1, <1>2, SameRowsStep DEF rowVars
<1>3. ASSUME UNCHANGED workerVars, UNCHANGED <<sinceStart, attempted>>, staleIds' \subseteq staleIds,
             RowsOnlySettle
      PROVE  Safe'
  BY <1>0, <1>1, <1>3, QuietStep
<1>4. ASSUME NEW batch \in SUBSET Exec, Create(batch) PROVE Safe'
  <2>1. \A e \in Exec : \/ status'[e] = status[e]
                        \/ status[e] = "none" /\ status'[e] = "queued"
    BY <1>0, <1>4 DEF Create, RowsOK
  <2>2. RowsOnlySettle
    BY <2>1, <1>4 DEF RowsOnlySettle, Create, Holds, LiveRunKeepsRow, workerVars
  <2> QED BY <1>4, <2>2, <1>3 DEF Create, reaperVars
<1>5. ASSUME NEW w \in Worker, NEW e \in Exec, Deliver(w, e) PROVE Safe'
  <2>1. NobodyStarts
    BY <1>0, <1>5 DEF NobodyStarts, Holds, Deliver, WorkersOK
  <2>2. IdleKeepsNoStep
    BY <1>0, <1>5 DEF IdleKeepsNoStep, NoProgressYet, Deliver, WorkersOK
  <2> QED BY <1>0, <1>5, <2>1, <2>2, SameRowsStep DEF Deliver, rowVars, reaperVars
<1>6. CASE SelectStale
  <2>1. \A e \in staleIds' : /\ e \in Exec /\ status[e] = "running"
                             /\ sinceStart[e] - reapAge > RunningStale
    BY <1>6 DEF SelectStale, Oldest
  <2>2. \A e \in staleIds', w \in Worker : ~Holds(w, e)
    <3> SUFFICES ASSUME NEW e \in staleIds', NEW w \in Worker, Holds(w, e) PROVE FALSE
      OBVIOUS
    <3>1. sinceStart[e] <= busy[w]
      BY <2>1 DEF LiveRunIsYoung
    <3>2. /\ sinceStart[e] \in Int /\ busy[w] \in Int /\ busy[w] <= TimeLimit
          /\ reapAge \in Int /\ reapAge >= 0
      BY <1>0, <2>1, TimeAssumption, CapTypes DEF RowsOK, WorkersOK
    <3> QED BY <2>1, <3>1, <3>2, TimeAssumption
  <2>3. UNCHANGED <<status, sinceStart, attempted, pc, job, busy, step, ok>>
    BY <1>6 DEF SelectStale, rowVars, workerVars
  <2>4. StaleIdsAbandoned'
    BY <2>1, <2>2, <2>3 DEF StaleIdsAbandoned, Holds
  <2> QED
    BY <2>3, <2>4 DEF NoProgressYet, LiveRunKeepsRow, LiveRunIsYoung, HolderProgress,
       ActionsAtMostOnce, Holds
<1>7. CASE FailSelected
  <2>1. \A e \in Exec :
          \/ status'[e] = status[e]
          \/ status[e] = "queued" /\ status'[e] = "failed"
          \/ e \in staleIds /\ status[e] = "running" /\ status'[e] = "failed"
    BY <1>0, <1>7 DEF FailSelected, RowsOK
  <2>2. \A w \in Worker, e \in Exec : Holds(w, e)' => status'[e] = status[e]
    BY <1>7, <2>1 DEF FailSelected, workerVars, Holds, LiveRunKeepsRow, StaleIdsAbandoned
  <2>3. RowsOnlySettle
    BY <2>1, <2>2 DEF RowsOnlySettle
  <2> QED BY <1>7, <2>3, <1>3 DEF FailSelected
<1>8. CASE Purge
  <2>1. RowsOnlySettle
    BY <1>0, <1>8 DEF Purge, RowsOnlySettle, RowsOK
  <2> QED BY <1>8, <2>1, <1>3 DEF Purge, reaperVars
<1>9. CASE Tick
  <2>0. UNCHANGED <<status, attempted, staleIds, pc, job, step, ok>>
    BY <1>9 DEF Tick
  <2>1. \A w \in Worker, e \in Exec : Holds(w, e)' <=> Holds(w, e)
    BY <2>0 DEF Holds
  <2>2. LiveRunIsYoung'
    <3> SUFFICES ASSUME NEW w \in Worker, NEW e \in Exec, Holds(w, e), status[e] = "running"
                 PROVE  sinceStart'[e] <= busy'[w]
      BY <2>0, <2>1 DEF LiveRunIsYoung
    <3>1. sinceStart'[e] = Older(sinceStart[e], StartCap) /\ busy'[w] = busy[w] + 1
      BY <1>9 DEF Tick, Row, Holds
    <3>2. sinceStart[e] \in Int /\ busy[w] \in Int /\ sinceStart[e] <= busy[w]
      BY <1>0, TimeAssumption, CapTypes DEF RowsOK, WorkersOK, LiveRunIsYoung
    <3> QED BY <3>1, <3>2, CapTypes DEF Older
  <2>3. NoProgressYet' /\ ActionsAtMostOnce'
    BY <2>0 DEF NoProgressYet, ActionsAtMostOnce
  <2>4. LiveRunKeepsRow'
    BY <2>0, <2>1 DEF LiveRunKeepsRow
  <2>5. HolderProgress' /\ StaleIdsAbandoned'
    BY <1>0, <2>0, <2>1 DEF HolderProgress, StaleIdsAbandoned
  <2> QED BY <2>2, <2>3, <2>4, <2>5
<1>10. CASE \/ \E e \in Exec : Dispatch(e) \/ DispatchLost(e) \/ Redeliver(e) \/ Republish(e) \/ RepublishLost(e)
            \/ SelectExpired \/ SelectRedispatch \/ ReaperDone \/ ReaperLost \/ UNCHANGED vars
  BY <1>10, <1>2
  DEF Dispatch, DispatchLost, Redeliver, Republish, RepublishLost, SelectExpired, SelectRedispatch,
      ReaperDone, ReaperLost, ReaperReset, vars, reaperVars
<1> QED
  BY <1>4, <1>5, <1>6, <1>7, <1>8, <1>9, <1>10 DEF ReaperStep

LEMMA InductiveStep == IInv /\ [Next]_vars => IInv'
<1> SUFFICES ASSUME IInv, [Next]_vars PROVE IInv'
  OBVIOUS
<1>1. Safe /\ TypeOK /\ WorkerHasJob
  BY DEF IInv, Safe
<1>2. TypeOK' /\ WorkerHasJob'
  BY <1>1, RowTypesStep, BrokerTypesStep, WorkerTypesStep, ReaperTypesStep DEF TypeOK
<1>3. Safe'
  BY <1>1, WorkerSafeStep, OtherSafeStep DEF Next
<1> QED BY <1>2, <1>3 DEF IInv, Safe

LEMMA AlwaysIInv == Spec => []IInv
  BY InitIInv, InductiveStep, PTL DEF Spec

\* Every variable keeps its type, in every behaviour of the specification.
THEOREM TypeCorrect == Spec => []TypeOK
<1>1. IInv => TypeOK
  BY DEF IInv
<1> QED BY AlwaysIInv, <1>1, PTL

\* However often run_playbook is delivered, re-published or interrupted, no action
\* of an execution is dispatched twice.
THEOREM AtMostOnce == Spec => []ActionsAtMostOnce
<1>1. IInv => ActionsAtMostOnce
  BY DEF IInv
<1> QED BY AlwaysIInv, <1>1, PTL

\* The reaper never fails a run that is still alive, and a run has one worker.
THEOREM LiveRunIsNotReaped == Spec => []LiveRunKeepsRow
<1>1. IInv => LiveRunKeepsRow
  BY DEF IInv
<1> QED BY AlwaysIInv, <1>1, PTL

(* Refinement: each step moves each execution along its promised life.       *)

LEMMA WorkerStepMoves ==
  ASSUME IInv, NEW w \in Worker, WorkerStep(w) \/ WorkerFails(w)
  PROVE  Lifecycle!Next
<1> USE DEF Lifecycle!Next, Lifecycle!Same
<1>0. RowsOK /\ WorkersOK /\ WorkerHasJob /\ LiveRunKeepsRow
  BY DEF IInv, TypeOK
<1>1. ASSUME UNCHANGED <<status, attempted>> PROVE Lifecycle!Next
  BY <1>1
<1>2. ASSUME NEW e \in Exec, NEW new \in {"running", "cancelled"},
             TransitionFromQueued(e, new), UNCHANGED attempted
      PROVE  Lifecycle!Next
  BY <1>0, <1>2 DEF TransitionFromQueued, RowsOK, Lifecycle!Move, Lifecycle!Start, Lifecycle!Drop
<1>3. ASSUME NEW e \in Exec, Holds(w, e), UNCHANGED attempted,
             \/ WriteBack(e, "failed")
             \/ /\ WriteBack(e, "done")
                /\ \A i \in 1..Steps : attempted[e][i] = 1
      PROVE  Lifecycle!Next
  BY <1>0, <1>3 DEF WriteBack, Row, RowsOK, LiveRunKeepsRow, Lifecycle!Move, Lifecycle!Fail,
     Lifecycle!Complete
<1>4. CASE Load(w) \/ CheckRate(w) \/ Prepare(w) \/ TimeLimitKill(w) \/ RaiseUnmarked(w)
           \/ WorkerLost(w)
  BY <1>4, <1>1 DEF Load, CheckRate, Prepare, TimeLimitKill, RaiseUnmarked, WorkerLost, rowVars
<1>5. CASE Cancel(w) \/ Claim(w) \/ ClaimAckLost(w)
  <2>1. job[w] \in Exec
    BY <1>0, <1>5 DEF Cancel, Claim, ClaimAckLost, WorkerHasJob
  <2> QED BY <1>5, <2>1, <1>2 DEF Cancel, Claim, ClaimAckLost, TransitionFromQueued
<1>6. CASE RunAction(w)
  <2>1. /\ job[w] \in Exec /\ Holds(w, job[w]) /\ step[w] + 1 \in 1..Steps
        /\ step[w] \in Int /\ UNCHANGED status
    BY <1>0, <1>6, TimeAssumption DEF RunAction, WorkerHasJob, Holds, WorkersOK
  <2>2. \A i \in 1..Steps : attempted[job[w]][i] = IF i <= step[w] THEN 1 ELSE 0
    BY <1>6, <2>1 DEF RunAction, IInv, HolderProgress
  <2>3. \A i \in 1..Steps : attempted[job[w]][i] = IF i < step[w] + 1 THEN 1 ELSE 0
    BY <2>1, <2>2
  <2>4. /\ attempted'[job[w]] = [attempted[job[w]] EXCEPT ![step[w] + 1] = 1]
        /\ \A e \in Exec \ {job[w]} : attempted'[e] = attempted[e]
    <3>1. attempted[job[w]][step[w] + 1] + 1 = 1
      BY <2>1, <2>3
    <3> QED BY <1>0, <1>6, <2>1, <3>1 DEF RunAction, RowsOK
  <2>5. status[job[w]] \in {"running", "purged"}
    BY <1>0, <2>1 DEF LiveRunKeepsRow
  <2>6. Lifecycle!Act(job[w], step[w] + 1)
    BY <2>1, <2>3, <2>4, <2>5 DEF Lifecycle!Act
  <2> QED BY <2>1, <2>4, <2>6 DEF Lifecycle!Move
<1>7. CASE Finalize(w)
  <2>1. job[w] \in Exec /\ Holds(w, job[w])
    BY <1>0, <1>7 DEF Finalize, WorkerHasJob, Holds
  <2>2. ok[w] => \A i \in 1..Steps : attempted[job[w]][i] = 1
    BY <1>7, <2>1, TimeAssumption DEF Finalize, IInv, HolderProgress
  <2> QED BY <1>7, <2>1, <2>2, <1>3 DEF Finalize
<1>8. CASE Raise(w)
  <2>1. job[w] \in Exec /\ Holds(w, job[w])
    BY <1>0, <1>8 DEF Raise, WorkerHasJob, Holds
  <2> QED BY <1>8, <2>1, <1>3 DEF Raise
<1> QED BY <1>4, <1>5, <1>6, <1>7, <1>8 DEF WorkerStep, WorkerFails

LEMMA StepMoves == IInv /\ [Next]_vars => [Lifecycle!Next]_<<status, attempted>>
<1> SUFFICES ASSUME IInv, [Next]_vars PROVE [Lifecycle!Next]_<<status, attempted>>
  OBVIOUS
<1>0. RowsOK
  BY DEF IInv, TypeOK
<1>1. CASE \E w \in Worker : WorkerStep(w) \/ WorkerFails(w)
  BY <1>1, WorkerStepMoves
<1> USE DEF Lifecycle!Next, Lifecycle!Same, Lifecycle!Move
<1>2. CASE \E batch \in SUBSET Exec : Create(batch)
  BY <1>0, <1>2 DEF Create, RowsOK, Lifecycle!Request
<1>3. CASE FailSelected
  BY <1>0, <1>3 DEF FailSelected, RowsOK, Lifecycle!Drop, Lifecycle!Fail
<1>4. CASE Purge
  BY <1>0, <1>4 DEF Purge, Row, RowsOK, Lifecycle!Purge
<1>5. CASE UNCHANGED <<status, attempted>>
  BY <1>5
<1> QED
  BY <1>1, <1>2, <1>3, <1>4, <1>5
  DEF Next, vars, rowVars, Dispatch, DispatchLost, Redeliver, Republish, Deliver, ReaperStep,
      SelectExpired, SelectStale, SelectRedispatch, ReaperDone, ReaperLost, ReaperReset,
      RepublishLost, Tick

\* Brokers, workers and the reaper together keep the promise of PlaybookLifecycle:
\* actions in order, each at most once, one outcome, done only when all were tried.
THEOREM KeepsLifecyclePromise == Spec => KeepsPromise
<1>1. Init => Lifecycle!Init
  BY DEF Init, Lifecycle!Init
<1> QED
  BY <1>1, AlwaysIInv, StepMoves, PTL DEF Spec, KeepsPromise, Lifecycle!Spec

\* A settled execution keeps its outcome for good, until it is purged.
THEOREM OutcomeIsFinal == Spec => TerminalIsFinal
<1> DEFINE Final == \A e \in Exec : status[e] \in Terminal => status'[e] \in {status[e], "purged"}
<1>1. [Lifecycle!Next]_<<status, attempted>> => Final
  BY DEF Terminal, Lifecycle!Next, Lifecycle!Move, Lifecycle!Request, Lifecycle!Start,
     Lifecycle!Act, Lifecycle!Drop, Lifecycle!Fail, Lifecycle!Complete, Lifecycle!Purge
<1>2. IInv /\ [Next]_vars => [Final]_vars
  BY <1>1, StepMoves
<1> QED BY AlwaysIInv, <1>2, PTL DEF Spec, TerminalIsFinal

(* The rate limit, for any number of workers.                                *)

\* The workers that have passed the check for a row they may still claim.
Racers(t) == {w \in Worker : /\ pc[w] = "claim" /\ target[job[w]] = t
                             /\ status[job[w]] = "queued"}

\* Once a run is under way the check lets nobody pass, and each claim uses up a racer.
Burst(t) ==
  RecentRuns(t) # {} =>
    /\ IsFiniteSet(RecentRuns(t))
    /\ Cardinality(RecentRuns(t)) + Cardinality(Racers(t)) <= Cardinality(Worker)
Loaded == \A w \in Worker : pc[w] \in {"check", "claim"} => status[job[w]] # "none"
BurstInv == Loaded /\ \A t \in Target : Burst(t)

\* A step by which no row becomes running and nobody passes the check.
Calm ==
  /\ target' = target
  /\ \A f \in Exec :
       /\ age'[f] >= age[f]
       /\ status'[f] \in {"done", "running"} => status[f] \in {"done", "running"}
       /\ status'[f] = "queued" => status[f] \in {"none", "queued"}
  /\ \A w \in Worker : pc'[w] = "claim" => pc[w] = "claim" /\ job'[w] = job[w]

LEMMA CalmStep ==
  ASSUME IsFiniteSet(Worker), RowsOK, RowsOK', WorkerHasJob, Loaded, NEW t \in Target, Burst(t), Calm
  PROVE  Burst(t)'
<1>1. RecentRuns(t)' \subseteq RecentRuns(t)
  <2> SUFFICES ASSUME NEW f \in Exec, target'[f] = t, age'[f] <= RateWindow,
                      status'[f] \in {"done", "running"}
               PROVE  age[f] <= RateWindow
    BY DEF RecentRuns, Calm
  <2>1. age[f] \in Int /\ age'[f] \in Int /\ RateWindow \in Int /\ age'[f] >= age[f]
    BY TimeAssumption, CapTypes DEF RowsOK, Calm
  <2> QED BY <2>1
<1>2. Racers(t)' \subseteq Racers(t)
  <2> SUFFICES ASSUME NEW w \in Worker, pc'[w] = "claim", target'[job'[w]] = t,
                      status'[job'[w]] = "queued"
               PROVE  w \in Racers(t)
    BY DEF Racers
  <2>1. pc[w] = "claim" /\ job'[w] = job[w] /\ target' = target
    BY DEF Calm
  <2>2. job[w] \in Exec /\ status[job[w]] # "none"
    BY <2>1 DEF WorkerHasJob, Loaded
  <2>3. status[job[w]] = "queued"
    BY <2>1, <2>2 DEF Calm
  <2> QED BY <2>1, <2>3 DEF Racers
<1> SUFFICES ASSUME RecentRuns(t)' # {}
             PROVE  /\ IsFiniteSet(RecentRuns(t)')
                    /\ Cardinality(RecentRuns(t)') + Cardinality(Racers(t)') <= Cardinality(Worker)
  BY DEF Burst
<1> DEFINE S == RecentRuns(t)  P == Racers(t)  S2 == RecentRuns(t)'  P2 == Racers(t)'
<1>3. IsFiniteSet(S) /\ Cardinality(S) + Cardinality(P) <= Cardinality(Worker)
  BY <1>1 DEF Burst
<1>4. P \subseteq Worker
  BY DEF Racers
<1>5. S2 \subseteq S /\ P2 \subseteq P
  BY <1>1, <1>2
<1> HIDE DEF S, P, S2, P2
<1>6. IsFiniteSet(P) /\ Cardinality(Worker) \in Nat
  BY <1>4, FS_Subset, FS_CardinalityType
<1>7. IsFiniteSet(S2) /\ Cardinality(S2) <= Cardinality(S) /\ IsFiniteSet(P2)
      /\ Cardinality(P2) <= Cardinality(P)
  BY <1>3, <1>5, <1>6, FS_Subset
<1>8. /\ Cardinality(S) \in Nat /\ Cardinality(P) \in Nat
      /\ Cardinality(S2) \in Nat /\ Cardinality(P2) \in Nat
  BY <1>3, <1>6, <1>7, FS_CardinalityType
<1>9. IsFiniteSet(S2) /\ Cardinality(S2) + Cardinality(P2) <= Cardinality(Worker)
  BY <1>3, <1>6, <1>7, <1>8
<1> QED BY <1>9 DEF S2, P2

\* A worker passes the check only while no other recent run is there.
LEMMA CheckBurst ==
  ASSUME IsFiniteSet(Worker), RowsOK, WorkersOK, WorkerHasJob, NEW t \in Target, Burst(t),
         NEW w \in Worker, CheckRate(w)
  PROVE  Burst(t)'
<1>1. /\ pc[w] = "check" /\ UNCHANGED <<job, target, status, age>>
      /\ pc' = [pc EXCEPT ![w] = IF RateLimited(job[w]) THEN "cancel" ELSE "claim"]
  BY DEF CheckRate, Goto, rowVars
<1>2. RecentRuns(t)' = RecentRuns(t) /\ job[w] \in Exec
  BY <1>1 DEF RecentRuns, WorkerHasJob
<1> SUFFICES ASSUME RecentRuns(t) # {} PROVE Racers(t)' = Racers(t)
  BY <1>2 DEF Burst
<1>3. w \notin Racers(t)'
  <2> SUFFICES ASSUME ~RateLimited(job[w]), target[job[w]] = t, status[job[w]] = "queued"
               PROVE  FALSE
    BY <1>1 DEF Racers, WorkersOK
  <2>1. PICK f \in Exec : /\ target[f] = t /\ age[f] <= RateWindow
                          /\ status[f] \in {"done", "running"}
    BY DEF RecentRuns
  <2>2. f # job[w]
    BY <2>1
  <2> QED BY <1>2, <2>1, <2>2 DEF RateLimited
<1>4. w \notin Racers(t) /\ \A v \in Worker \ {w} : pc'[v] = pc[v]
  BY <1>1 DEF Racers, WorkersOK
<1> QED BY <1>1, <1>3, <1>4 DEF Racers

\* A claim turns one racer into one recent run; others on the same row lose it.
LEMMA ClaimBurst ==
  ASSUME IsFiniteSet(Worker), RowsOK, WorkersOK, WorkerHasJob, NEW t \in Target, Burst(t),
         NEW w \in Worker, pc[w] = "claim", status[job[w]] = "queued",
         status' = [status EXCEPT ![job[w]] = "running"], UNCHANGED <<target, age>>,
         pc'[w] # "claim", \A v \in Worker \ {w} : pc'[v] = pc[v] /\ job'[v] = job[v]
  PROVE  Burst(t)'
<1>1. job[w] \in Exec
  BY DEF WorkerHasJob
<1>2. Racers(t)' \subseteq Racers(t) \ {w}
  <2> SUFFICES ASSUME NEW v \in Racers(t)' PROVE v \in Racers(t) \ {w}
    OBVIOUS
  <2>1. v \in Worker \ {w} /\ pc[v] = "claim" /\ job'[v] = job[v] /\ target[job[v]] = t
        /\ status'[job[v]] = "queued" /\ job[v] \in Exec
    BY DEF Racers, WorkerHasJob
  <2> QED BY <1>1, <2>1 DEF Racers, RowsOK
<1>3. CASE target[job[w]] # t
  <2>1. RecentRuns(t)' = RecentRuns(t)
    BY <1>1, <1>3 DEF RecentRuns, RowsOK
  <2>2. Racers(t)' \subseteq Racers(t) /\ Racers(t) \subseteq Worker
    BY <1>2 DEF Racers
  <2> DEFINE P == Racers(t)  P2 == Racers(t)'
  <2>3. P2 \subseteq P /\ P \subseteq Worker
    BY <2>2
  <2> HIDE DEF P, P2
  <2>4. IsFiniteSet(P) /\ IsFiniteSet(P2) /\ Cardinality(P2) <= Cardinality(P)
    BY <2>3, FS_Subset
  <2>5. Cardinality(P) \in Nat /\ Cardinality(P2) \in Nat /\ Cardinality(Worker) \in Nat
    BY <2>4, FS_CardinalityType
  <2>6. IsFiniteSet(RecentRuns(t)) => Cardinality(RecentRuns(t)) \in Nat
    BY FS_CardinalityType
  <2> QED BY <2>1, <2>4, <2>5, <2>6 DEF Burst, P, P2
<1>4. CASE target[job[w]] = t
  <2>1. RecentRuns(t)' \subseteq RecentRuns(t) \cup {job[w]}
    BY <1>1 DEF RecentRuns, RowsOK
  <2>2. w \in Racers(t) /\ Racers(t) \subseteq Worker
    BY <1>4 DEF Racers
  <2> DEFINE S == RecentRuns(t)  P == Racers(t)  S2 == RecentRuns(t)'  P2 == Racers(t)'
             e == job[w]
  <2>3. /\ S2 \subseteq S \cup {e} /\ P2 \subseteq P \ {w} /\ w \in P /\ P \subseteq Worker
        /\ S # {} => IsFiniteSet(S) /\ Cardinality(S) + Cardinality(P) <= Cardinality(Worker)
    BY <1>2, <2>1, <2>2 DEF Burst
  <2> HIDE DEF S, P, S2, P2, e
  <2>4. /\ IsFiniteSet(P) /\ Cardinality(P) <= Cardinality(Worker)
        /\ Cardinality(P \ {w}) = Cardinality(P) - 1 /\ IsFiniteSet(P \ {w})
    BY <2>3, FS_Subset, FS_RemoveElement
  <2>5. IsFiniteSet(P2) /\ Cardinality(P2) <= Cardinality(P \ {w})
    BY <2>3, <2>4, FS_Subset
  <2>6. Cardinality(P) \in Nat /\ Cardinality(P2) \in Nat /\ Cardinality(Worker) \in Nat
    BY <2>4, <2>5, FS_CardinalityType
  <2>7. IsFiniteSet(S) /\ Cardinality(S) + Cardinality(P) <= Cardinality(Worker)
        /\ Cardinality(S) \in Nat
    <3>1. CASE S = {}
      BY <2>4, <2>6, <3>1, FS_EmptySet
    <3>2. CASE S # {}
      BY <2>3, <3>2, FS_CardinalityType
    <3> QED BY <3>1, <3>2
  <2>8. IsFiniteSet(S \cup {e}) /\ Cardinality(S \cup {e}) <= Cardinality(S) + 1
    <3>1. /\ IsFiniteSet(S \cup {e})
          /\ Cardinality(S \cup {e}) = IF e \in S THEN Cardinality(S) ELSE Cardinality(S) + 1
      BY <2>7, FS_AddElement, Zenon
    <3> QED BY <2>7, <3>1
  <2>9. IsFiniteSet(S2) /\ Cardinality(S2) <= Cardinality(S \cup {e})
    BY <2>3, <2>8, FS_Subset
  <2>10. Cardinality(S2) \in Nat /\ Cardinality(S \cup {e}) \in Nat
    BY <2>8, <2>9, FS_CardinalityType
  <2>11. IsFiniteSet(S2) /\ Cardinality(S2) + Cardinality(P2) <= Cardinality(Worker)
    BY <2>4, <2>5, <2>6, <2>7, <2>8, <2>9, <2>10
  <2> QED BY <2>11 DEF Burst, S2, P2
<1> QED BY <1>3, <1>4

LEMMA LoadedStep == IInv /\ Loaded /\ [Next]_vars => Loaded'
<1> SUFFICES ASSUME IInv, Loaded, [Next]_vars, NEW w \in Worker, pc'[w] \in {"check", "claim"}
             PROVE  status'[job'[w]] # "none"
  BY DEF Loaded
<1>0. RowsOK /\ WorkersOK /\ WorkerHasJob
  BY DEF IInv, TypeOK
<1>1. /\ job'[w] = job[w] /\ pc[w] # "idle"
      /\ pc[w] \in {"check", "claim"} \/ status[job[w]] = "queued"
  <2>1. ASSUME NEW v \in Worker, WorkerStep(v) \/ WorkerFails(v)
        PROVE  /\ job'[w] = job[w] /\ pc[w] # "idle"
               /\ pc[w] \in {"check", "claim"} \/ status[job[w]] = "queued"
    BY <1>0, <2>1 DEF WorkerStep, WorkerFails, Load, CheckRate, Cancel, Claim, Prepare, RunAction,
       Finalize, TimeLimitKill, Raise, RaiseUnmarked, ClaimAckLost, WorkerLost, Goto, Release,
       WorkersOK
  <2>2. ASSUME NEW v \in Worker, NEW e \in Exec, Deliver(v, e)
        PROVE  job'[w] = job[w] /\ pc[w] \in {"check", "claim"}
    BY <1>0, <2>2 DEF Deliver, WorkersOK
  <2>3. CASE UNCHANGED <<pc, job>>
    BY <2>3
  <2> QED BY <2>1, <2>2, <2>3
    DEF Next, vars, workerVars, Create, Dispatch, DispatchLost, Redeliver, Republish, ReaperStep,
        SelectExpired, SelectStale, FailSelected, SelectRedispatch, ReaperDone, ReaperLost,
        ReaperReset, RepublishLost, Purge, Tick
<1>2. job[w] \in Exec /\ status[job[w]] # "none"
  BY <1>0, <1>1 DEF WorkerHasJob, Loaded
<1>3. \A e \in Exec : status[e] # "none" => status'[e] # "none"
  <2>1. ASSUME NEW v \in Worker, WorkerStep(v) \/ WorkerFails(v)
        PROVE  \A e \in Exec : status[e] # "none" => status'[e] # "none"
    BY <1>0, <2>1 DEF WorkerStep, WorkerFails, Load, CheckRate, Cancel, Claim, Prepare, RunAction,
       Finalize, TimeLimitKill, Raise, RaiseUnmarked, ClaimAckLost, WorkerLost, rowVars,
       TransitionFromQueued, WriteBack, RowsOK
  <2>2. CASE \E batch \in SUBSET Exec : Create(batch)
    BY <2>2 DEF Create
  <2>3. CASE FailSelected \/ Purge
    BY <2>3 DEF FailSelected, Purge
  <2> QED BY <2>1, <2>2, <2>3
    DEF Next, vars, rowVars, Dispatch, DispatchLost, Redeliver, Republish, Deliver, ReaperStep,
        SelectExpired, SelectStale, SelectRedispatch, ReaperDone, ReaperLost,
        ReaperReset, RepublishLost, Tick
<1> QED BY <1>1, <1>2, <1>3

LEMMA BurstStep ==
  ASSUME IsFiniteSet(Worker), IInv, BurstInv, [Next]_vars
  PROVE  BurstInv'
<1>0. /\ RowsOK /\ RowsOK' /\ WorkersOK /\ WorkerHasJob /\ Loaded /\ LiveRunKeepsRow
      /\ age \in [Exec -> 0..AgeCap] /\ AgeCap \in Nat
      /\ \A t \in Target : Burst(t)
  BY InductiveStep, CapTypes DEF IInv, TypeOK, RowsOK, BurstInv
<1>1. Calm => \A t \in Target : Burst(t)'
  BY <1>0, CalmStep
<1>2. \A f \in Exec : age[f] \in Int /\ age[f] >= age[f]
  BY <1>0
<1>3. ASSUME NEW w \in Worker, WorkerStep(w) \/ WorkerFails(w) PROVE \A t \in Target : Burst(t)'
  <2>1. CASE CheckRate(w)
    BY <1>0, <2>1, CheckBurst
  <2>2. CASE (Claim(w) \/ ClaimAckLost(w)) /\ status[job[w]] = "queued"
    <3>1. /\ pc[w] = "claim" /\ status' = [status EXCEPT ![job[w]] = "running"]
          /\ UNCHANGED <<target, age>>
      BY <2>2 DEF Claim, ClaimAckLost, TransitionFromQueued
    <3>2. /\ pc'[w] # "claim"
          /\ \A v \in Worker \ {w} : pc'[v] = pc[v] /\ job'[v] = job[v]
      BY <1>0, <2>2 DEF Claim, ClaimAckLost, Goto, Release, WorkersOK
    <3> QED BY <1>0, <2>2, <3>1, <3>2, ClaimBurst
  <2>3. CASE /\ ~CheckRate(w)
             /\ Claim(w) \/ ClaimAckLost(w) => status[job[w]] # "queued"
    <3> DEFINE Silent == Load(w) \/ RaiseUnmarked(w) \/ WorkerLost(w) \/ Prepare(w)
               Ends == Cancel(w) \/ Finalize(w) \/ Raise(w)
               Missed == (Claim(w) \/ ClaimAckLost(w)) /\ status[job[w]] # "queued"
    <3>a. Silent \/ Ends \/ Missed \/ RunAction(w)
      <4>1. CheckRate(w) \/ Claim(w) \/ ClaimAckLost(w) \/ Silent \/ Ends \/ RunAction(w)
        BY <1>3 DEF WorkerStep, WorkerFails, TimeLimitKill
      <4> QED BY <2>3, <4>1
    <3>0. \/ Release(w)
          \/ pc'[w] # "claim" /\ \A v \in Worker \ {w} : pc'[v] = pc[v] /\ job'[v] = job[v]
      <4>1. CASE Silent \/ RunAction(w)
        BY <1>0, <4>1 DEF Load, Prepare, RunAction, RaiseUnmarked, WorkerLost, Goto, WorkersOK
      <4>2. CASE Ends \/ Missed
        BY <4>2 DEF Cancel, Finalize, Raise, Claim, ClaimAckLost
      <4> QED BY <3>a, <4>1, <4>2
    <3>1. \A v \in Worker : pc'[v] = "claim" => pc[v] = "claim" /\ job'[v] = job[v]
      BY <1>0, <3>0 DEF Release, WorkersOK
    <3>2. target' = target /\ age' = age
      <4>1. CASE Silent
        BY <4>1 DEF Load, Prepare, RaiseUnmarked, WorkerLost, rowVars
      <4>2. CASE Ends \/ Missed \/ RunAction(w)
        BY <4>2 DEF Cancel, Claim, RunAction, Finalize, Raise, ClaimAckLost
      <4> QED BY <3>a, <4>1, <4>2
    <3>3. \A f \in Exec :
            /\ status'[f] \in {"done", "running"} => status[f] \in {"done", "running"}
            /\ status'[f] = "queued" => status[f] \in {"none", "queued"}
      <4>1. CASE Finalize(w) \/ Raise(w)
        <5>1. Holds(w, job[w]) /\ job[w] \in Exec
          BY <1>0, <4>1 DEF Finalize, Raise, Holds, WorkerHasJob
        <5>2. status[job[w]] \in {"running", "purged"}
          BY <1>0, <5>1 DEF LiveRunKeepsRow
        <5> QED BY <1>0, <4>1, <5>1, <5>2 DEF Finalize, Raise, WriteBack, Row, RowsOK
      <4>2. CASE Cancel(w)
        BY <1>0, <4>2 DEF Cancel, TransitionFromQueued, RowsOK
      <4>3. CASE Silent \/ Missed \/ RunAction(w)
        <5>1. status' = status
          BY <4>3 DEF Load, Prepare, RaiseUnmarked, WorkerLost, rowVars, RunAction, Claim,
             ClaimAckLost, TransitionFromQueued
        <5> QED BY <5>1
      <4> QED BY <3>a, <4>1, <4>2, <4>3
    <3> QED BY <1>1, <1>2, <3>1, <3>2, <3>3 DEF Calm
  <2> QED BY <2>1, <2>2, <2>3
<1>4. ASSUME NEW w \in Worker, NEW e \in Exec, Deliver(w, e) PROVE Calm
  BY <1>0, <1>2, <1>4 DEF Deliver, Calm, WorkersOK, rowVars
<1>5. ASSUME \/ \E batch \in SUBSET Exec : Create(batch)
             \/ FailSelected \/ Purge
      PROVE  Calm
  <2>1. /\ UNCHANGED <<pc, job, target, age>>
        /\ \A f \in Exec :
             /\ status'[f] \in {"done", "running"} => status[f] \in {"done", "running"}
             /\ status'[f] = "queued" => status[f] \in {"none", "queued"}
    BY <1>0, <1>5 DEF Create, FailSelected, Purge, RowsOK, workerVars
  <2> QED BY <1>2, <2>1 DEF Calm
<1>6. ASSUME Tick PROVE Calm
  <2>1. /\ UNCHANGED <<pc, job, target, status>>
        /\ \A f \in Exec : age'[f] \in {age[f], Older(age[f], AgeCap)}
    BY <1>6 DEF Tick
  <2>2. \A f \in Exec : age'[f] >= age[f]
    BY <1>0, <1>2, <2>1 DEF Older
  <2> QED BY <2>1, <2>2 DEF Calm
<1>7. ASSUME UNCHANGED <<pc, job, rowVars>> PROVE Calm
  BY <1>2, <1>7 DEF rowVars, Calm
<1>8. \A t \in Target : Burst(t)'
  BY <1>1, <1>3, <1>4, <1>5, <1>6, <1>7
  DEF Next, vars, workerVars, Dispatch, DispatchLost, Redeliver, Republish, ReaperStep,
      SelectExpired, SelectStale, SelectRedispatch, ReaperDone, ReaperLost, ReaperReset, RepublishLost
<1> QED BY <1>0, <1>8, LoadedStep DEF BurstInv

\* With any number of workers, executions, deliveries and crashes there are never more
\* recent runs of one playbook for one customer than workers: the check fails to be atomic
\* with the claim only for those that passed it before the first of them claimed.
THEOREM BurstBoundedByWorkers ==
  ASSUME IsFiniteSet(Worker)
  PROVE  Spec => []BurstIsBounded
<1>1. Init => BurstInv
  BY DEF Init, BurstInv, Loaded, Burst, RecentRuns
<1>2. IInv /\ BurstInv /\ [Next]_vars => BurstInv'
  BY BurstStep
<1>3. BurstInv => BurstIsBounded
  <2> SUFFICES ASSUME BurstInv, NEW t \in Target
               PROVE  Cardinality(RecentRuns(t)) <= Cardinality(Worker)
    BY DEF BurstIsBounded
  <2>1. IsFiniteSet(Racers(t)) /\ Cardinality(Racers(t)) \in Nat /\ Cardinality(Worker) \in Nat
    <3>1. Racers(t) \subseteq Worker
      BY DEF Racers
    <3> QED BY <3>1, FS_Subset, FS_CardinalityType
  <2>2. CASE RecentRuns(t) = {}
    BY <2>1, <2>2, FS_EmptySet
  <2>3. CASE RecentRuns(t) # {}
    <3>1. IsFiniteSet(RecentRuns(t))
          /\ Cardinality(RecentRuns(t)) + Cardinality(Racers(t)) <= Cardinality(Worker)
      BY <2>3 DEF BurstInv, Burst
    <3> QED BY <2>1, <3>1, FS_CardinalityType
  <2> QED BY <2>2, <2>3
<1> QED BY <1>1, <1>2, <1>3, AlwaysIInv, PTL DEF Spec
==============================================================================
