--------------------------- MODULE WebhookDelivery ---------------------------
(***************************************************************************)
(* One custom webhook: events dispatched to it, the Celery tasks that POST *)
(* them, the chain of retries each failure schedules, and the counter of   *)
(* consecutive failures that disables the endpoint.  Several workers serve *)
(* one endpoint, each with the row it loaded; what they write is the       *)
(* counter they loaded plus one, or zero.                                  *)
(***************************************************************************)
EXTENDS Integers, FiniteSets, Bags, Functions

CONSTANTS
  Event,         \* events dispatched to the endpoint
  Worker, NoEvent,
  MaxRetries,    \* _MAX_RETRIES
  Threshold,     \* _AUTO_DISABLE_THRESHOLD
  MaxFailures,   \* bound of the model: no re-enabling beyond this count
  MaxLost        \* bound of the model: workers lost and messages redelivered

ASSUME WebhookAssumption ==
  /\ NoEvent \notin Event
  /\ {MaxRetries, MaxFailures, MaxLost} \subseteq Nat
  /\ Threshold \in 1..MaxFailures

VARIABLES
  active,        \* is_active column, or "deleted"
  mode,          \* retry_mode column
  failures,      \* consecutive_failures column
  queue,         \* bag of messages: event and attempt
  dispatched,    \* events dispatched
  pc, job,       \* what each worker does, with which message
  row,           \* the counter and the mode it loaded
  good,          \* whether its POST was answered with success
  posts,         \* POSTs made per event
  accepted,      \* events whose POST was answered with success
  lost,          \* worker losses and redeliveries per event
  streak,        \* failed attempts committed since the last committed success
  overlapped     \* two tasks of the endpoint have been at work at once

hookVars == <<active, mode, failures>>
busVars  == <<queue, dispatched>>
workVars == <<pc, job, row, good>>
pastVars == <<posts, accepted, lost, streak, overlapped>>
vars == <<hookVars, busVars, workVars, pastVars>>

Mode == {"fire_and_forget", "exponential_backoff"}
Attempts == MaxRetries + 1
Message == [event : Event, attempt : 1..Attempts]
NoMessage == [event |-> NoEvent, attempt |-> 0]
Unread == [failures |-> 0, mode |-> "fire_and_forget"]
One(message) == SetToBag({message})

TypeOK ==
  /\ active \in {"active", "inactive", "deleted"}
  /\ mode \in Mode
  /\ failures \in 0..MaxFailures
  /\ BagToSet(queue) \subseteq Message
  /\ dispatched \subseteq Event
  /\ pc \in [Worker -> {"idle", "load", "post", "fail", "save"}]
  /\ job \in [Worker -> Message \cup {NoMessage}]
  /\ row \in [Worker -> [failures : 0..MaxFailures, mode : Mode]]
  /\ good \in [Worker -> BOOLEAN]
  /\ posts \in [Event -> Nat]
  /\ accepted \subseteq Event
  /\ lost \in [Event -> 0..MaxLost]
  /\ streak \in 0..Threshold
  /\ overlapped \in BOOLEAN

Init ==
  /\ active = "active"
  /\ mode \in Mode
  /\ failures = 0
  /\ queue = EmptyBag
  /\ dispatched = {}
  /\ pc = [w \in Worker |-> "idle"]
  /\ job = [w \in Worker |-> NoMessage]
  /\ row = [w \in Worker |-> Unread]
  /\ good = [w \in Worker |-> FALSE]
  /\ posts = [e \in Event |-> 0]
  /\ accepted = {}
  /\ lost = [e \in Event |-> 0]
  /\ streak = 0
  /\ overlapped = FALSE

------------------------------------------------------------------------------
(* The backend: dispatch, and the routes that change the endpoint.          *)

\* Only active endpoints are matched; a lost publish is logged and forgotten.
Dispatch(e) ==
  /\ active = "active"
  /\ e \notin dispatched
  /\ dispatched' = dispatched \cup {e}
  /\ \/ queue' = queue (+) One([event |-> e, attempt |-> 1])
     \/ UNCHANGED queue
  /\ UNCHANGED <<hookVars, workVars, pastVars>>

\* Switching the endpoint on again does not reset the counter.
Update ==
  /\ active # "deleted"
  /\ \/ /\ active = "active" \/ failures < MaxFailures
        /\ active' = IF active = "active" THEN "inactive" ELSE "active"
        /\ UNCHANGED mode
     \/ /\ mode' \in Mode \ {mode}
        /\ UNCHANGED active
  /\ UNCHANGED <<failures, busVars, workVars, pastVars>>

Delete ==
  /\ active # "deleted"
  /\ active' = "deleted"
  /\ UNCHANGED <<mode, failures, busVars, workVars, pastVars>>

------------------------------------------------------------------------------
(* The worker: deliver_webhook.                                             *)

Release(w) ==
  /\ pc' = [pc EXCEPT ![w] = "idle"]
  /\ job' = [job EXCEPT ![w] = NoMessage]
  /\ row' = [row EXCEPT ![w] = Unread]
  /\ good' = [good EXCEPT ![w] = FALSE]

Deliver(w, message) ==
  /\ pc[w] = "idle"
  /\ BagIn(message, queue)
  /\ queue' = queue (-) One(message)
  /\ pc' = [pc EXCEPT ![w] = "load"]
  /\ job' = [job EXCEPT ![w] = message]
  /\ overlapped' = (overlapped \/ \E v \in Worker : pc[v] # "idle")
  /\ UNCHANGED <<row, good, dispatched, hookVars, posts, accepted, lost, streak>>

\* Mutated form of Load: a disabled endpoint's messages wait for it.
LoadRequeues(w) ==
  /\ pc[w] = "load"
  /\ IF active = "active"
     THEN /\ row' = [row EXCEPT ![w] = [failures |-> failures, mode |-> mode]]
          /\ pc' = [pc EXCEPT ![w] = "post"]
          /\ UNCHANGED <<job, good, queue>>
     ELSE /\ Release(w)
          /\ queue' = queue (+) One(job[w])
  /\ UNCHANGED <<dispatched, hookVars, pastVars>>

Load(w) ==
  /\ pc[w] = "load"
  /\ IF active = "active"
     THEN /\ row' = [row EXCEPT ![w] = [failures |-> failures, mode |-> mode]]
          /\ pc' = [pc EXCEPT ![w] = "post"]
          /\ UNCHANGED <<job, good>>
     ELSE Release(w)
  /\ UNCHANGED <<hookVars, busVars, pastVars>>

\* Mutated form of Post: the failure handling is not skipped after a success.
PostThenFail(w) ==
  /\ pc[w] = "post"
  /\ posts' = [posts EXCEPT ![job[w].event] = @ + 1]
  /\ \E answer \in BOOLEAN :
       /\ good' = [good EXCEPT ![w] = answer]
       /\ accepted' = IF answer THEN accepted \cup {job[w].event} ELSE accepted
  /\ pc' = [pc EXCEPT ![w] = "fail"]
  /\ UNCHANGED <<job, row, lost, streak, overlapped, hookVars, busVars>>

Post(w) ==
  /\ pc[w] = "post"
  /\ posts' = [posts EXCEPT ![job[w].event] = @ + 1]
  /\ \E answer \in BOOLEAN :
       /\ good' = [good EXCEPT ![w] = answer]
       /\ accepted' = IF answer THEN accepted \cup {job[w].event} ELSE accepted
       /\ pc' = [pc EXCEPT ![w] = IF answer THEN "save" ELSE "fail"]
  /\ UNCHANGED <<job, row, lost, streak, overlapped, hookVars, busVars>>

Disables(w) == row[w].failures + 1 >= Threshold
Retries(w)  == /\ ~Disables(w)
               /\ row[w].mode = "exponential_backoff"
               /\ job[w].attempt <= MaxRetries

\* Mutated form of HandleFailure: the attempt is not counted.
HandleFailureSameAttempt(w) ==
  /\ pc[w] = "fail"
  /\ pc' = [pc EXCEPT ![w] = "save"]
  /\ \/ UNCHANGED queue
     \/ Retries(w) /\ queue' = queue (+) One(job[w])
  /\ UNCHANGED <<job, row, good, dispatched, hookVars, pastVars>>

\* The retry is published before the failure is committed; when the publish
\* fails the chain ends here.
HandleFailure(w) ==
  /\ pc[w] = "fail"
  /\ pc' = [pc EXCEPT ![w] = "save"]
  /\ \/ UNCHANGED queue
     \/ /\ Retries(w)
        /\ queue' = queue (+) One([job[w] EXCEPT !.attempt = @ + 1])
  /\ UNCHANGED <<job, row, good, dispatched, hookVars, pastVars>>

\* Mutated form of Save: a success leaves the counter as it is.
SaveNoReset(w) ==
  /\ pc[w] = "save"
  /\ active # "deleted"
  /\ failures' = IF good[w] THEN failures ELSE row[w].failures + 1
  /\ active' = IF ~good[w] /\ Disables(w) THEN "inactive" ELSE active
  /\ streak' = IF good[w] THEN 0 ELSE IF streak < Threshold THEN streak + 1 ELSE streak
  /\ Release(w)
  /\ UNCHANGED <<mode, posts, accepted, lost, overlapped, busVars>>

\* A column assigned the value it was loaded with is not written at all.
Save(w) ==
  /\ pc[w] = "save"
  /\ active # "deleted"
  /\ failures' = IF ~good[w] THEN row[w].failures + 1
                 ELSE IF row[w].failures = 0 THEN failures ELSE 0
  /\ active' = IF ~good[w] /\ Disables(w) THEN "inactive" ELSE active
  /\ streak' = IF good[w] THEN 0 ELSE IF streak < Threshold THEN streak + 1 ELSE streak
  /\ Release(w)
  /\ UNCHANGED <<mode, posts, accepted, lost, overlapped, busVars>>

\* The row is gone, the secret cannot be decrypted, the database fails, or the
\* time limit strikes: the message is acknowledged and nothing is recorded.
Raise(w) ==
  /\ pc[w] # "idle"
  /\ Release(w)
  /\ UNCHANGED <<hookVars, busVars, pastVars>>

CountLoss(e) == /\ SumFunction(lost) < MaxLost
                /\ lost' = [lost EXCEPT ![e] = @ + 1]

WorkerLost(w) ==
  /\ pc[w] # "idle"
  /\ CountLoss(job[w].event)
  /\ queue' = queue (+) One(job[w])
  /\ Release(w)
  /\ UNCHANGED <<dispatched, hookVars, posts, accepted, streak, overlapped>>

\* A message fetched and not acknowledged within the visibility timeout is
\* handed out again while it still waits or is being worked on.
Redeliver(message) ==
  /\ BagIn(message, queue) \/ \E w \in Worker : job[w] = message
  /\ CountLoss(message.event)
  /\ queue' = queue (+) One(message)
  /\ UNCHANGED <<dispatched, hookVars, workVars, posts, accepted, streak, overlapped>>

WorkerStep(w) == Load(w) \/ Post(w) \/ HandleFailure(w) \/ Save(w) \/ Raise(w)

Next ==
  \/ \E e \in Event : Dispatch(e)
  \/ Update \/ Delete
  \/ \E w \in Worker, message \in Message : Deliver(w, message)
  \/ \E w \in Worker : WorkerStep(w) \/ WorkerLost(w)
  \/ \E message \in Message : Redeliver(message)

Spec == Init /\ [][Next]_vars

\* Workers that live keep consuming, and a task that has begun ends.
Fairness ==
  /\ WF_vars(\E w \in Worker, message \in Message : Deliver(w, message))
  /\ \A w \in Worker : WF_vars(WorkerStep(w))

FairSpec == Spec /\ Fairness

------------------------------------------------------------------------------
(* Properties                                                               *)

\* A lost worker or a redelivery costs at most one more chain of attempts: an
\* event is never POSTed without bound, however failures and retries overlap.
LossCostsOneChain == \A e \in Event : posts[e] <= (1 + lost[e]) * Attempts

\* The endpoint's success ends the chain: unless a message was duplicated, an
\* accepted event is never POSTed again.
AcceptedIsNotRepeated ==
  [][\A e \in accepted : lost[e] = 0 => posts'[e] = posts[e]]_vars

\* Every event comes to rest, whether accepted, given up, or dropped because
\* the endpoint was disabled or deleted meanwhile.
AtRest(e) == /\ \A message \in BagToSet(queue) : message.event # e
             /\ \A w \in Worker : job[w].event # e
EventsComeToRest == \A e \in Event : e \in dispatched ~> AtRest(e)

AutoDisables(w) == pc[w] = "save" /\ ~good[w] /\ active = "active" /\ active' = "inactive"

\* As long as deliveries do not overlap, an endpoint is only disabled after a
\* full streak of failures, across crashes, redeliveries and re-enabling.
DisabledByStreak ==
  [][\A w \in Worker :
       AutoDisables(w) /\ pc'[w] = "idle" /\ ~overlapped => streak' = Threshold]_vars

==============================================================================
