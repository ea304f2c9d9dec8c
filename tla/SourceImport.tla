---------------------------- MODULE SourceImport ----------------------------
(***************************************************************************)
(* How tickets (Zendesk) and conversations (Intercom) become feedback: the *)
(* scheduled pull reads what changed since its cursor, webhooks tell of a  *)
(* new ticket or a reply, both go through one ingestion core that logs an  *)
(* event per source and external id, and where a source does not import by *)
(* itself a reviewer approves or rejects.  A task writes in one            *)
(* transaction, so others see its rows at its commit.                      *)
(*                                                                         *)
(* Both are called tickets here.  `kind` in an event id tells the pull's   *)
(* ids from the webhook's; the third part is the window of a Zendesk pull. *)
(***************************************************************************)
EXTENDS Integers, FiniteSets

CONSTANTS
  Ticket, Worker, Reviewer,
  Setup,           \* set of [provider, tickets, crew, auto]: what a behaviour may begin with
  Empty,           \* tickets without usable text
  Hooked,          \* tickets whose webhooks are configured: the others only the pull sees
  Offtopic,        \* tickets a source with a narrow trigger does not take
  Beat, Nothing,
  LastTime, MaxEvents, MaxQueue  \* bounds of the model: seconds; edits and faults; messages

ASSUME SetupAssumption ==
  Setup \subseteq [provider : {"zendesk", "intercom"}, tickets : SUBSET Ticket,
                   crew : SUBSET Worker, auto : BOOLEAN]
ASSUME TicketAssumption == Empty \cup Offtopic \cup Hooked \subseteq Ticket
ASSUME BoundAssumption == LastTime \in Nat \ {0} /\ {MaxEvents, MaxQueue} \subseteq Nat

Time == 0..LastTime   \* nothing changes in the last second
EventId == ({"pull"} \X Ticket \X (0..LastTime - 1)) \cup ({"hook"} \X Ticket \X {0})
EventsOf(c) == {id \in EventId : id[2] = c}
Hook == {"created", "replied"} \X Hooked
Settings == [active : BOOLEAN, auto : BOOLEAN, narrow : BOOLEAN]
Status == {"none", "processed", "pending", "ignored", "enriched"}
NoRows == [id \in EventId |-> "none"]

ASSUME SentinelAssumption == Nothing \notin Settings \cup Hook \cup EventId /\ Beat \notin Hook
                             /\ Beat # Nothing

VARIABLES
  setup,           \* what this behaviour began with: its provider, tickets and workers
  now,
  updated,         \* when a ticket last changed; 0 before it exists
  source,          \* the feedback source of the organization
  cursor,          \* last_synced_at of the integration
  event,           \* status of the committed event rows
  items,           \* feedback items per ticket
  queue,           \* messages under way
  pc, task, since, upto, todo,  \* what a worker does: since its cursor, upto the next one
  takes,           \* the source as its session loaded it
  draft,           \* event rows it has flushed and not committed
  opened,          \* the pending event a reviewer's request has loaded
  raced,           \* history: tickets two actors were deciding about at the same time
  paused,          \* history: the source was off for a while
  events           \* edits, repeated changes and faults so far

job == <<pc, task, since, upto, todo, takes, draft>>
history == <<raced, paused>>
vars == <<setup, now, updated, source, cursor, event, items, queue, job, opened,
          history, events>>

Bounded == events < MaxEvents /\ events' = events + 1

-----------------------------------------------------------------------------
TypeOK ==
  /\ setup \in Setup /\ now \in Time
  /\ updated \in [Ticket -> Time]
  /\ source \in Settings
  /\ cursor \in Time
  /\ event \in [EventId -> Status]
  /\ items \in [Ticket -> Nat]
  /\ queue \in [Hook -> 0..MaxQueue]
  /\ pc \in [Worker -> {"idle", "fetch", "scan", "commit"}]
  /\ task \in [Worker -> Hook \cup {Beat, Nothing}]
  /\ since \in [Worker -> Time] /\ upto \in [Worker -> Time]
  /\ todo \in [Worker -> SUBSET Ticket]
  /\ takes \in [Worker -> Settings \cup {Nothing}]
  /\ draft \in [Worker -> [EventId -> Status]]
  /\ opened \in [Reviewer -> EventId \cup {Nothing}]
  /\ raced \subseteq Ticket /\ paused \in BOOLEAN
  /\ events \in 0..MaxEvents
  /\ \A w \in Worker : pc[w] # "commit" => draft[w] = NoRows
  /\ \A w \in setup.crew, id \in EventId :   \* uq_source_event
       draft[w][id] # "none" =>
         event[id] = "none" /\ \A v \in setup.crew \ {w} : draft[v][id] = "none"

Init ==
  /\ setup \in Setup
  /\ now = 1
  /\ updated = [c \in Ticket |-> 0]
  /\ source = [active |-> TRUE, auto |-> setup.auto, narrow |-> FALSE]
  /\ cursor = 0
  /\ event = NoRows
  /\ items = [c \in Ticket |-> 0]
  /\ queue = [k \in Hook |-> 0]
  /\ pc = [w \in Worker |-> "idle"]
  /\ task = [w \in Worker |-> Nothing]
  /\ since = [w \in Worker |-> 0] /\ upto = [w \in Worker |-> 0]
  /\ todo = [w \in Worker |-> {}]
  /\ takes = [w \in Worker |-> Nothing]
  /\ draft = [w \in Worker |-> NoRows]
  /\ opened = [r \in Reviewer |-> Nothing]
  /\ raced = {} /\ paused = FALSE
  /\ events = 0

-----------------------------------------------------------------------------
(* The helpdesk, the beat and the settings.                                *)

Publish(k) == queue[k] < MaxQueue /\ queue' = [queue EXCEPT ![k] = @ + 1]

Tick ==
  /\ now < LastTime
  /\ now' = now + 1
  /\ UNCHANGED <<setup, updated, source, cursor, event, items, queue, job, opened,
                 history, events>>

\* handle_zendesk_webhook drops what an earlier webhook imported; Intercom's does not look.
HookAccepted(c) ==
  /\ c \in Hooked
  /\ \/ setup.provider = "intercom"
     \/ source.active /\ event[<<"hook", c, 0>>] \notin {"processed", "pending"}

\* A ticket is created, or gets a reply: the webhook is queued, or refused or lost.
Arrive(c, kind) ==
  /\ now < LastTime
  /\ updated' = [updated EXCEPT ![c] = now]
  /\ \/ HookAccepted(c) /\ Publish(<<kind, c>>)
     \/ UNCHANGED queue
  /\ UNCHANGED <<setup, now, source, cursor, event, items, job, opened, history>>
NewTicket(c) == c \in setup.tickets /\ updated[c] = 0 /\ Arrive(c, "created") /\ UNCHANGED events
Reply(c) ==
  setup.provider = "intercom" /\ 0 < updated[c] /\ updated[c] < now /\ Bounded
    /\ Arrive(c, "replied")

\* An agent touches a Zendesk ticket: no webhook, but the export lists it again.
Touch(c) ==
  /\ setup.provider = "zendesk" /\ 0 < updated[c] /\ updated[c] < now /\ now < LastTime /\ Bounded
  /\ updated' = [updated EXCEPT ![c] = now]
  /\ UNCHANGED <<setup, now, source, cursor, event, items, queue, job, opened, history>>

\* The provider, or the broker, delivers the news of a ticket again.
HookAgain(c, kind) ==
  /\ updated[c] > 0 /\ Bounded /\ (kind = "replied" => setup.provider = "intercom")
  /\ HookAccepted(c) /\ Publish(<<kind, c>>)
  /\ UNCHANGED <<setup, now, updated, source, cursor, event, items, job, opened, history>>

\* An administrator flips one setting.
Edit(field) ==
  /\ Bounded
  /\ source' = [source EXCEPT ![field] = ~@]
  /\ paused' = (paused \/ ~source'.active)
  /\ UNCHANGED <<setup, now, updated, cursor, event, items, queue, job, opened, raced>>

-----------------------------------------------------------------------------
(* The worker.  The connection counts as part of the source: both must be  *)
(* active.                                                                 *)

\* _find_matching_sources
Matching == IF source.active THEN source ELSE Nothing

End(w) ==
  /\ pc' = [pc EXCEPT ![w] = "idle"]
  /\ task' = [task EXCEPT ![w] = Nothing]
  /\ since' = [since EXCEPT ![w] = 0] /\ upto' = [upto EXCEPT ![w] = 0]
  /\ todo' = [todo EXCEPT ![w] = {}]
  /\ takes' = [takes EXCEPT ![w] = Nothing]
  /\ draft' = [draft EXCEPT ![w] = NoRows]

\* A pull may begin at any time: the beat every 15 minutes, an administrator, a retry.
\* It reads its cursor; Intercom's finds the source now, Zendesk's after the export.
TakePull(w) ==
  /\ w \in setup.crew /\ pc[w] = "idle"
  /\ pc' = [pc EXCEPT ![w] = "fetch"]
  /\ task' = [task EXCEPT ![w] = Beat]
  /\ since' = [since EXCEPT ![w] = cursor]
  /\ takes' = [takes EXCEPT ![w] = Matching]
  /\ UNCHANGED <<setup, now, updated, source, cursor, event, items, queue, upto, todo, draft,
                 opened, history, events>>

\* What the provider lists: Zendesk's export ends before the current second.
Listed(w) == {c \in Ticket : updated[c] > 0 /\ updated[c] >= since[w]
                             /\ (setup.provider = "zendesk" => updated[c] < now)}
Latest(w, t) ==
  /\ t = since[w] \/ \E c \in Listed(w) : t = updated[c]
  /\ t >= since[w] /\ \A c \in Listed(w) : t >= updated[c]

Fetch(w) ==
  /\ pc[w] = "fetch"
  /\ \E t \in Time : Latest(w, t) /\ upto' = [upto EXCEPT ![w] = t]
  /\ takes' = [takes EXCEPT ![w] = IF setup.provider = "zendesk" THEN Matching ELSE @]
  /\ todo' = [todo EXCEPT ![w] = IF takes'[w] = Nothing THEN {} ELSE Listed(w)]
  /\ pc' = [pc EXCEPT ![w] = "scan"]
  /\ UNCHANGED <<setup, now, updated, source, cursor, event, items, queue, task, since,
                 draft, opened, history, events>>

TakeHook(w, k) ==
  /\ w \in setup.crew /\ pc[w] = "idle" /\ queue[k] > 0
  /\ queue' = [queue EXCEPT ![k] = @ - 1]
  /\ IF Matching = Nothing
     THEN UNCHANGED <<pc, task, todo, takes>>
     ELSE /\ pc' = [pc EXCEPT ![w] = "scan"]
          /\ task' = [task EXCEPT ![w] = k]
          /\ todo' = [todo EXCEPT ![w] = {k[2]}]
          /\ takes' = [takes EXCEPT ![w] = Matching]
  /\ UNCHANGED <<setup, now, updated, source, cursor, event, items, since, upto, draft,
                 opened, history, events>>

-----------------------------------------------------------------------------
(* The ingestion core: _process_event_for_source.                          *)

\* Mutated form of IdOf: the window is left out of the id of every pull.
IdOfTicketOnly(w, c) == <<IF task[w] = Beat THEN "pull" ELSE "hook", c, 0>>

\* external_event_id
IdOf(w, c) ==
  CASE task[w] # Beat -> <<"hook", c, 0>>
    [] task[w] = Beat /\ setup.provider = "intercom" -> <<"pull", c, 0>>
    [] task[w] = Beat /\ setup.provider = "zendesk" -> <<"pull", c, upto[w]>>

Stored(c, status) == {"processed", "pending"} \cap {status[id] : id \in EventsOf(c)} # {}

\* Mutated form of Known: an event that waits for its reviewer does not count.
KnownProcessed(w, c) ==
  \E id \in EventsOf(c) : "processed" \in {event[id], draft[w][id]}

\* The query for a processed or pending event of the same message.
Known(w, c) == Stored(c, event) \/ Stored(c, draft[w])

IsReply(w) == task[w] \in {"replied"} \X Ticket
Triggers(w, c) == takes[w].narrow => c \notin Offtopic

\* The status the event is logged with, or "none" for a duplicate, which is not logged.
\* ("enriched" also stands for a reply that brings the item nothing new.)
Outcome(w, c) ==
  CASE IsReply(w) -> IF items[c] > 0 THEN "enriched" ELSE "ignored"
    [] ~IsReply(w) /\ ~Triggers(w, c) -> "ignored"
    [] ~IsReply(w) /\ Triggers(w, c) /\ Known(w, c) -> "none"
    [] ~IsReply(w) /\ Triggers(w, c) /\ ~Known(w, c) ->
         IF c \in Empty THEN "ignored" ELSE IF takes[w].auto THEN "processed" ELSE "pending"

DecidedElsewhere(w, c) == \E v \in Worker \ {w} : Stored(c, draft[v])
Logged(w) == {c \in todo[w] : Outcome(w, c) # "none"}

\* Mutated form of Unique: the constraint is missing, as it is in the worker's own model.
NotUnique(id) == TRUE

\* uq_source_event: no row has the id, committed or flushed by another transaction.
Unique(id) == event[id] = "none" /\ \A v \in Worker : draft[v][id] = "none"

\* The events are flushed, all tickets of a run in one step.  The unique constraint
\* makes a flush wait for a transaction that has flushed the same id.
Scan(w) ==
  /\ pc[w] = "scan"
  /\ \A c \in Logged(w) : Unique(IdOf(w, c))
  /\ draft' = [draft EXCEPT ![w] = [id \in EventId |->
       IF id[2] \in Logged(w) /\ id = IdOf(w, id[2]) THEN Outcome(w, id[2]) ELSE "none"]]
  /\ raced' = raced \cup {c \in todo[w] : DecidedElsewhere(w, c)}
  /\ pc' = [pc EXCEPT ![w] = "commit"]
  /\ UNCHANGED <<setup, now, updated, source, cursor, event, items, queue, task, since,
                 upto, todo, takes, opened, paused, events>>

\* The task failed: everything it flushed is rolled back; it is tried again or given up.
RollBack(w) ==
  /\ End(w)
  /\ UNCHANGED <<setup, now, updated, source, cursor, event, items, opened, history>>

\* An id is taken: the flush raises.  Nobody tries again, or finds the same if he does.
Refused(w) ==
  /\ pc[w] = "scan"
  /\ \E c \in Logged(w) : event[IdOf(w, c)] # "none"
  /\ RollBack(w)
  /\ UNCHANGED <<queue, events>>

\* Mutated form of Fails: the cursor written before the failure is kept.
FailsKeepingCursor(w) ==
  /\ pc[w] # "idle" /\ Bounded
  /\ IF task[w] \in Hook THEN Publish(task[w]) \/ UNCHANGED queue ELSE UNCHANGED queue
  /\ End(w)
  /\ cursor' = IF upto[w] > since[w] THEN upto[w] ELSE cursor
  /\ UNCHANGED <<setup, now, updated, source, event, items, opened, history>>

\* The provider or the database fails, or the process is lost; Celery retries, or has
\* retried often enough.
Fails(w) ==
  /\ pc[w] # "idle" /\ Bounded
  /\ IF task[w] \in Hook THEN Publish(task[w]) \/ UNCHANGED queue ELSE UNCHANGED queue
  /\ RollBack(w)

\* The cursor is written only where it moved: an unchanged attribute is not updated.
Commit(w) ==
  /\ pc[w] = "commit"
  /\ event' = [id \in EventId |-> IF draft[w][id] = "none" THEN event[id] ELSE draft[w][id]]
  /\ items' = [c \in Ticket |->
       items[c] + Cardinality({id \in EventsOf(c) : draft[w][id] = "processed"})]
  /\ cursor' = IF upto[w] > since[w] THEN upto[w] ELSE cursor
  /\ End(w)
  /\ UNCHANGED <<setup, now, updated, source, queue, opened, history, events>>

-----------------------------------------------------------------------------
(* Review.  A request loads the pending row, and writes later.             *)

Open(r, id) ==
  /\ opened[r] = Nothing /\ event[id] = "pending"
  /\ opened' = [opened EXCEPT ![r] = id]
  /\ UNCHANGED <<setup, now, updated, source, cursor, event, items, queue, job, history,
                 events>>

Settle(r, status) ==
  LET id == opened[r] IN
    /\ id # Nothing
    /\ event' = [event EXCEPT ![id] = status]
    /\ raced' = IF event[id] = "pending" THEN raced ELSE raced \cup {id[2]}
    /\ opened' = [opened EXCEPT ![r] = Nothing]
    /\ UNCHANGED <<setup, now, updated, source, cursor, queue, job, paused, events>>

Approve(r) ==
  /\ Settle(r, "processed")
  /\ items' = [items EXCEPT ![opened[r][2]] = @ + 1]

Reject(r) == Settle(r, "ignored") /\ UNCHANGED items

-----------------------------------------------------------------------------
Work(w) ==
  \/ TakePull(w) \/ (\E k \in Hook : TakeHook(w, k))
  \/ Fetch(w) \/ Scan(w) \/ Refused(w) \/ Commit(w)

Next ==
  \/ Tick
  \/ \E c \in Ticket : NewTicket(c) \/ Reply(c) \/ Touch(c)
  \/ \E c \in Ticket, kind \in {"created", "replied"} : HookAgain(c, kind)
  \/ \E field \in DOMAIN source : Edit(field)
  \/ \E w \in Worker : Work(w) \/ Fails(w)
  \/ \E r \in Reviewer, id \in EventId : Open(r, id)
  \/ \E r \in Reviewer : Approve(r) \/ Reject(r)

\* Time passes and workers go on with what they do and what the beat publishes; nobody
\* promises to review.
Spec ==
  /\ Init /\ [][Next]_vars
  /\ WF_vars(Tick) /\ \A w \in Worker : WF_vars(Work(w))

-----------------------------------------------------------------------------
\* One feedback item per ticket, and exactly one for an event that says processed,
\* unless two tasks or two reviewers decided about the ticket at the same time
\* (SELF_HOSTING.md names the overlap of pull and webhook as the known limitation).
OnceUnlessOverlap ==
  \A c \in Ticket \ raced :
    /\ items[c] <= 1
    /\ items[c] = Cardinality({id \in EventsOf(c) : event[id] = "processed"})

\* The cursor never passes a ticket that has no event: whatever failed or overlapped,
\* what lies before it was looked at (zendesk_sync.py D1: one transaction for both).
Seen(c) == \E id \in EventsOf(c) : event[id] # "none"
CursorLosesNothing == ~paused => \A c \in Ticket : 0 < updated[c] /\ updated[c] < cursor => Seen(c)

\* Every ticket is looked at in the end, although webhooks are lost and tasks fail.
\* Of Intercom, whose pull ids are fixed, this is only claimed as long as no event was
\* logged as ignored and the trigger was not narrowed.
Blocked ==
  setup.provider = "intercom" /\ (source.narrow \/ \E id \in EventId : event[id] = "ignored")
EveryTicketSeen ==
  []<>(\A c \in Ticket : updated[c] > 0 => Seen(c) \/ paused \/ Blocked)

\* clients/intercom.py:121: ">= cannot lose one; it merely re-fetches the boundary
\* conversation, which FeedbackSourceEvent dedup discards".
RefetchLosesNothing == \A c \in Ticket : updated[c] > 0 ~> Seen(c)
=============================================================================
