------------------------- MODULE SourceImportProofs -------------------------
(* Machine-checked proofs about SourceImport, for any tickets, workers and   *)
(* reviewers, and for either provider.                                       *)
EXTENDS SourceImport, FiniteSetTheorems, TLAPS

(* The inductive invariant.                                                  *)

Second == 0..(LastTime - 1)
Decided == {"processed", "pending"}

StateTypes ==
  /\ setup \in Setup /\ now \in Time
  /\ updated \in [Ticket -> Second]
  /\ source \in Settings
  /\ cursor \in Second
  /\ event \in [EventId -> Status]
  /\ items \in [Ticket -> Nat]
  /\ queue \in [Hook -> 0..MaxQueue]
  /\ opened \in [Reviewer -> EventId \cup {Nothing}]
  /\ raced \subseteq Ticket /\ paused \in BOOLEAN
  /\ events \in 0..MaxEvents
JobTypes ==
  /\ pc \in [Worker -> {"idle", "fetch", "scan", "commit"}]
  /\ task \in [Worker -> Hook \cup {Beat, Nothing}]
  /\ since \in [Worker -> Second] /\ upto \in [Worker -> Second]
  /\ todo \in [Worker -> SUBSET Ticket]
  /\ takes \in [Worker -> Settings \cup {Nothing}]
  /\ draft \in [Worker -> [EventId -> Status]]

\* Rows are flushed by scanning, under ids of their own, one for a ticket.
Drafts ==
  /\ \A w \in Worker : pc[w] # "commit" => draft[w] = NoRows
  /\ \A w \in Worker, id, other \in EventId :
       draft[w][id] # "none" /\ draft[w][other] # "none" /\ id[2] = other[2] => id = other
  /\ \A w \in Worker, id \in EventId :
       draft[w][id] # "none" =>
         event[id] = "none" /\ \A v \in Worker \ {w} : draft[v][id] = "none"
Loaded == \A r \in Reviewer : opened[r] # Nothing => event[opened[r]] # "none"

Types == StateTypes /\ JobTypes /\ Drafts /\ Loaded

\* No clock runs ahead, and only a pause makes a worker go without a source.
Past ==
  /\ cursor <= now
  /\ \A c \in Ticket : updated[c] <= now
  /\ \A w \in Worker : since[w] <= now /\ upto[w] <= now
  /\ ~source.active => paused
  /\ \A w \in Worker : pc[w] # "idle" /\ takes[w] = Nothing => paused

\* Neither the cursor, nor where a pull began, nor where its cursor will be has passed
\* a ticket that has no event; the rows of the last may still be on their way.
Drafted(w, c) == \E id \in EventsOf(c) : draft[w][id] # "none"
UnderWay(w, c) == \/ pc[w] = "scan" /\ c \in todo[w]
                  \/ pc[w] = "commit" /\ Drafted(w, c)
NothingPassed ==
  ~paused => \A c \in Ticket : 0 < updated[c] =>
    /\ updated[c] < cursor => Seen(c)
    /\ \A w \in Worker : /\ updated[c] < since[w] => Seen(c)
                         /\ updated[c] < upto[w] => Seen(c) \/ UnderWay(w, c)

\* An event that counts is the only one of its ticket, committed or flushed.
OnceAt(c) ==
  /\ items[c] = IF \E id \in EventsOf(c) : event[id] = "processed" THEN 1 ELSE 0
  /\ \A id, other \in EventsOf(c) : event[id] \in Decided /\ event[other] \in Decided => id = other
  /\ \A w \in Worker, id, other \in EventsOf(c) :
       draft[w][id] \in Decided =>
         event[other] \notin Decided /\ \A v \in Worker \ {w} : draft[v][other] \notin Decided
Once == \A c \in Ticket \ raced : OnceAt(c)

IInv == Types /\ Past /\ NothingPassed /\ Once

LEMMA Bounds == LastTime \in Nat \ {0} /\ 0 \in Second /\ Second \subseteq Time /\ MaxEvents \in Nat /\ MaxQueue \in Nat
  BY BoundAssumption DEF Second, Time

LEMMA SetupFields ==
  ASSUME setup \in Setup
  PROVE  setup.provider \in {"zendesk", "intercom"} /\ setup.tickets \subseteq Ticket
         /\ setup.crew \subseteq Worker /\ setup.auto \in BOOLEAN
<1>1. setup \in [provider : {"zendesk", "intercom"}, tickets : SUBSET Ticket,
                 crew : SUBSET Worker, auto : BOOLEAN]
  BY SetupAssumption
<1> QED BY <1>1

LEMMA InitIInv == Init => IInv
<1> SUFFICES ASSUME Init PROVE IInv
  OBVIOUS
<1>1. /\ event = [id \in EventId |-> "none"] /\ \A w \in Worker : draft[w] = NoRows
      /\ \A w \in Worker, id \in EventId : draft[w][id] = "none"
  BY DEF Init, NoRows
<1>2. StateTypes
  <2>1. source \in Settings
    BY SetupFields DEF Init, Settings
  <2>2. now \in Time /\ events \in 0..MaxEvents /\ queue \in [Hook -> 0..MaxQueue]
    BY Bounds DEF Init, Time
  <2>3. updated \in [Ticket -> Second] /\ cursor \in Second /\ event \in [EventId -> Status]
    BY <1>1, Bounds DEF Init, Status
  <2> QED BY <2>1, <2>2, <2>3 DEF Init, StateTypes
<1>3. JobTypes
  BY <1>1, Bounds DEF Init, JobTypes, NoRows, Status
<1>4. Drafts /\ Loaded
  BY <1>1 DEF Init, Drafts, Loaded
<1>5. Past /\ NothingPassed
  BY Bounds DEF Init, Past, NothingPassed
<1>6. Once
  BY <1>1 DEF Init, Once, OnceAt, EventsOf, Decided
<1> QED BY <1>2, <1>3, <1>4, <1>5, <1>6 DEF IInv, Types

-----------------------------------------------------------------------------
(* Types.                                                                    *)

\* What is not about the rows: the helpdesk, the beat, the settings.
LEMMA OutsideTypes ==
  ASSUME Types, UNCHANGED <<setup, event, items, job, opened, raced>>,
         now' \in Time, updated' \in [Ticket -> Second], source' \in Settings,
         cursor' = cursor, queue' \in [Hook -> 0..MaxQueue], paused' \in BOOLEAN,
         events' \in 0..MaxEvents
  PROVE  Types'
<1>1. StateTypes'
  BY DEF Types, StateTypes
<1>2. JobTypes' /\ Drafts' /\ Loaded'
  BY DEF Types, JobTypes, Drafts, Loaded, job
<1> QED BY <1>1, <1>2 DEF Types

LEMMA PublishTypes ==
  ASSUME Types, NEW k \in Hook, Publish(k) PROVE queue' \in [Hook -> 0..MaxQueue]
<1>1. queue[k] + 1 \in 0..MaxQueue
  BY Bounds DEF Publish, Types, StateTypes
<1> QED BY <1>1 DEF Publish, Types, StateTypes

LEMMA BoundedTypes == ASSUME Types, Bounded PROVE events' \in 0..MaxEvents
  BY Bounds DEF Types, StateTypes, Bounded

LEMMA ArriveTypes ==
  ASSUME Types, NEW c \in Ticket, NEW kind \in {"created", "replied"}, Arrive(c, kind)
  PROVE  updated' \in [Ticket -> Second] /\ queue' \in [Hook -> 0..MaxQueue]
<1>1. now \in Second
  BY Bounds DEF Types, StateTypes, Arrive, Time, Second
<1>2. updated' \in [Ticket -> Second]
  BY <1>1 DEF Types, StateTypes, Arrive
<1>3. CASE HookAccepted(c) /\ Publish(<<kind, c>>)
  <2>1. <<kind, c>> \in Hook
    BY <1>3 DEF HookAccepted, Hook
  <2> QED BY <1>2, <1>3, <2>1, PublishTypes
<1>4. CASE UNCHANGED queue
  BY <1>2, <1>4 DEF Types, StateTypes
<1> QED BY <1>3, <1>4 DEF Arrive

LEMMA HelpdeskTypes ==
  ASSUME Types,
         \/ Tick \/ (\E field \in DOMAIN source : Edit(field))
         \/ \E c \in Ticket : NewTicket(c) \/ Reply(c) \/ Touch(c)
         \/ \E c \in Ticket, kind \in {"created", "replied"} : HookAgain(c, kind)
  PROVE  Types'
<1>0. /\ now \in Time /\ updated \in [Ticket -> Second] /\ source \in Settings
      /\ queue \in [Hook -> 0..MaxQueue] /\ paused \in BOOLEAN /\ events \in 0..MaxEvents
  BY DEF Types, StateTypes
<1>1. CASE Tick
  <2>1. now + 1 \in Time
    BY <1>0, <1>1, Bounds DEF Tick, Time
  <2> QED BY <1>0, <1>1, <2>1, OutsideTypes DEF Tick, history
<1>2. CASE \E field \in DOMAIN source : Edit(field)
  <2>1. source' \in Settings
    BY <1>0, <1>2 DEF Edit, Settings
  <2>2. source'.active \in BOOLEAN
    BY <2>1 DEF Settings
  <2>3. paused' \in BOOLEAN
    BY <1>0, <1>2, <2>2, Zenon DEF Edit
  <2> QED BY <1>0, <1>2, <2>1, <2>3, BoundedTypes, OutsideTypes DEF Edit
<1>3. ASSUME NEW c \in Ticket, NewTicket(c) \/ Reply(c) PROVE Types'
  <2>1. PICK kind \in {"created", "replied"} : Arrive(c, kind) /\ events' \in 0..MaxEvents
    BY <1>0, <1>3, BoundedTypes DEF NewTicket, Reply
  <2> QED BY <1>0, <2>1, ArriveTypes, OutsideTypes DEF Arrive, history
<1>4. ASSUME NEW c \in Ticket, Touch(c) PROVE Types'
  <2>1. now \in Second
    BY <1>0, <1>4, Bounds DEF Touch, Time, Second
  <2>2. updated' \in [Ticket -> Second]
    BY <1>0, <1>4, <2>1 DEF Touch
  <2> QED BY <1>0, <1>4, <2>2, BoundedTypes, OutsideTypes DEF Touch, history
<1>5. ASSUME NEW c \in Ticket, NEW kind \in {"created", "replied"}, HookAgain(c, kind)
      PROVE  Types'
  <2>1. <<kind, c>> \in Hook
    BY <1>5 DEF HookAgain, HookAccepted, Hook
  <2>2. queue' \in [Hook -> 0..MaxQueue]
    BY <1>5, <2>1, PublishTypes DEF HookAgain
  <2> QED BY <1>0, <1>5, <2>2, BoundedTypes, OutsideTypes DEF HookAgain, history
<1> QED BY <1>1, <1>2, <1>3, <1>4, <1>5

\* What changes of the worker when its session ends.
LEMMA EndFacts ==
  ASSUME JobTypes, NEW w \in Worker, End(w)
  PROVE  /\ JobTypes' /\ pc'[w] = "idle" /\ draft'[w] = NoRows
         /\ since'[w] = 0 /\ upto'[w] = 0
         /\ \A v \in Worker \ {w} :
              /\ pc'[v] = pc[v] /\ task'[v] = task[v] /\ since'[v] = since[v]
              /\ upto'[v] = upto[v] /\ todo'[v] = todo[v] /\ takes'[v] = takes[v]
              /\ draft'[v] = draft[v]
<1>1. NoRows \in [EventId -> Status]
  BY DEF NoRows, Status
<1>2. /\ draft' \in [Worker -> [EventId -> Status]] /\ draft'[w] = NoRows
      /\ \A v \in Worker \ {w} : draft'[v] = draft[v]
  BY <1>1 DEF JobTypes, End
<1> QED BY <1>2, Bounds DEF JobTypes, End

LEMMA MatchingType == ASSUME Types PROVE Matching \in Settings \cup {Nothing}
  BY DEF Types, StateTypes, Matching

LEMMA TakeTypes ==
  ASSUME Types, NEW w \in Worker, TakePull(w) \/ \E k \in Hook : TakeHook(w, k)
  PROVE  Types'
<1>1. JobTypes'
  <2>1. CASE TakePull(w)
    BY <2>1, MatchingType DEF Types, StateTypes, JobTypes, TakePull
  <2>2. ASSUME NEW k \in Hook, TakeHook(w, k) PROVE JobTypes'
    <3>1. k[2] \in Ticket
      BY TicketAssumption DEF Hook
    <3>2. CASE Matching = Nothing
      BY <2>2, <3>2 DEF Types, JobTypes, TakeHook
    <3>3. CASE Matching # Nothing
      <4>1. /\ pc' = [pc EXCEPT ![w] = "scan"] /\ task' = [task EXCEPT ![w] = k]
            /\ todo' = [todo EXCEPT ![w] = {k[2]}] /\ takes' = [takes EXCEPT ![w] = Matching]
            /\ UNCHANGED <<since, upto, draft>>
        BY <2>2, <3>3 DEF TakeHook
      <4>2. {k[2]} \in SUBSET Ticket
        BY <3>1
      <4> QED BY <4>1, <4>2, MatchingType DEF Types, JobTypes
    <3> QED BY <3>2, <3>3
  <2> QED BY <2>1, <2>2
<1>2. StateTypes'
  <2>1. CASE TakePull(w)
    BY <2>1 DEF Types, StateTypes, TakePull, history
  <2>2. ASSUME NEW k \in Hook, TakeHook(w, k) PROVE StateTypes'
    <3>1. queue[k] - 1 \in 0..MaxQueue
      BY <2>2, Bounds DEF Types, StateTypes, TakeHook
    <3> QED BY <2>2, <3>1 DEF Types, StateTypes, TakeHook, history
  <2> QED BY <2>1, <2>2
<1>3. /\ UNCHANGED <<event, draft, opened>> /\ pc[w] = "idle"
      /\ \A v \in Worker : pc'[v] = "commit" => pc[v] = "commit"
      /\ \A v \in Worker : pc[v] = "commit" => pc'[v] = "commit"
  BY DEF TakePull, TakeHook, Types, JobTypes
<1>4. Drafts' /\ Loaded'
  BY <1>3 DEF Types, Drafts, Loaded
<1> QED BY <1>1, <1>2, <1>4 DEF Types

LEMMA FetchTypes == ASSUME Types, NEW w \in Worker, Fetch(w) PROVE Types'
<1>1. PICK t \in Time : Latest(w, t) /\ upto' = [upto EXCEPT ![w] = t]
  BY DEF Fetch
<1>2. t \in Second
  BY <1>1 DEF Latest, Listed, Types, JobTypes, StateTypes
<1>3. takes' \in [Worker -> Settings \cup {Nothing}]
  BY MatchingType DEF Fetch, Types, JobTypes
<1>4. todo' \in [Worker -> SUBSET Ticket]
  BY DEF Fetch, Types, JobTypes, Listed
<1>5. JobTypes'
  BY <1>1, <1>2, <1>3, <1>4 DEF Fetch, Types, JobTypes
<1>6. StateTypes'
  BY DEF Fetch, Types, StateTypes, history
<1>7. /\ UNCHANGED <<event, draft, opened>>
      /\ \A v \in Worker : pc[v] = "commit" <=> pc'[v] = "commit"
  BY DEF Fetch, Types, JobTypes
<1>8. Drafts' /\ Loaded'
  BY <1>7 DEF Types, Drafts, Loaded
<1> QED BY <1>5, <1>6, <1>8 DEF Types

LEMMA IdOfType ==
  ASSUME Types, NEW w \in Worker, NEW c \in Ticket
  PROVE  IdOf(w, c) \in EventId /\ IdOf(w, c)[2] = c /\ IdOf(w, c) \in EventsOf(c)
<1>1. setup.provider \in {"zendesk", "intercom"} /\ upto[w] \in Second
  BY SetupFields DEF Types, StateTypes, JobTypes
<1>2. IdOf(w, c) \in {<<"hook", c, 0>>, <<"pull", c, 0>>, <<"pull", c, upto[w]>>}
  BY <1>1 DEF IdOf
<1>3. IdOf(w, c) \in EventId /\ IdOf(w, c)[2] = c
  BY <1>1, <1>2, Bounds DEF EventId, Second
<1> QED BY <1>3 DEF EventsOf

LEMMA OutcomeRange ==
  ASSUME NEW w \in Worker, NEW c \in Ticket
  PROVE  /\ Outcome(w, c) \in Status
         /\ Outcome(w, c) \in Decided => ~Known(w, c)
         /\ Outcome(w, c) = "none" => Known(w, c)
<1> DEFINE A == IsReply(w)
           B == Triggers(w, c)
           C == Known(w, c)
<1>1. Outcome(w, c) = CASE A -> IF items[c] > 0 THEN "enriched" ELSE "ignored"
                        [] ~A /\ ~B -> "ignored"
                        [] ~A /\ B /\ C -> "none"
                        [] ~A /\ B /\ ~C ->
                             IF c \in Empty THEN "ignored"
                             ELSE IF takes[w].auto THEN "processed" ELSE "pending"
  BY DEF Outcome
<1>2. A \in BOOLEAN /\ B \in BOOLEAN /\ C \in BOOLEAN
  BY DEF IsReply, Triggers, Known, Stored
<1> HIDE DEF A, B, C
<1>3. CASE A
  BY <1>1, <1>3 DEF Status, Decided
<1>4. CASE ~A /\ ~B
  BY <1>1, <1>4 DEF Status, Decided
<1>5. CASE ~A /\ B /\ C
  BY <1>1, <1>5 DEF Status, Decided, C
<1>6. CASE ~A /\ B /\ ~C
  BY <1>1, <1>6 DEF Status, Decided, C
<1> QED BY <1>2, <1>3, <1>4, <1>5, <1>6

\* What a scan flushes: one row for a ticket, under an id nobody has.
LEMMA ScanFacts ==
  ASSUME Types, NEW w \in Worker, Scan(w)
  PROVE  /\ draft' \in [Worker -> [EventId -> Status]]
         /\ \A v \in Worker \ {w} : draft'[v] = draft[v]
         /\ draft[w] = NoRows /\ pc[w] = "scan"
         /\ \A id \in EventId : draft'[w][id] # "none" =>
              /\ id[2] \in todo[w] /\ id = IdOf(w, id[2])
              /\ event[id] = "none" /\ \A v \in Worker : draft[v][id] = "none"
              /\ draft'[w][id] \in Decided => ~Known(w, id[2])
         /\ \A c \in todo[w] : Outcome(w, c) # "none" => draft'[w][IdOf(w, c)] # "none"
<1> DEFINE rows == [id \in EventId |->
             IF id[2] \in Logged(w) /\ id = IdOf(w, id[2]) THEN Outcome(w, id[2]) ELSE "none"]
<1>1. draft' = [draft EXCEPT ![w] = rows] /\ pc[w] = "scan"
  BY DEF Scan
<1>2. todo[w] \subseteq Ticket /\ Logged(w) \subseteq todo[w]
      /\ \A c \in todo[w] : c \in Logged(w) <=> Outcome(w, c) # "none"
  BY DEF Types, JobTypes, Logged
<1>3. rows \in [EventId -> Status]
  <2>1. \A c \in Logged(w) : Outcome(w, c) \in Status
    BY <1>2, OutcomeRange
  <2> QED BY <2>1 DEF Status
<1>4. \A id \in EventId : rows[id] # "none" =>
        id[2] \in Logged(w) /\ id = IdOf(w, id[2]) /\ rows[id] = Outcome(w, id[2])
  OBVIOUS
<1>5. \A c \in Logged(w) : rows[IdOf(w, c)] = Outcome(w, c)
  BY <1>2, IdOfType
<1> HIDE DEF rows
<1>6. draft' \in [Worker -> [EventId -> Status]] /\ draft'[w] = rows
      /\ \A v \in Worker \ {w} : draft'[v] = draft[v]
  BY <1>1, <1>3 DEF Types, JobTypes
<1>7. ASSUME NEW id \in EventId, rows[id] # "none"
      PROVE  event[id] = "none" /\ \A v \in Worker : draft[v][id] = "none"
  BY <1>4, <1>7 DEF Scan, Unique
<1>8. draft[w] = NoRows
  BY <1>1 DEF Types, Drafts
<1> QED BY <1>1, <1>2, <1>4, <1>5, <1>6, <1>7, <1>8, OutcomeRange

LEMMA ScanTypes == ASSUME Types, NEW w \in Worker, Scan(w) PROVE Types'
<1>1. JobTypes'
  BY ScanFacts DEF Types, JobTypes, Scan
<1>2. StateTypes'
  BY DEF Types, StateTypes, JobTypes, Scan
<1>3. UNCHANGED <<event, opened>> /\ pc' = [pc EXCEPT ![w] = "commit"]
  BY DEF Scan
<1>4. Loaded'
  BY <1>3 DEF Types, Loaded
<1>5. Drafts'
  <2>1. \A v \in Worker : pc'[v] # "commit" => draft'[v] = NoRows
    BY <1>3, ScanFacts DEF Types, JobTypes, Drafts
  <2>2. ASSUME NEW v \in Worker, NEW id \in EventId, NEW other \in EventId,
               draft'[v][id] # "none", draft'[v][other] # "none", id[2] = other[2]
        PROVE  id = other
    <3>1. CASE v = w
      BY <2>2, <3>1, ScanFacts
    <3>2. CASE v # w
      BY <2>2, <3>2, ScanFacts DEF Types, Drafts
    <3> QED BY <3>1, <3>2
  <2>3. ASSUME NEW v \in Worker, NEW id \in EventId, draft'[v][id] # "none"
        PROVE  event[id] = "none" /\ \A u \in Worker \ {v} : draft'[u][id] = "none"
    <3>1. CASE v = w
      BY <2>3, <3>1, ScanFacts
    <3>2. CASE v # w
      BY <2>3, <3>2, ScanFacts DEF Types, Drafts
    <3> QED BY <3>1, <3>2
  <2> QED BY <1>3, <2>1, <2>2, <2>3 DEF Drafts
<1> QED BY <1>1, <1>2, <1>4, <1>5 DEF Types

\* A session that ends takes its drafts with it.
LEMMA EndDrafts ==
  ASSUME Types, NEW w \in Worker, End(w), UNCHANGED event PROVE Drafts'
<1>1. \A v \in Worker, id \in EventId : draft'[v][id] # "none" => draft'[v] = draft[v] /\ v # w
  BY EndFacts DEF Types, NoRows
<1>2. \A v \in Worker : pc'[v] # "commit" => draft'[v] = NoRows
  BY EndFacts DEF Types, Drafts
<1>3. \A v \in Worker, id \in EventId : draft[v][id] = "none" => draft'[v][id] = "none"
  BY EndFacts DEF Types, NoRows
<1> QED BY <1>1, <1>2, <1>3 DEF Types, Drafts

LEMMA FailTypes == ASSUME Types, NEW w \in Worker, Refused(w) \/ Fails(w) PROVE Types'
<1>1. RollBack(w) /\ UNCHANGED <<setup, now, updated, source, cursor, event, items, opened, raced, paused>>
  BY DEF Refused, Fails, RollBack, history
<1>2. queue' \in [Hook -> 0..MaxQueue]
  <2>1. CASE UNCHANGED queue
    BY <2>1 DEF Types, StateTypes
  <2>2. CASE ~UNCHANGED queue
    BY <2>2, PublishTypes DEF Refused, Fails
  <2> QED BY <2>1, <2>2
<1>3. events' \in 0..MaxEvents
  BY BoundedTypes DEF Refused, Fails, Types, StateTypes
<1>4. StateTypes'
  BY <1>1, <1>2, <1>3 DEF Types, StateTypes
<1>5. JobTypes' /\ Drafts' /\ Loaded'
  BY <1>1, EndFacts, EndDrafts DEF Types, Loaded, RollBack
<1> QED BY <1>4, <1>5 DEF Types

\* The feedback items a commit adds to a ticket: its draft holds one row at most.
Made(w, c) == {id \in EventsOf(c) : draft[w][id] = "processed"}

LEMMA MadeCount ==
  ASSUME Types, NEW w \in Worker, NEW c \in Ticket
  PROVE  Cardinality(Made(w, c)) = IF Made(w, c) = {} THEN 0 ELSE 1
<1>1. CASE Made(w, c) = {}
  BY <1>1, FS_EmptySet
<1>2. CASE Made(w, c) # {}
  <2>1. PICK id \in Made(w, c) : TRUE
    BY <1>2
  <2>2. \A other \in Made(w, c) : other = id
    BY <2>1 DEF Made, EventsOf, Types, Drafts
  <2>3. Made(w, c) = {id}
    BY <2>1, <2>2
  <2> QED BY <2>3, FS_Singleton
<1> QED BY <1>1, <1>2

LEMMA CommitTypes == ASSUME Types, NEW w \in Worker, Commit(w) PROVE Types'
<1>1. /\ End(w) /\ UNCHANGED <<setup, now, updated, source, queue, opened, raced, paused, events>>
      /\ cursor' = IF upto[w] > since[w] THEN upto[w] ELSE cursor
      /\ event' = [id \in EventId |-> IF draft[w][id] = "none" THEN event[id] ELSE draft[w][id]]
      /\ items' = [c \in Ticket |-> items[c] + Cardinality(Made(w, c))]
  BY DEF Commit, history, Made
<1>2. items' \in [Ticket -> Nat]
  <2>1. \A c \in Ticket : items[c] + Cardinality(Made(w, c)) \in Nat
    BY MadeCount DEF Types, StateTypes
  <2> QED BY <1>1, <2>1
<1>3. event' \in [EventId -> Status] /\ cursor' \in Second
  BY <1>1 DEF Types, StateTypes, JobTypes
<1>4. StateTypes'
  BY <1>1, <1>2, <1>3 DEF Types, StateTypes
<1>5. JobTypes' /\ Loaded'
  <2>1. \A id \in EventId : event[id] # "none" => event'[id] # "none"
    BY <1>1
  <2> QED BY <1>1, <2>1, EndFacts DEF Types, Loaded, StateTypes
<1>6. Drafts'
  <2>1. \A v \in Worker, id \in EventId : draft'[v][id] # "none" => draft'[v] = draft[v] /\ v # w
    BY <1>1, EndFacts DEF Types, NoRows
  <2>2. \A v \in Worker : pc'[v] # "commit" => draft'[v] = NoRows
    BY <1>1, EndFacts DEF Types, Drafts
  <2>3. \A v \in Worker, id \in EventId : draft[v][id] = "none" => draft'[v][id] = "none"
    BY <1>1, EndFacts DEF Types, NoRows
  <2>4. ASSUME NEW v \in Worker, NEW id \in EventId, draft'[v][id] # "none" PROVE event'[id] = "none"
    BY <1>1, <2>1, <2>4 DEF Types, Drafts
  <2> QED BY <2>1, <2>2, <2>3, <2>4 DEF Types, Drafts
<1> QED BY <1>4, <1>5, <1>6 DEF Types

LEMMA SettleFacts ==
  ASSUME Types, NEW r \in Reviewer, Approve(r) \/ Reject(r)
  PROVE  /\ opened[r] \in EventId /\ opened[r][2] \in Ticket /\ event[opened[r]] # "none"
         /\ opened' = [opened EXCEPT ![r] = Nothing]
         /\ raced' = IF event[opened[r]] = "pending" THEN raced ELSE raced \cup {opened[r][2]}
         /\ UNCHANGED <<setup, now, updated, source, cursor, queue, job, paused, events>>
         /\ \/ /\ event' = [event EXCEPT ![opened[r]] = "processed"]
               /\ items' = [items EXCEPT ![opened[r][2]] = @ + 1]
            \/ event' = [event EXCEPT ![opened[r]] = "ignored"] /\ UNCHANGED items
<1>1. opened[r] \in EventId /\ event[opened[r]] # "none"
  BY DEF Approve, Reject, Settle, Types, StateTypes, Loaded
<1>2. opened[r][2] \in Ticket
  BY <1>1 DEF EventId
<1> QED BY <1>1, <1>2 DEF Approve, Reject, Settle

LEMMA ReviewTypes ==
  ASSUME Types, NEW r \in Reviewer, Approve(r) \/ Reject(r) \/ \E id \in EventId : Open(r, id)
  PROVE  Types'
<1>1. CASE Approve(r) \/ Reject(r)
  <2>1. event' \in [EventId -> Status] /\ items' \in [Ticket -> Nat] /\ raced' \subseteq Ticket
    BY <1>1, SettleFacts DEF Types, StateTypes, Status
  <2>2. StateTypes'
    BY <1>1, <2>1, SettleFacts DEF Types, StateTypes
  <2>3. \A id \in EventId : event'[id] = "none" <=> event[id] = "none"
    BY <1>1, SettleFacts DEF Types, StateTypes
  <2>4. UNCHANGED <<pc, task, since, upto, todo, takes, draft>>
        /\ opened' = [opened EXCEPT ![r] = Nothing]
    BY <1>1, SettleFacts DEF job
  <2>5. JobTypes' /\ Drafts'
    BY <2>3, <2>4 DEF Types, JobTypes, Drafts
  <2>6. Loaded'
    <3> SUFFICES ASSUME NEW q \in Reviewer, opened'[q] # Nothing PROVE event'[opened'[q]] # "none"
      BY DEF Loaded
    <3>1. opened'[q] = opened[q] /\ opened[q] \in EventId
      BY <2>4 DEF Types, StateTypes
    <3> QED BY <2>3, <3>1 DEF Types, Loaded
  <2> QED BY <2>2, <2>5, <2>6 DEF Types
<1>2. ASSUME NEW id \in EventId, Open(r, id) PROVE Types'
  <2>1. /\ event[id] = "pending" /\ opened' = [opened EXCEPT ![r] = id]
        /\ UNCHANGED <<setup, now, updated, source, cursor, event, items, queue, job, history, events>>
    BY <1>2 DEF Open
  <2>2. StateTypes' /\ Loaded'
    BY <2>1 DEF Types, StateTypes, Loaded, history
  <2>3. JobTypes' /\ Drafts'
    BY <2>1 DEF Types, JobTypes, Drafts, job
  <2> QED BY <2>2, <2>3 DEF Types
<1> QED BY <1>1, <1>2

LEMMA StepTypes == ASSUME Types, [Next]_vars PROVE Types'
<1>1. ASSUME NEW w \in Worker, Work(w) \/ Fails(w) PROVE Types'
  BY <1>1, TakeTypes, FetchTypes, ScanTypes, FailTypes, CommitTypes DEF Work
<1>2. CASE UNCHANGED vars
  BY <1>2 DEF vars, job, history, Types, StateTypes, JobTypes, Drafts, Loaded
<1> QED BY <1>1, <1>2, HelpdeskTypes, ReviewTypes DEF Next

-----------------------------------------------------------------------------
(* The clocks, and the pauses.                                               *)

LEMMA NothingMatches == ASSUME Types, Past, Matching = Nothing PROVE paused
  BY SentinelAssumption DEF Types, StateTypes, Past, Matching

\* What the helpdesk, the beat and an administrator leave alone.
LEMMA HelpdeskFacts ==
  ASSUME Types,
         \/ Tick \/ (\E field \in DOMAIN source : Edit(field))
         \/ \E c \in Ticket : NewTicket(c) \/ Reply(c) \/ Touch(c)
         \/ \E c \in Ticket, kind \in {"created", "replied"} : HookAgain(c, kind)
  PROVE  /\ UNCHANGED <<cursor, event, items, pc, since, upto, todo, takes, draft, raced>>
         /\ \A c \in Ticket : updated'[c] \in {updated[c], now}
         /\ now' = now \/ now' = now + 1
         /\ paused => paused'
         /\ UNCHANGED source \/ (~source'.active => paused')
<1>1. CASE Tick
  BY <1>1 DEF Tick, job, history
<1>2. CASE \E field \in DOMAIN source : Edit(field)
  BY <1>2 DEF Edit, job
<1>3. ASSUME NEW c \in Ticket, NewTicket(c) \/ Reply(c) \/ Touch(c)
      PROVE  /\ UNCHANGED <<cursor, event, items, pc, since, upto, todo, takes, draft, raced>>
             /\ \A d \in Ticket : updated'[d] \in {updated[d], now}
             /\ UNCHANGED <<now, paused, source>>
  BY <1>3 DEF NewTicket, Reply, Touch, Arrive, job, history, Types, StateTypes
<1>4. CASE \E c \in Ticket, kind \in {"created", "replied"} : HookAgain(c, kind)
  BY <1>4 DEF HookAgain, job, history
<1> QED BY <1>1, <1>2, <1>3, <1>4

LEMMA FetchFacts ==
  ASSUME Types, NEW w \in Worker, Fetch(w)
  PROVE  /\ pc[w] = "fetch" /\ pc' = [pc EXCEPT ![w] = "scan"]
         /\ UNCHANGED <<now, updated, source, cursor, event, since, draft, paused, raced, items>>
         /\ takes'[w] \in {Matching, takes[w]} /\ \A v \in Worker \ {w} : takes'[v] = takes[v]
         /\ \E t \in Time : Latest(w, t) /\ upto' = [upto EXCEPT ![w] = t]
         /\ todo' = [todo EXCEPT ![w] = IF takes'[w] = Nothing THEN {} ELSE Listed(w)]
  BY DEF Fetch, Types, JobTypes, history

LEMMA StepPast == ASSUME Types, Types', Past, [Next]_vars PROVE Past'
<1>0. /\ now \in Nat /\ cursor \in Nat /\ \A c \in Ticket : updated[c] \in Nat
      /\ \A w \in Worker : since[w] \in Nat /\ upto[w] \in Nat
  BY Bounds DEF Types, StateTypes, JobTypes, Time, Second
<1>1. CASE \/ Tick \/ (\E field \in DOMAIN source : Edit(field))
           \/ \E c \in Ticket : NewTicket(c) \/ Reply(c) \/ Touch(c)
           \/ \E c \in Ticket, kind \in {"created", "replied"} : HookAgain(c, kind)
  BY <1>0, <1>1, HelpdeskFacts DEF Past
<1>2. ASSUME NEW w \in Worker, TakePull(w) PROVE Past'
  <2>1. /\ pc' = [pc EXCEPT ![w] = "fetch"] /\ since' = [since EXCEPT ![w] = cursor]
        /\ takes' = [takes EXCEPT ![w] = Matching]
        /\ UNCHANGED <<now, updated, source, cursor, upto, paused>>
    BY <1>2 DEF TakePull, history
  <2> QED BY <2>1, NothingMatches DEF Past, Types, JobTypes
<1>3. ASSUME NEW w \in Worker, NEW k \in Hook, TakeHook(w, k) PROVE Past'
  <2>1. UNCHANGED <<now, updated, source, cursor, since, upto, paused>>
    BY <1>3 DEF TakeHook, history
  <2>2. CASE Matching = Nothing
    BY <1>3, <2>1, <2>2 DEF TakeHook, Past
  <2>3. CASE Matching # Nothing
    <3>1. pc' = [pc EXCEPT ![w] = "scan"] /\ takes' = [takes EXCEPT ![w] = Matching]
      BY <1>3, <2>3 DEF TakeHook
    <3> QED BY <2>1, <2>3, <3>1 DEF Past, Types, JobTypes
  <2> QED BY <2>2, <2>3
<1>4. ASSUME NEW w \in Worker, Fetch(w) PROVE Past'
  <2>1. PICK t \in Time : Latest(w, t) /\ upto' = [upto EXCEPT ![w] = t]
    BY <1>4, FetchFacts
  <2>2. t <= now
    BY <2>1 DEF Latest, Listed, Past
  <2>3. takes'[w] = Nothing => paused
    BY <1>4, FetchFacts, NothingMatches DEF Past
  <2>4. \A v \in Worker : upto'[v] <= now
    BY <1>0, <2>1, <2>2 DEF Past, Types, JobTypes
  <2>5. \A v \in Worker : pc'[v] # "idle" /\ takes'[v] = Nothing => paused
    BY <1>4, <2>3, FetchFacts DEF Past, Types, JobTypes
  <2> QED BY <1>4, <2>4, <2>5, FetchFacts DEF Past
<1>5. ASSUME NEW w \in Worker, Scan(w) PROVE Past'
  BY <1>5 DEF Scan, Past, Types, JobTypes
<1>6. ASSUME NEW w \in Worker, Refused(w) \/ Fails(w) \/ Commit(w) PROVE Past'
  <2>1. /\ End(w) /\ UNCHANGED <<now, updated, source, paused>>
        /\ cursor' = cursor \/ cursor' = upto[w]
    BY <1>6 DEF Refused, Fails, RollBack, Commit, history
  <2> QED BY <1>0, <2>1, EndFacts DEF Past, Types
<1>7. CASE \/ UNCHANGED vars
           \/ \E r \in Reviewer : Approve(r) \/ Reject(r) \/ \E id \in EventId : Open(r, id)
  <2>1. UNCHANGED <<now, updated, source, cursor, paused, job>>
    BY <1>7, SettleFacts DEF Open, vars, history
  <2> QED BY <2>1 DEF Past, job
<1> QED BY <1>1, <1>2, <1>3, <1>4, <1>5, <1>6, <1>7 DEF Next, Work

-----------------------------------------------------------------------------
(* The cursor passes nothing.                                                *)

\* An event is never forgotten.
LEMMA SeenStays ==
  ASSUME Types, [Next]_vars, NEW id \in EventId, event[id] # "none" PROVE event'[id] # "none"
<1>1. CASE UNCHANGED event
  BY <1>1
<1>2. CASE \E w \in Worker : Commit(w)
  BY <1>2 DEF Commit
<1>3. CASE \E r \in Reviewer : Approve(r) \/ Reject(r)
  BY <1>3, SettleFacts DEF Types, StateTypes
<1>4. CASE ~((\E w \in Worker : Commit(w)) \/ \E r \in Reviewer : Approve(r) \/ Reject(r))
  <2>1. UNCHANGED event
    BY <1>4, HelpdeskFacts DEF Next, Work, TakePull, TakeHook, Fetch, Scan, Refused, Fails, RollBack,
       Open, vars
  <2> QED BY <2>1
<1> QED BY <1>2, <1>3, <1>4

LEMMA SeenKept == ASSUME Types, [Next]_vars, NEW c \in Ticket, Seen(c) PROVE Seen(c)'
  BY SeenStays DEF Seen, EventsOf

\* A step that lets no clock pass a ticket.
LEMMA ClocksKept ==
  ASSUME Types, Past, NothingPassed, [Next]_vars, paused => paused',
         UNCHANGED <<cursor, updated>>,
         \A w \in Worker : since'[w] \in {0, since[w], cursor} /\ upto'[w] \in {0, upto[w]},
         \A w \in Worker, c \in Ticket : UnderWay(w, c) => Seen(c)' \/ UnderWay(w, c)' \/ upto'[w] = 0
  PROVE  NothingPassed'
<1> SUFFICES ASSUME ~paused, NEW c \in Ticket, 0 < updated[c]
             PROVE  /\ updated[c] < cursor => Seen(c)'
                    /\ \A w \in Worker : /\ updated[c] < since'[w] => Seen(c)'
                                         /\ updated[c] < upto'[w] => Seen(c)' \/ UnderWay(w, c)'
  BY DEF NothingPassed
<1>1. updated[c] \in Nat
  BY Bounds DEF Types, StateTypes, Second
<1>2. Seen(c) => Seen(c)'
  BY SeenKept
<1> QED BY <1>1, <1>2 DEF NothingPassed

LEMMA FetchPassed ==
  ASSUME Types, Past, NothingPassed, NEW w \in Worker, Fetch(w), [Next]_vars PROVE NothingPassed'
<1> SUFFICES ASSUME ~paused, NEW c \in Ticket, 0 < updated[c]
             PROVE  /\ updated[c] < cursor => Seen(c)
                    /\ \A v \in Worker : /\ updated[c] < since[v] => Seen(c)
                                         /\ updated[c] < upto'[v] => Seen(c) \/ UnderWay(v, c)'
  BY FetchFacts DEF NothingPassed, Seen
<1>1. PICK t \in Time : Latest(w, t) /\ upto' = [upto EXCEPT ![w] = t]
  BY FetchFacts
<1>2. /\ updated[c] \in Nat /\ since[w] \in Nat /\ t \in Nat /\ now \in Nat
      /\ \A d \in Ticket : updated[d] \in Nat
  BY Bounds DEF Types, StateTypes, JobTypes, Time, Second
<1>3. todo' = [todo EXCEPT ![w] = Listed(w)]
  BY FetchFacts, NothingMatches DEF Past
<1>4. CASE updated[c] < t
  <2>1. CASE c \in Listed(w)
    <3>1. UnderWay(w, c)'
      BY <1>3, <2>1, FetchFacts DEF UnderWay, Types, JobTypes
    <3> QED BY <1>1, <1>4, <3>1, FetchFacts DEF NothingPassed, UnderWay, Drafted, Types, JobTypes
  <2>2. CASE c \notin Listed(w)
    <3>1. updated[c] < since[w]
      BY <1>1, <1>2, <1>4, <2>2 DEF Latest, Listed
    <3>2. Seen(c)
      BY <3>1 DEF NothingPassed
    <3> QED BY <3>2
  <2> QED BY <2>1, <2>2
<1>5. CASE ~(updated[c] < t)
  <2>1. upto'[w] = t /\ \A v \in Worker \ {w} : upto'[v] = upto[v]
    BY <1>1, <1>2 DEF Types, JobTypes
  <2>2. \A v \in Worker \ {w} : UnderWay(v, c) => UnderWay(v, c)'
    BY FetchFacts DEF UnderWay, Drafted, Types, JobTypes
  <2> QED BY <1>5, <2>1, <2>2 DEF NothingPassed
<1> QED BY <1>4, <1>5

LEMMA StepNothingPassed == ASSUME Types, Types', Past, NothingPassed, [Next]_vars PROVE NothingPassed'
<1>1. CASE \/ Tick \/ (\E field \in DOMAIN source : Edit(field))
           \/ \E c \in Ticket : NewTicket(c) \/ Reply(c) \/ Touch(c)
           \/ \E c \in Ticket, kind \in {"created", "replied"} : HookAgain(c, kind)
  <2> SUFFICES ASSUME ~paused, NEW c \in Ticket, 0 < updated'[c]
               PROVE  /\ updated'[c] < cursor => Seen(c)
                      /\ \A w \in Worker : /\ updated'[c] < since[w] => Seen(c)
                                           /\ updated'[c] < upto[w] => Seen(c) \/ UnderWay(w, c)
    BY <1>1, HelpdeskFacts DEF NothingPassed, Seen, UnderWay, Drafted
  <2>1. /\ now \in Nat /\ cursor \in Nat /\ \A w \in Worker : since[w] \in Nat /\ upto[w] \in Nat
    BY Bounds DEF Types, StateTypes, JobTypes, Time, Second
  <2>2. CASE updated'[c] = updated[c]
    BY <2>2 DEF NothingPassed
  <2>3. CASE updated'[c] = now
    BY <2>1, <2>3 DEF Past
  <2> QED BY <1>1, <2>2, <2>3, HelpdeskFacts
<1>2. ASSUME NEW w \in Worker, TakePull(w) \/ \E k \in Hook : TakeHook(w, k) PROVE NothingPassed'
  <2>1. /\ UNCHANGED <<cursor, updated, paused, upto, draft>>
        /\ since' = since \/ since' = [since EXCEPT ![w] = cursor]
        /\ pc[w] = "idle" /\ \A v \in Worker \ {w} : pc'[v] = pc[v] /\ todo'[v] = todo[v]
    BY <1>2 DEF TakePull, TakeHook, history, Types, JobTypes
  <2>2. \A v \in Worker : since'[v] \in {0, since[v], cursor} /\ upto'[v] \in {0, upto[v]}
    BY <2>1 DEF Types, JobTypes
  <2>3. \A v \in Worker, c \in Ticket : UnderWay(v, c) => UnderWay(v, c)'
    BY <2>1 DEF UnderWay, Drafted
  <2> QED BY <2>1, <2>2, <2>3, ClocksKept
<1>3. CASE \E w \in Worker : Fetch(w)
  BY <1>3, FetchPassed
<1>4. ASSUME NEW w \in Worker, Scan(w) PROVE NothingPassed'
  <2>1. /\ UNCHANGED <<cursor, updated, paused, since, upto, event, todo>>
        /\ pc' = [pc EXCEPT ![w] = "commit"] /\ pc[w] = "scan"
    BY <1>4 DEF Scan
  <2>2. ASSUME NEW c \in todo[w], c \in Ticket PROVE Seen(c)' \/ UnderWay(w, c)'
    <3>1. CASE Outcome(w, c) = "none"
      <4>1. Known(w, c) /\ draft[w] = NoRows
        BY <1>4, <2>2, <3>1, OutcomeRange, ScanFacts
      <4>2. Stored(c, event)
        BY <4>1 DEF Known, Stored, NoRows, EventsOf
      <4>3. Seen(c)
        BY <4>2 DEF Stored, Seen
      <4> QED BY <2>1, <4>3 DEF Seen
    <3>2. CASE Outcome(w, c) # "none"
      <4>1. draft'[w][IdOf(w, c)] # "none" /\ IdOf(w, c) \in EventsOf(c)
        BY <1>4, <2>2, <3>2, ScanFacts, IdOfType
      <4>2. \E id \in EventsOf(c) : draft'[w][id] # "none"
        BY <4>1
      <4> QED BY <2>1, <4>2 DEF UnderWay, Drafted, Types, JobTypes
    <3> QED BY <3>1, <3>2
  <2>3. ASSUME NEW v \in Worker, NEW c \in Ticket, UnderWay(v, c) PROVE Seen(c)' \/ UnderWay(v, c)'
    <3>1. CASE v = w
      BY <2>1, <2>2, <2>3, <3>1 DEF UnderWay
    <3>2. CASE v # w
      BY <1>4, <2>1, <2>3, <3>2, ScanFacts DEF UnderWay, Drafted, Types, JobTypes
    <3> QED BY <3>1, <3>2
  <2> QED BY <2>1, <2>3, ClocksKept
<1>5. ASSUME NEW w \in Worker, Refused(w) \/ Fails(w) PROVE NothingPassed'
  <2>1. End(w) /\ UNCHANGED <<cursor, updated, paused>>
    BY <1>5 DEF Refused, Fails, RollBack, history
  <2>2. \A v \in Worker : since'[v] \in {0, since[v], cursor} /\ upto'[v] \in {0, upto[v]}
    BY <2>1, EndFacts DEF Types
  <2>3. \A v \in Worker, c \in Ticket : UnderWay(v, c) => UnderWay(v, c)' \/ upto'[v] = 0
    BY <2>1, EndFacts DEF Types, UnderWay, Drafted
  <2> QED BY <2>1, <2>2, <2>3, ClocksKept
<1>6. ASSUME NEW w \in Worker, Commit(w) PROVE NothingPassed'
  <2>1. /\ End(w) /\ UNCHANGED <<updated, paused>> /\ pc[w] = "commit"
        /\ cursor' \in {cursor, upto[w]}
        /\ event' = [id \in EventId |-> IF draft[w][id] = "none" THEN event[id] ELSE draft[w][id]]
    BY <1>6 DEF Commit, history
  <2>2. ASSUME NEW c \in Ticket, UnderWay(w, c) PROVE Seen(c)'
    BY <2>1, <2>2 DEF UnderWay, Drafted, Seen, EventsOf
  <2>3. \A c \in Ticket : Seen(c) => Seen(c)'
    BY SeenKept
  <2>4. ASSUME NEW v \in Worker \ {w}, NEW c \in Ticket, UnderWay(v, c) PROVE UnderWay(v, c)'
    BY <2>1, <2>4, EndFacts DEF UnderWay, Drafted, Types
  <2> SUFFICES ASSUME ~paused, NEW c \in Ticket, 0 < updated[c]
               PROVE  /\ updated[c] < cursor' => Seen(c)'
                      /\ \A v \in Worker : /\ updated[c] < since'[v] => Seen(c)'
                                           /\ updated[c] < upto'[v] => Seen(c)' \/ UnderWay(v, c)'
    BY <2>1 DEF NothingPassed
  <2>5. updated[c] < cursor \/ updated[c] < upto[w] => Seen(c)'
    BY <2>2, <2>3 DEF NothingPassed
  <2>6. updated[c] \in Nat
    BY Bounds DEF Types, StateTypes, Second
  <2>7. ASSUME NEW v \in Worker
        PROVE  /\ updated[c] < since'[v] => Seen(c)'
               /\ updated[c] < upto'[v] => Seen(c)' \/ UnderWay(v, c)'
    <3>1. CASE v = w
      BY <2>1, <2>6, <3>1, EndFacts DEF Types
    <3>2. CASE v # w
      BY <2>1, <2>3, <2>4, <3>2, EndFacts DEF Types, NothingPassed
    <3> QED BY <3>1, <3>2
  <2> QED BY <2>1, <2>5, <2>7
<1>7. CASE \/ UNCHANGED vars
           \/ \E r \in Reviewer : Approve(r) \/ Reject(r) \/ \E id \in EventId : Open(r, id)
  <2>1. UNCHANGED <<updated, cursor, paused, pc, todo, since, upto, draft>>
    BY <1>7, SettleFacts DEF Open, vars, job, history
  <2> QED BY <2>1, ClocksKept DEF UnderWay, Drafted
<1> QED BY <1>1, <1>2, <1>3, <1>4, <1>5, <1>6, <1>7 DEF Next, Work

-----------------------------------------------------------------------------
(* Once per ticket.                                                          *)

LEMMA StoredMeans ==
  ASSUME NEW c, NEW status, Stored(c, status)
  PROVE  \E id \in EventsOf(c) : status[id] \in Decided
  BY DEF Stored, Decided

LEMMA MeansStored ==
  ASSUME NEW c, NEW status, NEW id \in EventsOf(c), status[id] \in Decided
  PROVE  Stored(c, status)
  BY DEF Stored, Decided

LEMMA NoneIsUndecided == "none" \notin Decided /\ "ignored" \notin Decided /\ "pending" \in Decided
                         /\ "processed" \in Decided
  BY DEF Decided

\* A step that decides nothing about the ticket.
LEMMA OnceKept ==
  ASSUME Types, Once, NEW c \in Ticket \ raced, items'[c] = items[c],
         \A id \in EventsOf(c) : event'[id] = event[id],
         \A w \in Worker, id \in EventsOf(c) : draft'[w][id] \in {draft[w][id], "none"}
  PROVE  OnceAt(c)'
<1>1. OnceAt(c)
  BY DEF Once
<1>2. (items[c] = IF \E id \in EventsOf(c) : event[id] = "processed" THEN 1 ELSE 0)'
  BY <1>1 DEF OnceAt
<1>3. \A w \in Worker, id \in EventsOf(c) : draft'[w][id] \in Decided => draft[w][id] \in Decided
  BY NoneIsUndecided
<1> QED BY <1>1, <1>2, <1>3 DEF OnceAt

LEMMA QuietFacts ==
  ASSUME Types, [Next]_vars,
         ~((\E w \in Worker : Scan(w) \/ Commit(w)) \/ \E r \in Reviewer : Approve(r) \/ Reject(r))
  PROVE  /\ UNCHANGED <<event, items, raced>>
         /\ \A w \in Worker, id \in EventId : draft'[w][id] \in {draft[w][id], "none"}
<1>1. CASE \/ Tick \/ (\E field \in DOMAIN source : Edit(field))
           \/ \E c \in Ticket : NewTicket(c) \/ Reply(c) \/ Touch(c)
           \/ \E c \in Ticket, kind \in {"created", "replied"} : HookAgain(c, kind)
  BY <1>1, HelpdeskFacts
<1>2. ASSUME NEW w \in Worker, TakePull(w) \/ (\E k \in Hook : TakeHook(w, k)) \/ Fetch(w)
      PROVE  UNCHANGED <<event, items, raced, draft>>
  BY <1>2 DEF TakePull, TakeHook, Fetch, history
<1>3. ASSUME NEW w \in Worker, Refused(w) \/ Fails(w)
      PROVE  End(w) /\ UNCHANGED <<event, items, raced>>
  BY <1>3 DEF Refused, Fails, RollBack, history
<1>4. ASSUME NEW w \in Worker, Refused(w) \/ Fails(w)
      PROVE  \A v \in Worker, id \in EventId : draft'[v][id] \in {draft[v][id], "none"}
  BY <1>3, <1>4, EndFacts DEF Types, NoRows
<1>5. CASE UNCHANGED vars \/ \E r \in Reviewer, id \in EventId : Open(r, id)
  BY <1>5 DEF vars, Open, job, history
<1> QED BY <1>1, <1>2, <1>3, <1>4, <1>5 DEF Next, Work

LEMMA ScanOnce == ASSUME Types, Once, NEW w \in Worker, Scan(w) PROVE Once'
<1>1. UNCHANGED <<event, items>> /\ raced' = raced \cup {c \in todo[w] : DecidedElsewhere(w, c)}
  BY DEF Scan
<1> SUFFICES ASSUME NEW c \in Ticket, c \notin raced' PROVE OnceAt(c)'
  BY DEF Once
<1>2. OnceAt(c) /\ c \in Ticket \ raced
  BY <1>1 DEF Once
<1>3. CASE \A id \in EventsOf(c) : draft'[w][id] \notin Decided
  <2>1. ASSUME NEW v \in Worker, NEW id \in EventsOf(c), draft'[v][id] \in Decided
        PROVE  v # w /\ draft[v][id] \in Decided
    BY <1>3, <2>1, ScanFacts
  <2>2. (items[c] = IF \E id \in EventsOf(c) : event[id] = "processed" THEN 1 ELSE 0)'
    BY <1>1, <1>2 DEF OnceAt
  <2> QED BY <1>1, <1>2, <2>1, <2>2 DEF OnceAt
<1>4. CASE \E id \in EventsOf(c) : draft'[w][id] \in Decided
  <2>1. PICK mine \in EventsOf(c) : draft'[w][mine] \in Decided
    BY <1>4
  <2>2. mine \in EventId /\ mine[2] = c /\ draft'[w][mine] # "none"
    BY <2>1, NoneIsUndecided DEF EventsOf
  <2>3. c \in todo[w] /\ ~Known(w, c)
    BY <2>1, <2>2, ScanFacts
  <2>4. \A v \in Worker \ {w}, id \in EventsOf(c) : draft[v][id] \notin Decided
    BY <1>1, <2>3, MeansStored DEF DecidedElsewhere
  <2>5. \A id \in EventsOf(c) : event[id] \notin Decided
    BY <2>3, MeansStored DEF Known
  <2>6. \A v \in Worker \ {w}, id \in EventsOf(c) : draft'[v][id] \notin Decided
    BY <2>4, ScanFacts
  <2>7. (items[c] = IF \E id \in EventsOf(c) : event[id] = "processed" THEN 1 ELSE 0)'
    BY <1>1, <1>2 DEF OnceAt
  <2> QED BY <1>1, <2>5, <2>6, <2>7 DEF OnceAt
<1> QED BY <1>3, <1>4

LEMMA CommitOnce == ASSUME Types, Once, NEW w \in Worker, Commit(w) PROVE Once'
<1>1. /\ End(w) /\ UNCHANGED raced
      /\ event' = [id \in EventId |-> IF draft[w][id] = "none" THEN event[id] ELSE draft[w][id]]
      /\ items' = [c \in Ticket |-> items[c] + Cardinality(Made(w, c))]
  BY DEF Commit, history, Made
<1> SUFFICES ASSUME NEW c \in Ticket, c \notin raced PROVE OnceAt(c)'
  BY <1>1 DEF Once
<1>2. OnceAt(c) /\ items[c] \in Nat /\ items'[c] = items[c] + Cardinality(Made(w, c))
  BY <1>1 DEF Once, Types, StateTypes
<1>3. Cardinality(Made(w, c)) = IF Made(w, c) = {} THEN 0 ELSE 1
  BY MadeCount
<1>4. /\ \A id \in EventsOf(c) : draft'[w][id] \notin Decided
      /\ \A v \in Worker \ {w} : draft'[v] = draft[v]
  BY <1>1, EndFacts, NoneIsUndecided DEF Types, NoRows, EventsOf
<1>5. \A id \in EventsOf(c) :
        event'[id] = IF draft[w][id] = "none" THEN event[id] ELSE draft[w][id]
  BY <1>1 DEF EventsOf
<1>6. CASE \A id \in EventsOf(c) : draft[w][id] \notin Decided
  <2>1. Made(w, c) = {}
    BY <1>6, NoneIsUndecided DEF Made
  <2>2. \A id \in EventsOf(c) : /\ draft[w][id] # "none" => event[id] = "none"
                                /\ event'[id] \in Decided => event'[id] = event[id]
    BY <1>5, <1>6 DEF Types, Drafts, EventsOf
  <2>3. \A id \in EventsOf(c) : event'[id] = "processed" <=> event[id] = "processed"
    BY <1>5, <1>6, <2>2, NoneIsUndecided
  <2>4. (items[c] = IF \E id \in EventsOf(c) : event[id] = "processed" THEN 1 ELSE 0)'
    BY <1>2, <1>3, <2>1, <2>3 DEF OnceAt
  <2> QED BY <1>2, <1>4, <2>2, <2>4 DEF OnceAt
<1>7. CASE \E id \in EventsOf(c) : draft[w][id] \in Decided
  <2>1. PICK mine \in EventsOf(c) : draft[w][mine] \in Decided
    BY <1>7
  <2>2. \A id \in EventsOf(c) : id # mine => draft[w][id] = "none"
    BY <2>1, NoneIsUndecided DEF Types, Drafts, EventsOf
  <2>3. \A id \in EventsOf(c) : event[id] \notin Decided
    BY <1>2, <2>1 DEF OnceAt
  <2>4. \A v \in Worker \ {w}, id \in EventsOf(c) : draft[v][id] \notin Decided
    BY <1>2, <2>1 DEF OnceAt
  <2>5. /\ event'[mine] = draft[w][mine]
        /\ \A id \in EventsOf(c) : id # mine => event'[id] \notin Decided
    BY <1>5, <2>1, <2>2, <2>3, NoneIsUndecided
  <2>6. items[c] = 0
    BY <1>2, <2>3, NoneIsUndecided DEF OnceAt
  <2>7. Made(w, c) # {} <=> draft[w][mine] = "processed"
    BY <2>2 DEF Made
  <2>8. (\E id \in EventsOf(c) : event'[id] = "processed") <=> draft[w][mine] = "processed"
    BY <2>5, NoneIsUndecided
  <2>9. (items[c] = IF \E id \in EventsOf(c) : event[id] = "processed" THEN 1 ELSE 0)'
    BY <1>2, <1>3, <2>6, <2>7, <2>8
  <2> QED BY <1>4, <2>4, <2>5, <2>9 DEF OnceAt
<1> QED BY <1>6, <1>7

LEMMA ReviewOnce == ASSUME Types, Once, NEW r \in Reviewer, Approve(r) \/ Reject(r) PROVE Once'
<1> DEFINE mine == opened[r]
<1> SUFFICES ASSUME NEW c \in Ticket, c \notin raced' PROVE OnceAt(c)'
  BY DEF Once
<1>1. mine \in EventId /\ UNCHANGED draft /\ c \in Ticket \ raced /\ OnceAt(c)
  BY SettleFacts DEF job, Once
<1>2. CASE c # mine[2]
  <2>1. \A id \in EventsOf(c) : event'[id] = event[id]
    BY <1>2, SettleFacts DEF EventsOf, Types, StateTypes
  <2>2. items'[c] = items[c]
    BY <1>1, <1>2, SettleFacts DEF Types, StateTypes
  <2> QED BY <1>1, <2>1, <2>2, OnceKept
<1>3. CASE c = mine[2]
  <2>1. event[mine] = "pending" /\ mine \in EventsOf(c)
    BY <1>1, <1>3, SettleFacts DEF EventsOf
  <2>2. /\ \A id \in EventsOf(c) : id # mine => event[id] \notin Decided
        /\ \A w \in Worker, id \in EventsOf(c) : draft[w][id] \notin Decided
    BY <1>1, <2>1, NoneIsUndecided DEF OnceAt
  <2>3. items[c] = 0
    <3>1. \A id \in EventsOf(c) : event[id] # "processed"
      BY <2>1, <2>2, NoneIsUndecided
    <3> QED BY <1>1, <3>1 DEF OnceAt
  <2>4. /\ \A id \in EventsOf(c) : id # mine => event'[id] = event[id]
        /\ \/ event'[mine] = "processed" /\ items'[c] = 1
           \/ event'[mine] = "ignored" /\ items'[c] = 0
    BY <1>1, <1>3, <2>3, SettleFacts DEF EventsOf, Types, StateTypes
  <2>5. (items[c] = IF \E id \in EventsOf(c) : event[id] = "processed" THEN 1 ELSE 0)'
    BY <2>1, <2>2, <2>4, NoneIsUndecided
  <2> QED BY <1>1, <2>2, <2>4, <2>5 DEF OnceAt
<1> QED BY <1>2, <1>3

LEMMA StepOnce == ASSUME Types, Once, [Next]_vars PROVE Once'
<1>1. CASE ~((\E w \in Worker : Scan(w) \/ Commit(w)) \/ \E r \in Reviewer : Approve(r) \/ Reject(r))
  <2>1. \A c \in Ticket \ raced : OnceAt(c)'
    BY <1>1, QuietFacts, OnceKept DEF EventsOf
  <2> QED BY <1>1, <2>1, QuietFacts DEF Once
<1> QED BY <1>1, ScanOnce, CommitOnce, ReviewOnce

-----------------------------------------------------------------------------
LEMMA Invariance == Spec => []IInv
<1>1. Init => IInv
  BY InitIInv
<1>2. IInv /\ [Next]_vars => IInv'
  BY StepTypes, StepPast, StepNothingPassed, StepOnce DEF IInv
<1> QED BY <1>1, <1>2, PTL DEF Spec

\* Every variable keeps its type, and no two rows, flushed or committed, have the same
\* source and external id.
THEOREM TypeCorrect == Spec => []TypeOK
<1>1. IInv => TypeOK
  <2> SUFFICES ASSUME IInv PROVE TypeOK
    OBVIOUS
  <2>1. updated \in [Ticket -> Time] /\ cursor \in Time
    BY Bounds DEF IInv, Types, StateTypes
  <2>2. since \in [Worker -> Time] /\ upto \in [Worker -> Time]
    BY Bounds DEF IInv, Types, JobTypes
  <2>3. setup.crew \subseteq Worker
    BY SetupFields DEF IInv, Types, StateTypes
  <2> QED BY <2>1, <2>2, <2>3 DEF IInv, Types, StateTypes, JobTypes, Drafts, TypeOK
<1> QED BY <1>1, Invariance, PTL

\* The cursor of a source that was never switched off has passed no ticket without an
\* event, whatever pulls overlapped, failed or lost their process.
THEOREM NoTicketPassedOver == Spec => []CursorLosesNothing
<1>1. IInv => CursorLosesNothing
  BY DEF IInv, NothingPassed, CursorLosesNothing
<1> QED BY <1>1, Invariance, PTL

\* Pull, webhooks and review make one feedback item of a ticket, unless two of them
\* decided about it at the same time.
THEOREM ImportedOnce == Spec => []OnceUnlessOverlap
<1>1. IInv => OnceUnlessOverlap
  <2> SUFFICES ASSUME IInv, NEW c \in Ticket \ raced
               PROVE  items[c] <= 1
                      /\ items[c] = Cardinality({id \in EventsOf(c) : event[id] = "processed"})
    BY DEF OnceUnlessOverlap
  <2> DEFINE done == {id \in EventsOf(c) : event[id] = "processed"}
  <2>1. OnceAt(c)
    BY DEF IInv, Once
  <2>2. CASE done = {}
    BY <2>1, <2>2, FS_EmptySet DEF OnceAt
  <2>3. CASE done # {}
    <3>1. PICK id \in EventsOf(c) : event[id] = "processed"
      BY <2>3
    <3>2. done = {id}
      BY <2>1, <3>1, NoneIsUndecided DEF OnceAt
    <3> QED BY <2>1, <3>1, <3>2, FS_Singleton DEF OnceAt
  <2> QED BY <2>2, <2>3
<1> QED BY <1>1, Invariance, PTL
=============================================================================
