--------------------------- MODULE FeedbackAnalysis ---------------------------
(***************************************************************************)
(* The analysis of feedback items.  A new item is queued for a task of its *)
(* own, imports and re-analyses for a batch; a sweep analyses whatever has *)
(* no label yet, and another repeats with the language model what had to   *)
(* do without it.  Each of the four reads the text, analyses it for a      *)
(* while, and commits the label; only the task of a single item announces  *)
(* the result.  Meanwhile the text is edited: a route clears the label in  *)
(* the same commit and analyses at once, an enrichment clears it in a      *)
(* second commit and queues a batch.  Edits overlap each other and the     *)
(* tasks, and the ORM writes a column only if its value differs from the   *)
(* one it loaded: who loaded a row without a label does not clear it.      *)
(*                                                                         *)
(* A label is the version of the text it was computed from.                *)
(***************************************************************************)
EXTENDS Integers, FiniteSets

CONSTANTS
  Item, Worker,
  Requester,     \* what edits items: a request of the API, a task that enriches
  Arrivals,      \* sets of items that come together: alone, or as an import
  Email,         \* items whose customer is known: their analysis commits on the way
  Edited,        \* bound of the model: items that are edited and deleted
  Nothing, Gone, \* no value; a deleted item
  SweepLimit,    \* analysis_batch_size
  MaxText, MaxEvents, MaxQueue \* bounds of the model: versions of a text; edits, requests
                 \*   and faults together; messages of a task

Version == 1..MaxText
Kind == {"single", "batch", "sweep", "llm"}
Task == [kind : {"single"}, items : {{i} : i \in Item}]
        \cup [kind : {"batch"}, items : (SUBSET Item) \ {{}}]

ASSUME ConstantAssumption ==
  /\ Email \subseteq Item /\ Edited \subseteq Item /\ Arrivals \subseteq (SUBSET Item) \ {{}}
  /\ Nothing \notin Worker \cup Item \cup {Gone} /\ Nothing \notin 0..MaxText
  /\ Gone \notin 0..MaxText
  /\ SweepLimit \in Nat \ {0} /\ MaxText \in Nat \ {0}
  /\ {MaxEvents, MaxQueue} \subseteq Nat

VARIABLES
  text,          \* committed version of each item; 0 before it exists
  label,         \* sentiment_label
  pending,       \* llm_analysis_pending
  told,          \* times the analysis was announced since the label was last cleared
  queue,         \* messages
  lock,          \* Redis: who holds the lock of the sweep and of the retry
  job,           \* what a worker does
  task,          \* the message it took
  stage,         \* items it has to do, and has done but not committed
  held,          \* the version of the text its session holds
  req, reqItem,  \* what a requester does next, to which item
  reqHad,        \* the row had a label when its session loaded it
  reqHeld,       \* the version of the text its own analysis holds
  events,
  crossed,       \* items of which, when an edit cleared them, an analysis held an older
                 \*   text or the ORM did not write over the label
  raced          \* items two analyses held, or the clearing met one, since then

worker  == <<job, task, stage, held>>
request == <<req, reqItem, reqHad, reqHeld>>
ghosts  == <<crossed, raced>>
vars == <<text, label, pending, told, queue, lock, worker, request, events, ghosts>>

Exists(i) == text[i] \in Version
Unanalysed == {i \in Item : Exists(i) /\ label[i] = Nothing}
AllOut == [i \in Item |-> "out"]
AllNothing == [i \in Item |-> Nothing]
In(w, s) == {i \in Item : stage[w][i] = s}
Holds(w, i) == stage[w][i] # "out" /\ held[w][i] # Nothing
Writes(r, i) == req[r] = "write" /\ reqItem[r] = i
Enriching(i) == \E r \in Requester : reqItem[r] = i /\ req[r] \in {"load", "clear"}
Event == events < MaxEvents /\ events' = events + 1
Publish(t) == queue[t] < MaxQueue /\ queue' = [queue EXCEPT ![t] = @ + 1]
PublishOrLose(t) ==
  \/ Publish(t) /\ UNCHANGED events
  \/ Event /\ UNCHANGED queue

TypeOK ==
  /\ text \in [Item -> Version \cup {0, Gone}]
  /\ label \in [Item -> Version \cup {Nothing}]
  /\ pending \in [Item -> BOOLEAN]
  /\ told \in [Item -> Nat]
  /\ queue \in [Task -> 0..MaxQueue]
  /\ lock \in [{"sweep", "llm"} -> Worker \cup {Nothing}]
  /\ job \in [Worker -> {"idle", "tell"} \cup Kind]
  /\ task \in [Worker -> Task \cup {Nothing}]
  /\ stage \in [Worker -> [Item -> {"out", "todo", "done"}]]
  /\ held \in [Worker -> [Item -> Version \cup {Nothing}]]
  /\ req \in [Requester -> {"idle", "patch", "load", "clear", "force", "read", "write"}]
  /\ reqItem \in [Requester -> Item \cup {Nothing}]
  /\ reqHad \in [Requester -> BOOLEAN]
  /\ reqHeld \in [Requester -> Version \cup {Nothing}]
  /\ events \in 0..MaxEvents
  /\ crossed \in [Item -> BOOLEAN] /\ raced \in [Item -> BOOLEAN]
  /\ \A w \in Worker : job[w] \in {"sweep", "llm"} => lock[job[w]] = w
  /\ \A w \in Worker : job[w] = "idle" => stage[w] = AllOut /\ held[w] = AllNothing

Init ==
  /\ text = [i \in Item |-> 0]
  /\ label = AllNothing
  /\ pending = [i \in Item |-> FALSE]
  /\ told = [i \in Item |-> 0]
  /\ queue = [t \in Task |-> 0]
  /\ lock = [k \in {"sweep", "llm"} |-> Nothing]
  /\ job = [w \in Worker |-> "idle"]
  /\ task = [w \in Worker |-> Nothing]
  /\ stage = [w \in Worker |-> AllOut]
  /\ held = [w \in Worker |-> AllNothing]
  /\ req = [r \in Requester |-> "idle"] /\ reqItem = [r \in Requester |-> Nothing]
  /\ reqHad = [r \in Requester |-> FALSE] /\ reqHeld = [r \in Requester |-> Nothing]
  /\ events = 0
  /\ crossed = [i \in Item |-> FALSE] /\ raced = [i \in Item |-> FALSE]

-----------------------------------------------------------------------------
(* The routes and the ingestion.                                           *)

\* Items are committed, then queued: one alone, an import as a batch.
Create(S) ==
  /\ \A i \in S : text[i] = 0
  /\ text' = [i \in Item |-> IF i \in S THEN 1 ELSE text[i]]
  /\ PublishOrLose([kind |-> IF Cardinality(S) = 1 THEN "single" ELSE "batch", items |-> S])
  /\ UNCHANGED <<label, pending, told, lock, worker, request, ghosts>>

\* An edit begins: the session loads the row.
Starts(r, i, stage0) ==
  /\ req[r] = "idle" /\ Exists(i) /\ Event
  /\ req' = [req EXCEPT ![r] = stage0] /\ reqItem' = [reqItem EXCEPT ![r] = i]

Loads(r, i) == reqHad' = [reqHad EXCEPT ![r] = (label[i] # Nothing)]

RequestEnd(r) ==
  /\ req' = [req EXCEPT ![r] = "idle"] /\ reqItem' = [reqItem EXCEPT ![r] = Nothing]
  /\ reqHad' = [reqHad EXCEPT ![r] = FALSE] /\ reqHeld' = [reqHeld EXCEPT ![r] = Nothing]

\* Somebody is about to write a label of another version than v.
HeldOlder(i, v) ==
  \/ \E w \in Worker : Holds(w, i) /\ held[w][i] # v
  \/ \E r \in Requester : Writes(r, i) /\ reqHeld[r] # v

\* A session commits sentiment_label = None, with version v of the text.
Clear(r, i, v) ==
  /\ IF reqHad[r]
     THEN /\ label' = [label EXCEPT ![i] = Nothing]
          /\ told' = [told EXCEPT ![i] = 0]
          /\ raced' = [raced EXCEPT ![i] = \E w \in Worker : stage[w][i] # "out"]
     ELSE UNCHANGED <<label, told, raced>>
  /\ crossed' = [crossed EXCEPT ![i] = HeldOlder(i, v) \/ (~reqHad[r] /\ label[i] # Nothing)]

\* update_feedback: it loads the item, ...
PatchLoad(r, i) ==
  /\ Starts(r, i, "patch") /\ Loads(r, i)
  /\ UNCHANGED <<text, label, pending, told, queue, lock, worker, reqHeld, ghosts>>

\* ... commits the new text and the cleared label, and analyses it in the route.
PatchText(r) ==
  /\ req[r] = "patch" /\ Exists(reqItem[r]) /\ text[reqItem[r]] < MaxText
  /\ text' = [text EXCEPT ![reqItem[r]] = @ + 1]
  /\ Clear(r, reqItem[r], text[reqItem[r]] + 1)
  /\ req' = [req EXCEPT ![r] = "read"]
  /\ UNCHANGED <<pending, queue, lock, worker, reqItem, reqHad, reqHeld, events>>

\* A reply is merged into the text, and committed, before the label is cleared.
Enrich(r, i) ==
  /\ Starts(r, i, "load") /\ text[i] < MaxText
  /\ text' = [text EXCEPT ![i] = @ + 1]
  /\ UNCHANGED <<label, pending, told, queue, lock, worker, reqHad, reqHeld, ghosts>>

\* The "Re-analyze" of a user loads the item.
Reanalyse(r, i) ==
  /\ Starts(r, i, "force") /\ Loads(r, i)
  /\ UNCHANGED <<text, label, pending, told, queue, lock, worker, reqHeld, ghosts>>

Delete(i) ==
  /\ Exists(i) /\ Event
  /\ text' = [text EXCEPT ![i] = Gone]
  /\ label' = [label EXCEPT ![i] = Nothing] /\ pending' = [pending EXCEPT ![i] = FALSE]
  /\ told' = [told EXCEPT ![i] = 0]
  /\ crossed' = [crossed EXCEPT ![i] = FALSE] /\ raced' = [raced EXCEPT ![i] = FALSE]
  /\ UNCHANGED <<queue, lock, worker, request>>

\* Mutated form of RequestClear: the message is sent without clearing the label.
RequestClearNot(r) ==
  /\ req[r] \in {"clear", "force"} /\ Exists(reqItem[r]) /\ RequestEnd(r)
  /\ PublishOrLose([kind |-> "batch", items |-> {reqItem[r]}])
  /\ UNCHANGED <<text, label, told, pending, lock, worker, ghosts>>

\* reanalyze_feedback loads the enriched item again; it and the route of the user
\* commit the cleared label, then queue a batch.
RequestLoad(r) ==
  /\ req[r] = "load" /\ Exists(reqItem[r]) /\ Loads(r, reqItem[r])
  /\ req' = [req EXCEPT ![r] = "clear"]
  /\ UNCHANGED <<text, label, pending, told, queue, lock, worker, reqItem, reqHeld, events,
                 ghosts>>

RequestClear(r) ==
  /\ req[r] \in {"clear", "force"} /\ Exists(reqItem[r]) /\ RequestEnd(r)
  /\ Clear(r, reqItem[r], text[reqItem[r]])
  /\ PublishOrLose([kind |-> "batch", items |-> {reqItem[r]}])
  /\ UNCHANGED <<text, pending, lock, worker>>

\* The analysis in the route reads the committed row again.
RequestRead(r) ==
  /\ req[r] = "read" /\ Exists(reqItem[r]) /\ Loads(r, reqItem[r])
  /\ req' = [req EXCEPT ![r] = "write"]
  /\ reqHeld' = [reqHeld EXCEPT ![r] = text[reqItem[r]]]
  /\ UNCHANGED <<text, label, pending, told, queue, lock, worker, reqItem, events, ghosts>>

\* A result equal to the label it read is not written.
RequestWrite(r) ==
  /\ req[r] = "write" /\ Exists(reqItem[r]) /\ RequestEnd(r)
  /\ \/ label' = [label EXCEPT ![reqItem[r]] = reqHeld[r]]
     \/ reqHad[r] /\ UNCHANGED label
  /\ UNCHANGED <<text, pending, told, queue, lock, worker, events, ghosts>>

\* The item is gone, the analysis fails or the process is lost.  Nothing repeats the
\* second commit of an enrichment: its text is merged already.
RequestFails(r) ==
  /\ req[r] # "idle" /\ RequestEnd(r)
  /\ Event \/ (~Exists(reqItem[r]) /\ UNCHANGED events)
  /\ crossed' = [crossed EXCEPT ![reqItem[r]] = @ \/ req[r] \in {"load", "clear"}]
  /\ UNCHANGED <<text, label, pending, told, queue, lock, worker, raced>>

-----------------------------------------------------------------------------
(* The tasks.                                                              *)

Begins(w, kind, t, S, versions) ==
  /\ job' = [job EXCEPT ![w] = kind] /\ task' = [task EXCEPT ![w] = t]
  /\ stage' = [stage EXCEPT ![w] = [i \in Item |-> IF i \in S THEN "todo" ELSE "out"]]
  /\ held' = [held EXCEPT ![w] = [i \in Item |-> IF i \in S THEN versions[i] ELSE Nothing]]
Meets(w, S) ==
  raced' = [i \in Item |-> raced[i]
              \/ (i \in S /\ Exists(i) /\ \E v \in Worker \ {w} : stage[v][i] # "out")]
End(w) ==
  /\ job' = [job EXCEPT ![w] = "idle"] /\ task' = [task EXCEPT ![w] = Nothing]
  /\ stage' = [stage EXCEPT ![w] = AllOut] /\ held' = [held EXCEPT ![w] = AllNothing]
Release(w) ==
  lock' = IF job[w] \in DOMAIN lock THEN [lock EXCEPT ![job[w]] = Nothing] ELSE lock

\* Mutated form of Take: an item that is analysed already is not skipped.
TakeAnalysed(w, t) ==
  /\ job[w] = "idle" /\ queue[t] > 0
  /\ queue' = [queue EXCEPT ![t] = @ - 1]
  /\ LET open == {i \in t.items : Exists(i)}
     IN IF open = {} THEN UNCHANGED <<worker, raced>>
        ELSE Begins(w, t.kind, t, open, text) /\ Meets(w, open)
  /\ UNCHANGED <<text, label, pending, told, lock, request, events, crossed>>

\* The gate of a single item and the filter of a batch.
Take(w, t) ==
  /\ job[w] = "idle" /\ queue[t] > 0
  /\ queue' = [queue EXCEPT ![t] = @ - 1]
  /\ LET open == t.items \cap Unanalysed
     IN IF open = {} THEN UNCHANGED <<worker, raced>>
        ELSE Begins(w, t.kind, t, open, text) /\ Meets(w, open)
  /\ UNCHANGED <<text, label, pending, told, lock, request, events, crossed>>

\* process_unanalyzed_feedback: any items up to the limit, read again by its threads.
SweepBegin(w) ==
  /\ job[w] = "idle" /\ lock["sweep"] = Nothing
  /\ \E S \in SUBSET Unanalysed :
       /\ S # {} /\ (Cardinality(S) = SweepLimit \/ S = Unanalysed)
       /\ Cardinality(S) <= SweepLimit
       /\ Begins(w, "sweep", Nothing, S, AllNothing)
  /\ lock' = [lock EXCEPT !["sweep"] = w]
  /\ UNCHANGED <<text, label, pending, told, queue, request, events, ghosts>>

\* retry_llm_analysis
RetryBegin(w) ==
  /\ job[w] = "idle" /\ lock["llm"] = Nothing
  /\ LET S == {i \in Item : Exists(i) /\ pending[i]}
     IN S # {} /\ Begins(w, "llm", Nothing, S, text) /\ Meets(w, S)
  /\ lock' = [lock EXCEPT !["llm"] = w]
  /\ UNCHANGED <<text, label, pending, told, queue, request, events, crossed>>

Busy(w, i) == stage[w][i] = "todo" /\ held[w][i] # Nothing
ToRead(w, i) ==
  /\ stage[w][i] = "todo" /\ held[w][i] = Nothing
  /\ job[w] = "sweep" \/ \A j \in Item : ~Busy(w, j)

\* The threads of a sweep run side by side and read their items with the filter; the
\* other tasks go item by item and read a row again that a commit has expired.
Read(w, i) ==
  /\ ToRead(w, i) /\ Exists(i) /\ (job[w] = "sweep" => i \in Unanalysed)
  /\ held' = [held EXCEPT ![w][i] = text[i]]
  /\ Meets(w, {i})
  /\ UNCHANGED <<text, label, pending, told, queue, lock, job, task, stage, request, events,
                 crossed>>

\* A thread of the sweep finds the item gone or analysed.
Pass(w, i) ==
  /\ job[w] = "sweep" /\ ToRead(w, i) /\ i \notin Unanalysed
  /\ stage' = [stage EXCEPT ![w][i] = "out"]
  /\ UNCHANGED <<text, label, pending, told, queue, lock, job, task, held, request, events, ghosts>>

\* What a commit writes.  Without the language model, which may fail although there is
\* a key, the item is left pending; the retry changes nothing when it has no result,
\* and only the columns whose value differs from the one it loaded.
Write(w, D) ==
  LET written == [i \in Item |-> IF i \in D THEN held[w][i] ELSE label[i]]
      Mark(b) == pending' = [i \in Item |-> IF i \in D THEN b ELSE pending[i]]
  IN \/ label' = written /\ Mark(FALSE) /\ UNCHANGED events
     \/ job[w] # "llm" /\ label' = written /\ Mark(TRUE) /\ Event
     \/ job[w] = "llm" /\ UNCHANGED label /\ Mark(FALSE) /\ UNCHANGED events
     \/ job[w] = "llm" /\ UNCHANGED <<label, pending>> /\ Event

\* A batch commits at its end, and on the way whenever the churn probability of a
\* known customer is updated; a commit expires the rows of its session.
Done(w, i) ==
  /\ job[w] = "batch" /\ Busy(w, i) /\ i \notin Email
  /\ stage' = [stage EXCEPT ![w][i] = "done"]
  /\ UNCHANGED <<text, label, pending, told, queue, lock, job, task, held, request, events, ghosts>>

Ready(w, i) == In(w, "done") \cup {i}
Commit(w, i) ==
  /\ Busy(w, i) /\ (job[w] = "batch" => i \in Email)
  /\ \A j \in Ready(w, i) : Exists(j)
  /\ Write(w, Ready(w, i))
  /\ stage' = [stage EXCEPT ![w] = [j \in Item |->
                 IF j \notin Ready(w, i) THEN @[j]
                 ELSE IF job[w] = "single" THEN "done" ELSE "out"]]
  /\ held' = [held EXCEPT ![w] = IF job[w] = "sweep" THEN [@ EXCEPT ![i] = Nothing]
                                 ELSE AllNothing]
  /\ job' = IF job[w] = "single" THEN [job EXCEPT ![w] = "tell"] ELSE job
  /\ UNCHANGED <<text, told, queue, lock, task, request, ghosts>>

\* The last commit of a batch; the release of a lock.
Close(w) ==
  /\ job[w] \in {"batch", "sweep", "llm"} /\ In(w, "todo") = {}
  /\ LET D == In(w, "done")
     IN IF D # {} /\ \A i \in D : Exists(i) THEN Write(w, D)
        ELSE UNCHANGED <<label, pending, events>>
  /\ End(w) /\ Release(w)
  /\ UNCHANGED <<text, told, queue, request, ghosts>>

\* The analysis raises, or the row is gone when it is written: a single item is tried
\* again, a thread gives up, a batch goes on (with what was set so far, if anything)
\* unless its session is beyond use, the retry is over.
Fails(w, i) ==
  /\ Busy(w, i)
  /\ LET broken == \E j \in Ready(w, i) : ~Exists(j)
     IN /\ Event \/ (broken /\ UNCHANGED events)
        /\ CASE job[w] = "single" ->
                  /\ End(w) /\ Release(w)
                  /\ IF broken THEN UNCHANGED queue ELSE Publish(task[w])
             [] job[w] = "sweep" \/ (job[w] = "batch" /\ ~broken) ->
                  /\ \E s \in {"out"} \cup (IF job[w] = "batch" THEN {"done"} ELSE {}) :
                       stage' = [stage EXCEPT ![w][i] = s]
                  /\ held' = [held EXCEPT ![w][i] = IF stage'[w][i] = "out" THEN Nothing ELSE @]
                  /\ UNCHANGED <<job, task, queue, lock>>
             [] OTHER -> End(w) /\ Release(w) /\ UNCHANGED queue
  /\ UNCHANGED <<text, label, pending, told, request, ghosts>>

\* A batch or the retry reads a row again that is gone.
RowGone(w, i) ==
  /\ job[w] \in {"batch", "llm"} /\ ToRead(w, i) /\ ~Exists(i)
  /\ End(w) /\ Release(w)
  /\ UNCHANGED <<text, label, pending, told, queue, request, events, ghosts>>

\* After its commit the task of a single item queues the assignment, then the webhooks,
\* and evaluates the rules.  If the first cannot be queued the task is tried again, and
\* finds the item analysed; if the others fail that is logged.
Tell(w) ==
  /\ job[w] = "tell"
  /\ \E i \in In(w, "done") :
       \/ Exists(i) /\ told' = [told EXCEPT ![i] = @ + 1] /\ UNCHANGED <<queue, events>>
       \/ Event /\ (Publish(task[w]) \/ UNCHANGED queue) /\ UNCHANGED told
       \/ ~Exists(i) /\ UNCHANGED <<told, queue, events>>
  /\ End(w)
  /\ UNCHANGED <<text, label, pending, lock, request, ghosts>>

\* Its message comes back, unless the process was killed for running too long.
WorkerLost(w) ==
  /\ job[w] # "idle" /\ Event /\ End(w)
  /\ (task[w] # Nothing /\ Publish(task[w])) \/ UNCHANGED queue
  /\ UNCHANGED <<text, label, pending, told, lock, request, ghosts>>

\* The visibility timeout passes while the message is worked on.
Redeliver(w) ==
  /\ task[w] # Nothing /\ Event /\ Publish(task[w])
  /\ UNCHANGED <<text, label, pending, told, lock, worker, request, ghosts>>

\* Mutated form of LockExpires: a lock whose timeout is shorter than the task's limit.
LockExpiresEarly ==
  /\ \E k \in DOMAIN lock : lock[k] # Nothing /\ lock' = [lock EXCEPT ![k] = Nothing]
  /\ UNCHANGED <<text, label, pending, told, queue, worker, request, events, ghosts>>

\* Mutated form of LockExpires: a lock without a timeout.
LockExpiresNever == FALSE /\ UNCHANGED vars

\* Tasks are killed when the lock's time is over, so it outlives its holder.
LockExpires ==
  /\ \E k \in DOMAIN lock :
       /\ lock[k] # Nothing /\ job[lock[k]] # k
       /\ lock' = [lock EXCEPT ![k] = Nothing]
  /\ UNCHANGED <<text, label, pending, told, queue, worker, request, events, ghosts>>

-----------------------------------------------------------------------------
Analyse(w) ==
  \/ \E t \in Task : Take(w, t)
  \/ \E i \in Item : Read(w, i) \/ Pass(w, i) \/ Done(w, i) \/ Commit(w, i)
                       \/ Fails(w, i) \/ RowGone(w, i)
  \/ Close(w) \/ Tell(w)
Beat(w) == SweepBegin(w) \/ RetryBegin(w)
Request(r) ==
  \/ PatchText(r) \/ RequestLoad(r) \/ RequestClear(r) \/ RequestRead(r)
  \/ RequestWrite(r) \/ RequestFails(r)

Next ==
  \/ \E S \in Arrivals : Create(S)
  \/ \E i \in Edited : Delete(i)
  \/ \E r \in Requester :
       Request(r) \/ \E i \in Edited : PatchLoad(r, i) \/ Enrich(r, i) \/ Reanalyse(r, i)
  \/ LockExpires
  \/ \E w \in Worker : Analyse(w) \/ Beat(w) \/ WorkerLost(w) \/ Redeliver(w)

\* Workers finish what they began, requests too; the beat comes again and again, and
\* Redis lets locks expire.
Spec ==
  /\ Init /\ [][Next]_vars
  /\ WF_vars(LockExpires) /\ \A r \in Requester : WF_vars(Request(r))
  /\ \A w \in Worker : WF_vars(Analyse(w)) /\ WF_vars(SweepBegin(w))

-----------------------------------------------------------------------------
\* There are three ways to a label of an older text and no fourth, however edits,
\* enrichments, tasks and faults interleave: when an edit cleared the label, somebody
\* was analysing an older text and wrote it later; the label was committed after the
\* edit had loaded the row without one, and was left; or an enrichment committed its
\* text and stands before its second commit, or was lost there.
LabelIsCurrent ==
  \A i \in Item : Exists(i) /\ label[i] # Nothing =>
    label[i] = text[i] \/ crossed[i] \/ Enriching(i)

\* An analysis is announced at most once, although its message may be delivered again,
\* the task tried again or the worker lost after the commit: unless two analyses of the
\* item overlapped.
AnnouncedOnce == \A i \in Item : told[i] <= 1 \/ raced[i]

\* Every item is analysed in the end, whatever message or worker is lost.
AnalysedInTheEnd == <>[](\A i \in Item : Exists(i) => label[i] # Nothing)
=============================================================================
