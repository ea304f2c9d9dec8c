----------------------- MODULE FeedbackAnalysisProofs -----------------------
(* Machine-checked proofs about FeedbackAnalysis, for any items, workers,    *)
(* arrivals and limits.                                                      *)
EXTENDS FeedbackAnalysis, TLAPS

(* The inductive invariant.                                                  *)

ItemTypes ==
  /\ text \in [Item -> Version \cup {0, Gone}]
  /\ label \in [Item -> Version \cup {Nothing}]
  /\ pending \in [Item -> BOOLEAN]
  /\ told \in [Item -> Nat]
  /\ crossed \in [Item -> BOOLEAN] /\ raced \in [Item -> BOOLEAN]
WorkerTypes ==
  /\ job \in [Worker -> {"idle", "tell"} \cup Kind]
  /\ task \in [Worker -> Task \cup {Nothing}]
  /\ stage \in [Worker -> [Item -> {"out", "todo", "done"}]]
  /\ held \in [Worker -> [Item -> Version \cup {Nothing}]]
BusTypes ==
  /\ queue \in [Task -> 0..MaxQueue]
  /\ lock \in [{"sweep", "llm"} -> Worker \cup {Nothing}]
  /\ events \in 0..MaxEvents
RequestTypes ==
  /\ req \in [Requester -> {"idle", "patch", "load", "clear", "force", "read", "write"}]
  /\ reqItem \in [Requester -> Item \cup {Nothing}]
  /\ reqHad \in [Requester -> BOOLEAN]
  /\ reqHeld \in [Requester -> Version \cup {Nothing}]
  /\ \A r \in Requester : /\ req[r] # "idle" => reqItem[r] \in Item /\ text[reqItem[r]] # 0
                          /\ req[r] = "write" => reqHeld[r] \in Version
Locked == \A w \in Worker : job[w] \in {"sweep", "llm"} => lock[job[w]] = w
Idle == \A w \in Worker : job[w] = "idle" => stage[w] = AllOut /\ held[w] = AllNothing
\* What was done and is not committed has a result; to announce is all that is left.
Results ==
  \A w \in Worker, i \in Item :
    /\ stage[w][i] = "done" /\ job[w] # "tell" => held[w][i] # Nothing
    /\ job[w] = "tell" => stage[w][i] # "todo"

\* The task of a single item has one.
Single ==
  \A w \in Worker, i, j \in Item :
    job[w] \in {"single", "tell"} /\ stage[w][i] # "out" /\ stage[w][j] # "out" => i = j

Types == ItemTypes /\ WorkerTypes /\ BusTypes /\ RequestTypes /\ Locked /\ Idle /\ Results /\ Single

\* Whoever is about to write a label holds the current text, but for the exceptions.
Fresh ==
  \A i \in Item : Exists(i) => crossed[i] \/ Enriching(i) \/ ~HeldOlder(i, text[i])

\* An item before its creation.
Unborn ==
  \A i \in Item : text[i] = 0 => label[i] = Nothing /\ \A w \in Worker : stage[w][i] = "out"

\* A sweep that has not read an item disturbs nobody.
Peeks(w, i) == job[w] = "sweep" /\ held[w][i] = Nothing

\* As long as no two analyses raced, an item is one task's, and the announcement of a
\* task that still owes it is the first.
Alone(i) ==
  /\ \A w, v \in Worker :
       w # v /\ stage[w][i] # "out" /\ stage[v][i] # "out" => Peeks(w, i) \/ Peeks(v, i)
  /\ told[i] <= 1
  /\ told[i] # 0 => label[i] # Nothing
  /\ \A w \in Worker : stage[w][i] # "out" /\ job[w] \in {"single", "tell"} => told[i] = 0
  /\ \A w \in Worker : stage[w][i] # "out" /\ job[w] = "tell" => label[i] # Nothing
Announced == \A i \in Item : IF Exists(i) THEN raced[i] \/ Alone(i) ELSE told[i] = 0

IInv == Types /\ LabelIsCurrent /\ Fresh /\ Unborn /\ Announced

LEMMA Sizes == /\ MaxText \in Nat \ {0} /\ MaxEvents \in Nat /\ MaxQueue \in Nat
               /\ 1 \in Version /\ Version \subseteq Nat \ {0}
               /\ Nothing \notin Version /\ Gone \notin Version /\ Gone # 0
  BY ConstantAssumption DEF Version

LEMMA InitIInv == Init => IInv
<1> SUFFICES ASSUME Init PROVE IInv
  OBVIOUS
<1>1. ItemTypes /\ WorkerTypes /\ BusTypes /\ RequestTypes
  BY Sizes DEF Init, ItemTypes, WorkerTypes, BusTypes, RequestTypes, AllNothing, AllOut
<1>2. Locked /\ Idle /\ Results /\ Single
  BY DEF Init, Locked, Idle, Results, Single, AllOut
<1>3. \A i \in Item : ~Exists(i) /\ told[i] = 0 /\ label[i] = Nothing
  BY Sizes DEF Init, Exists, AllNothing
<1>4. \A w \in Worker, i \in Item : stage[w][i] = "out"
  BY DEF Init, AllOut
<1>5. LabelIsCurrent /\ Fresh /\ Unborn /\ Announced
  BY <1>3, <1>4 DEF LabelIsCurrent, Fresh, Unborn, Announced
<1> QED BY <1>1, <1>2, <1>5 DEF IInv, Types

-----------------------------------------------------------------------------
(* What the steps have in common.                                            *)

\* The other workers have nothing to do with it.
Apart(w) ==
  \A v \in Worker \ {w} : /\ job'[v] = job[v] /\ task'[v] = task[v]
                          /\ stage'[v] = stage[v] /\ held'[v] = held[v]

LEMMA EventTypes == ASSUME Types, Event PROVE events' \in 0..MaxEvents
  BY Sizes DEF Types, BusTypes, Event

LEMMA PublishTypes == ASSUME Types, NEW t, Publish(t) PROVE queue' \in [Task -> 0..MaxQueue]
<1>1. CASE t \in Task
  <2>1. queue[t] + 1 \in 0..MaxQueue
    BY <1>1, Sizes DEF Types, BusTypes, Publish
  <2> QED BY <1>1, <2>1 DEF Types, BusTypes, Publish
<1>2. CASE t \notin Task
  BY <1>2 DEF Types, BusTypes, Publish
<1> QED BY <1>1, <1>2

LEMMA EndFacts ==
  ASSUME Types, NEW w \in Worker, End(w)
  PROVE  /\ WorkerTypes' /\ Apart(w) /\ job'[w] = "idle"
         /\ stage'[w] = AllOut /\ held'[w] = AllNothing
<1>1. AllOut \in [Item -> {"out", "todo", "done"}] /\ AllNothing \in [Item -> Version \cup {Nothing}]
  BY DEF AllOut, AllNothing
<1> QED BY <1>1 DEF Types, WorkerTypes, End, Apart

\* A worker whose step leaves it these: the rest of its part of the type invariant.
LEMMA WorkerKept ==
  ASSUME Types, NEW w \in Worker, Apart(w), UNCHANGED request, UNCHANGED text, WorkerTypes',
         ItemTypes', BusTypes',
         \A k \in {"sweep", "llm"}, v \in Worker \ {w} : lock[k] = v => lock'[k] = v,
         job'[w] \in {"sweep", "llm"} => lock'[job'[w]] = w,
         job'[w] = "idle" => stage'[w] = AllOut /\ held'[w] = AllNothing,
         \A i \in Item : stage'[w][i] = "done" /\ job'[w] # "tell" => held'[w][i] # Nothing,
         job'[w] = "tell" => \A i \in Item : stage'[w][i] # "todo",
         job'[w] \in {"single", "tell"} =>
           \A i, j \in Item : stage'[w][i] # "out" /\ stage'[w][j] # "out" => i = j
  PROVE  Types'
<1>1. RequestTypes'
  BY DEF Types, RequestTypes, request, Exists
<1>2. Locked'
  <2> SUFFICES ASSUME NEW v \in Worker, job'[v] \in {"sweep", "llm"} PROVE lock'[job'[v]] = v
    BY DEF Locked
  <2>1. CASE v = w
    BY <2>1
  <2>2. CASE v # w
    <3>1. job'[v] = job[v]
      BY <2>2 DEF Apart
    <3>2. lock[job[v]] = v
      BY <3>1 DEF Types, Locked
    <3> QED BY <2>2, <3>1, <3>2
  <2> QED BY <2>1, <2>2
<1>4. Idle'
  BY DEF Types, Idle, Apart
<1>3. Results' /\ Single'
  BY DEF Types, Results, Single, Apart
<1> QED BY <1>1, <1>2, <1>3, <1>4 DEF Types

\* So when its task is over.
LEMMA EndKept ==
  ASSUME Types, NEW w \in Worker, End(w), UNCHANGED <<text, request>>, ItemTypes', BusTypes',
         \A k \in {"sweep", "llm"}, v \in Worker \ {w} : lock[k] = v => lock'[k] = v
  PROVE  Types'
<1>1. /\ WorkerTypes' /\ Apart(w) /\ job'[w] = "idle"
      /\ stage'[w] = AllOut /\ held'[w] = AllNothing
  BY EndFacts
<1>2. \A i \in Item : stage'[w][i] = "out"
  BY <1>1 DEF AllOut
<1> QED BY <1>1, <1>2, WorkerKept

LEMMA ReleaseFacts ==
  ASSUME Types, NEW w \in Worker, Release(w)
  PROVE  /\ lock' \in [{"sweep", "llm"} -> Worker \cup {Nothing}]
         /\ \A k \in {"sweep", "llm"}, v \in Worker \ {w} : lock[k] = v => lock'[k] = v
  BY DEF Types, BusTypes, Locked, Release

LEMMA BeginsFacts ==
  ASSUME Types, NEW w \in Worker, NEW kind \in Kind, NEW t \in Task \cup {Nothing},
         NEW S \in SUBSET Item, NEW versions \in [Item -> Version \cup {0, Gone, Nothing}],
         \A i \in S : versions[i] \in Version \cup {Nothing},
         Begins(w, kind, t, S, versions)
  PROVE  /\ WorkerTypes' /\ Apart(w) /\ job'[w] = kind
         /\ \A i \in Item : /\ stage'[w][i] = IF i \in S THEN "todo" ELSE "out"
                            /\ held'[w][i] = IF i \in S THEN versions[i] ELSE Nothing
<1> DEFINE s == [i \in Item |-> IF i \in S THEN "todo" ELSE "out"]
           h == [i \in Item |-> IF i \in S THEN versions[i] ELSE Nothing]
<1>1. s \in [Item -> {"out", "todo", "done"}] /\ h \in [Item -> Version \cup {Nothing}]
  OBVIOUS
<1>2. /\ job' = [job EXCEPT ![w] = kind] /\ task' = [task EXCEPT ![w] = t]
      /\ stage' = [stage EXCEPT ![w] = s] /\ held' = [held EXCEPT ![w] = h]
  BY DEF Begins
<1>3. \A i \in Item : s[i] = (IF i \in S THEN "todo" ELSE "out")
                      /\ h[i] = (IF i \in S THEN versions[i] ELSE Nothing)
  OBVIOUS
<1> HIDE DEF s, h
<1>4. WorkerTypes'
  BY <1>1, <1>2 DEF Types, WorkerTypes
<1>5. Apart(w) /\ job'[w] = kind /\ stage'[w] = s /\ held'[w] = h
  BY <1>2 DEF Types, WorkerTypes, Apart
<1> QED BY <1>3, <1>4, <1>5

LEMMA MeetsFacts ==
  ASSUME Types, NEW w \in Worker, NEW S, Meets(w, S)
  PROVE  /\ raced' \in [Item -> BOOLEAN]
         /\ \A i \in Item : raced[i] => raced'[i]
         /\ \A i \in Item : i \in S /\ Exists(i) /\ ~raced'[i] =>
              \A v \in Worker \ {w} : stage[v][i] = "out"
<1>1. \A i \in Item : raced'[i] = (raced[i] \/ (i \in S /\ Exists(i)
                                        /\ \E v \in Worker \ {w} : stage[v][i] # "out"))
  BY DEF Meets
<1>2. raced' \in [Item -> BOOLEAN]
  <2>1. \A i \in Item : (raced[i] \/ (i \in S /\ Exists(i)
                           /\ \E v \in Worker \ {w} : stage[v][i] # "out")) \in BOOLEAN
    BY DEF Types, ItemTypes
  <2> QED BY <2>1, Zenon DEF Meets
<1> QED BY <1>1, <1>2

LEMMA WriteFacts ==
  ASSUME Types, NEW w \in Worker, NEW D \in SUBSET Item, Write(w, D)
  PROVE  /\ label' \in [Item -> Version \cup {Nothing}] /\ pending' \in [Item -> BOOLEAN]
         /\ events' \in 0..MaxEvents
         /\ \A i \in Item \ D : label'[i] = label[i]
         /\ \A i \in D : label'[i] \in {label[i], held[w][i]}
         /\ job[w] # "llm" => \A i \in D : label'[i] = held[w][i]
<1> DEFINE written == [i \in Item |-> IF i \in D THEN held[w][i] ELSE label[i]]
           Mark(b) == pending' = [i \in Item |-> IF i \in D THEN b ELSE pending[i]]
<1>1. /\ written \in [Item -> Version \cup {Nothing}]
      /\ \A i \in Item : written[i] = IF i \in D THEN held[w][i] ELSE label[i]
  BY DEF Types, ItemTypes, WorkerTypes
<1>2. \A b \in BOOLEAN : Mark(b) => pending' \in [Item -> BOOLEAN]
  BY DEF Types, ItemTypes
<1>3. /\ label' = written \/ (job[w] = "llm" /\ UNCHANGED label)
      /\ Mark(TRUE) \/ Mark(FALSE) \/ UNCHANGED pending
      /\ Event \/ UNCHANGED events
  BY DEF Write
<1>4. pending' \in [Item -> BOOLEAN]
  BY <1>2, <1>3 DEF Types, ItemTypes
<1>5. events' \in 0..MaxEvents
  BY <1>3, EventTypes DEF Types, BusTypes
<1> HIDE DEF written, Mark
<1> QED BY <1>1, <1>3, <1>4, <1>5 DEF Types, ItemTypes

-----------------------------------------------------------------------------
(* Types.                                                                    *)

\* What the routes leave to the workers.
LEMMA RouteTypes ==
  ASSUME Types, UNCHANGED <<worker, lock>>, ItemTypes', RequestTypes',
         queue' \in [Task -> 0..MaxQueue], events' \in 0..MaxEvents
  PROVE  Types'
  BY DEF Types, WorkerTypes, BusTypes, Locked, Idle, Results, Single, worker

\* What one requester's step leaves to the others.
Others(r) ==
  \A q \in Requester \ {r} : /\ req'[q] = req[q] /\ reqItem'[q] = reqItem[q]
                             /\ reqHad'[q] = reqHad[q] /\ reqHeld'[q] = reqHeld[q]

\* A requester whose step leaves it these: the rest of the types of all.
LEMMA RequestKept ==
  ASSUME Types, NEW r \in Requester, NEW i \in Item, Others(r),
         \A j \in Item : text[j] # 0 => text'[j] # 0,
         req' \in [Requester -> {"idle", "patch", "load", "clear", "force", "read", "write"}],
         reqItem' \in [Requester -> Item \cup {Nothing}],
         reqHad' \in [Requester -> BOOLEAN],
         reqHeld' \in [Requester -> Version \cup {Nothing}],
         req'[r] # "idle" => reqItem'[r] = i /\ text'[i] # 0,
         req'[r] = "write" => reqHeld'[r] \in Version
  PROVE  RequestTypes'
<1> SUFFICES ASSUME NEW q \in Requester
             PROVE  /\ req'[q] # "idle" => reqItem'[q] \in Item /\ text'[reqItem'[q]] # 0
                    /\ req'[q] = "write" => reqHeld'[q] \in Version
  BY DEF RequestTypes
<1>1. CASE q = r
  BY <1>1
<1>2. CASE q # r
  BY <1>2 DEF Others, Types, RequestTypes
<1> QED BY <1>1, <1>2

LEMMA StartsFacts ==
  ASSUME Types, NEW r \in Requester, NEW i \in Item, NEW s \in {"patch", "load", "force"},
         Starts(r, i, s)
  PROVE  /\ req' \in [Requester -> {"idle", "patch", "load", "clear", "force", "read", "write"}]
         /\ reqItem' \in [Requester -> Item \cup {Nothing}]
         /\ req[r] = "idle" /\ req'[r] = s /\ reqItem'[r] = i /\ Exists(i)
         /\ \A q \in Requester \ {r} : req'[q] = req[q] /\ reqItem'[q] = reqItem[q]
         /\ events' \in 0..MaxEvents
  BY EventTypes DEF Starts, Types, RequestTypes

LEMMA LoadsFacts ==
  ASSUME Types, NEW r \in Requester, NEW i \in Item, Loads(r, i)
  PROVE  /\ reqHad' \in [Requester -> BOOLEAN]
         /\ \A q \in Requester \ {r} : reqHad'[q] = reqHad[q]
<1> DEFINE b == label[i] # Nothing
<1>1. b \in BOOLEAN /\ reqHad' = [reqHad EXCEPT ![r] = b]
  BY DEF Loads
<1> HIDE DEF b
<1> QED BY <1>1, Zenon DEF Types, RequestTypes

LEMMA EndsFacts ==
  ASSUME Types, NEW r \in Requester, RequestEnd(r)
  PROVE  /\ req' \in [Requester -> {"idle", "patch", "load", "clear", "force", "read", "write"}]
         /\ reqItem' \in [Requester -> Item \cup {Nothing}]
         /\ reqHad' \in [Requester -> BOOLEAN]
         /\ reqHeld' \in [Requester -> Version \cup {Nothing}]
         /\ req'[r] = "idle" /\ Others(r)
<1>1. reqHad' \in [Requester -> BOOLEAN] /\ \A q \in Requester \ {r} : reqHad'[q] = reqHad[q]
  BY Zenon DEF RequestEnd, Types, RequestTypes
<1> QED BY <1>1 DEF RequestEnd, Types, RequestTypes, Others

\* A clear commits: either it was written, and nobody announces the item before a new
\* analysis, or what was there is left.
LEMMA ClearFacts ==
  ASSUME Types, NEW r \in Requester, NEW i \in Item, NEW v, Clear(r, i, v)
  PROVE  /\ label' \in [Item -> Version \cup {Nothing}] /\ told' \in [Item -> Nat]
         /\ crossed' \in [Item -> BOOLEAN] /\ raced' \in [Item -> BOOLEAN]
         /\ label'[i] # Nothing => crossed'[i]
         /\ HeldOlder(i, v) => crossed'[i]
         /\ \/ /\ label'[i] = Nothing /\ told'[i] = 0
               /\ ~raced'[i] => \A w \in Worker : stage[w][i] = "out"
            \/ label'[i] = label[i] /\ told'[i] = told[i] /\ raced'[i] = raced[i]
         /\ \A j \in Item \ {i} : /\ label'[j] = label[j] /\ told'[j] = told[j]
                                  /\ crossed'[j] = crossed[j] /\ raced'[j] = raced[j]
<1> DEFINE b == \E w \in Worker : stage[w][i] # "out"
           c == HeldOlder(i, v) \/ (~reqHad[r] /\ label[i] # Nothing)
<1>1. crossed' = [crossed EXCEPT ![i] = c] /\ c \in BOOLEAN
  <2>1. HeldOlder(i, v) \in BOOLEAN
    BY DEF HeldOlder
  <2> QED BY <2>1 DEF Clear
<1>2. /\ HeldOlder(i, v) => c
      /\ ~reqHad[r] /\ label[i] # Nothing => c
  OBVIOUS
<1>3. \/ /\ reqHad[r] /\ label' = [label EXCEPT ![i] = Nothing] /\ told' = [told EXCEPT ![i] = 0]
         /\ raced' = [raced EXCEPT ![i] = b]
      \/ ~reqHad[r] /\ UNCHANGED <<label, told, raced>>
  BY DEF Clear
<1>4. b \in BOOLEAN /\ (~b => \A w \in Worker : stage[w][i] = "out")
  OBVIOUS
<1> HIDE DEF b, c
<1>5. /\ crossed' \in [Item -> BOOLEAN] /\ crossed'[i] = c
      /\ \A j \in Item \ {i} : crossed'[j] = crossed[j]
  BY <1>1, Zenon DEF Types, ItemTypes
<1>6. CASE reqHad[r]
  <2>1. /\ raced' \in [Item -> BOOLEAN] /\ raced'[i] = b
        /\ \A j \in Item \ {i} : raced'[j] = raced[j]
    BY <1>3, <1>4, <1>6, Zenon DEF Types, ItemTypes
  <2>2. /\ label' = [label EXCEPT ![i] = Nothing] /\ told' = [told EXCEPT ![i] = 0]
    BY <1>3, <1>6
  <2>3. /\ label' \in [Item -> Version \cup {Nothing}] /\ told' \in [Item -> Nat]
        /\ label'[i] = Nothing /\ told'[i] = 0
        /\ \A j \in Item \ {i} : label'[j] = label[j] /\ told'[j] = told[j]
    BY <2>2 DEF Types, ItemTypes
  <2> QED BY <1>2, <1>4, <1>5, <2>1, <2>3
<1>7. CASE ~reqHad[r]
  <2>1. UNCHANGED <<label, told, raced>>
    BY <1>3, <1>7
  <2> QED BY <1>2, <1>5, <1>7, <2>1 DEF Types, ItemTypes
<1> QED BY <1>6, <1>7

LEMMA NewVersion ==
  ASSUME Types, NEW i \in Item, Exists(i), text[i] < MaxText, text' = [text EXCEPT ![i] = @ + 1]
  PROVE  /\ text' \in [Item -> Version \cup {0, Gone}] /\ text'[i] = text[i] + 1
         /\ Exists(i)' /\ text'[i] # 0 /\ \A j \in Item \ {i} : text'[j] = text[j]
<1>1. text[i] + 1 \in Version
  BY Sizes DEF Exists, Version
<1>2. text' \in [Item -> Version \cup {0, Gone}] /\ text'[i] = text[i] + 1
      /\ \A j \in Item \ {i} : text'[j] = text[j]
  BY <1>1 DEF Types, ItemTypes
<1> QED BY <1>1, <1>2, Sizes DEF Exists

LEMMA CreateTypes == ASSUME Types, NEW S \in Arrivals, Create(S) PROVE Types'
<1>1. S \in (SUBSET Item) \ {{}}
  BY ConstantAssumption
<1>2. ItemTypes' /\ RequestTypes'
  <2>1. text' \in [Item -> Version \cup {0, Gone}]
    BY Sizes DEF Create, Types, ItemTypes
  <2>2. RequestTypes'
    BY Sizes DEF Create, Types, RequestTypes, request, ItemTypes
  <2> QED BY <2>1, <2>2 DEF Create, Types, ItemTypes, ghosts
<1>3. queue' \in [Task -> 0..MaxQueue] /\ events' \in 0..MaxEvents
  BY EventTypes, PublishTypes DEF Create, PublishOrLose, Types, BusTypes
<1> QED BY <1>2, <1>3, RouteTypes DEF Create

\* The loading steps: PatchLoad and Reanalyse.
LEMMA LoadTypes ==
  ASSUME Types, NEW r \in Requester, NEW i \in Item, PatchLoad(r, i) \/ Reanalyse(r, i)
  PROVE  Types'
<1>1. PICK s \in {"patch", "force"} : Starts(r, i, s) /\ Loads(r, i)
  BY DEF PatchLoad, Reanalyse
<1>2. /\ UNCHANGED <<text, label, pending, told, queue, lock, worker, reqHeld, ghosts>>
  BY DEF PatchLoad, Reanalyse
<1>3. ItemTypes'
  BY <1>2 DEF Types, ItemTypes, ghosts
<1>4. Exists(i) /\ text[i] # 0
  BY <1>1, Sizes DEF Starts, Exists
<1>5. RequestTypes'
  <2>1. Others(r)
    BY <1>1, <1>2, StartsFacts, LoadsFacts DEF Others
  <2>2. reqHeld' \in [Requester -> Version \cup {Nothing}]
    BY <1>2 DEF Types, RequestTypes
  <2> QED BY <1>1, <1>2, <1>4, <2>1, <2>2, StartsFacts, LoadsFacts, RequestKept
<1> QED BY <1>1, <1>2, <1>3, <1>5, StartsFacts, RouteTypes DEF Types, BusTypes

LEMMA EnrichTypes ==
  ASSUME Types, NEW r \in Requester, NEW i \in Item, Enrich(r, i) PROVE Types'
<1>1. /\ Starts(r, i, "load") /\ Exists(i) /\ text[i] < MaxText
      /\ text' = [text EXCEPT ![i] = @ + 1]
      /\ UNCHANGED <<label, pending, told, queue, lock, worker, reqHad, reqHeld, ghosts>>
  BY DEF Enrich, Starts
<1>2. ItemTypes'
  BY <1>1, NewVersion DEF Types, ItemTypes, ghosts
<1>3. RequestTypes'
  <2>1. Others(r)
    BY <1>1, StartsFacts DEF Others
  <2>2. \A j \in Item : text[j] # 0 => text'[j] # 0
    BY <1>1, NewVersion
  <2>3. /\ reqHeld' \in [Requester -> Version \cup {Nothing}]
        /\ reqHad' \in [Requester -> BOOLEAN]
    BY <1>1 DEF Types, RequestTypes
  <2> QED BY <1>1, <2>1, <2>2, <2>3, NewVersion, StartsFacts, RequestKept
<1> QED BY <1>1, <1>2, <1>3, StartsFacts, RouteTypes DEF Types, BusTypes

LEMMA DeleteTypes == ASSUME Types, NEW i \in Item, Delete(i) PROVE Types'
<1>1. ItemTypes'
  <2>1. /\ text' \in [Item -> Version \cup {0, Gone}]
        /\ label' \in [Item -> Version \cup {Nothing}] /\ told' \in [Item -> Nat]
    BY DEF Delete, Types, ItemTypes
  <2>2. /\ pending' \in [Item -> BOOLEAN]
        /\ crossed' \in [Item -> BOOLEAN] /\ raced' \in [Item -> BOOLEAN]
    BY Zenon DEF Delete, Types, ItemTypes
  <2> QED BY <2>1, <2>2 DEF ItemTypes
<1>2. RequestTypes'
  BY Sizes DEF Delete, Types, ItemTypes, RequestTypes, request, Exists
<1>3. events' \in 0..MaxEvents
  BY EventTypes DEF Delete
<1> QED BY <1>1, <1>2, <1>3, RouteTypes DEF Delete, Types, BusTypes

LEMMA PatchTextTypes == ASSUME Types, NEW r \in Requester, PatchText(r) PROVE Types'
<1>1. PICK i \in Item : i = reqItem[r] /\ Exists(i)
  BY DEF PatchText, Types, RequestTypes
<1>2. /\ Clear(r, i, text[i] + 1) /\ req' = [req EXCEPT ![r] = "read"]
      /\ text[i] < MaxText /\ text' = [text EXCEPT ![i] = @ + 1]
      /\ UNCHANGED <<pending, queue, lock, worker, reqItem, reqHad, reqHeld, events>>
  BY <1>1 DEF PatchText
<1>3. ItemTypes'
  BY <1>1, <1>2, NewVersion, ClearFacts DEF Types, ItemTypes
<1>4. RequestTypes'
  <2>1. Others(r) /\ req'[r] = "read"
        /\ req' \in [Requester -> {"idle", "patch", "load", "clear", "force", "read", "write"}]
    BY <1>2 DEF Others, Types, RequestTypes
  <2>2. \A j \in Item : text[j] # 0 => text'[j] # 0
    BY <1>1, <1>2, NewVersion
  <2>3. /\ reqHeld' \in [Requester -> Version \cup {Nothing}]
        /\ reqHad' \in [Requester -> BOOLEAN] /\ reqItem' \in [Requester -> Item \cup {Nothing}]
        /\ reqItem'[r] = i
    BY <1>1, <1>2 DEF Types, RequestTypes
  <2> QED BY <1>1, <1>2, <2>1, <2>2, <2>3, NewVersion, RequestKept
<1> QED BY <1>2, <1>3, <1>4, RouteTypes DEF Types, BusTypes

LEMMA RequestStepTypes == ASSUME Types, NEW r \in Requester, Request(r) PROVE Types'
<1>1. PICK i \in Item : i = reqItem[r] /\ text[i] # 0
  BY DEF Request, PatchText, RequestLoad, RequestClear, RequestRead, RequestWrite,
         RequestFails, Types, RequestTypes
<1>2. CASE RequestLoad(r)
  <2>1. /\ Loads(r, i) /\ req' = [req EXCEPT ![r] = "clear"]
        /\ UNCHANGED <<text, label, pending, told, queue, lock, worker, reqItem, reqHeld, events,
                       crossed, raced>>
    BY <1>1, <1>2 DEF RequestLoad, ghosts
  <2>2. /\ req' \in [Requester -> {"idle", "patch", "load", "clear", "force", "read", "write"}]
        /\ req'[r] = "clear" /\ reqItem' \in [Requester -> Item \cup {Nothing}]
        /\ reqHeld' \in [Requester -> Version \cup {Nothing}]
    BY <2>1 DEF Types, RequestTypes
  <2>3. Others(r)
    BY <2>1, LoadsFacts DEF Others, Types, RequestTypes
  <2>4. RequestTypes'
    BY <1>1, <2>1, <2>2, <2>3, LoadsFacts, RequestKept
  <2> QED BY <2>1, <2>4, RouteTypes DEF Types, ItemTypes, BusTypes
<1>3. CASE RequestClear(r)
  <2>1. /\ Clear(r, i, text[i]) /\ RequestEnd(r)
        /\ UNCHANGED <<text, pending, lock, worker>>
    BY <1>1, <1>3 DEF RequestClear
  <2>2. ItemTypes'
    BY <2>1, ClearFacts DEF Types, ItemTypes
  <2>3. events' \in 0..MaxEvents /\ queue' \in [Task -> 0..MaxQueue]
    BY <1>3, EventTypes, PublishTypes DEF RequestClear, PublishOrLose, Types, BusTypes
  <2>4. RequestTypes'
    BY <2>1, EndsFacts, RequestKept
  <2> QED BY <2>1, <2>2, <2>3, <2>4, RouteTypes
<1>4. CASE RequestRead(r)
  <2>1. /\ Loads(r, i) /\ req' = [req EXCEPT ![r] = "write"] /\ Exists(i)
        /\ reqHeld' = [reqHeld EXCEPT ![r] = text[i]]
        /\ UNCHANGED <<text, label, pending, told, queue, lock, worker, reqItem, events,
                       crossed, raced>>
    BY <1>1, <1>4 DEF RequestRead, ghosts
  <2>2. /\ req' \in [Requester -> {"idle", "patch", "load", "clear", "force", "read", "write"}]
        /\ reqItem' \in [Requester -> Item \cup {Nothing}]
        /\ reqHeld' \in [Requester -> Version \cup {Nothing}] /\ reqHeld'[r] \in Version
    BY <2>1 DEF Types, RequestTypes, Exists
  <2>3. Others(r)
    BY <2>1, LoadsFacts DEF Others, Types, RequestTypes
  <2>4. RequestTypes'
    BY <1>1, <2>1, <2>2, <2>3, LoadsFacts, RequestKept
  <2> QED BY <2>1, <2>4, RouteTypes DEF Types, ItemTypes, BusTypes
<1>5. CASE RequestWrite(r)
  <2>1. reqHeld[r] \in Version /\ RequestEnd(r)
        /\ UNCHANGED <<text, pending, told, queue, lock, worker, events, crossed, raced>>
    BY <1>5 DEF RequestWrite, Types, RequestTypes, ghosts
  <2>2. label' \in [Item -> Version \cup {Nothing}]
    BY <1>1, <1>5, <2>1 DEF RequestWrite, Types, ItemTypes
  <2>3. RequestTypes'
    BY <2>1, EndsFacts, RequestKept
  <2> QED BY <2>1, <2>2, <2>3, RouteTypes DEF Types, ItemTypes, BusTypes
<1>6. CASE RequestFails(r)
  <2>1. /\ RequestEnd(r) /\ UNCHANGED <<text, label, told, pending, queue, lock, worker, raced>>
        /\ crossed' = [crossed EXCEPT ![i] = @ \/ req[r] \in {"load", "clear"}]
    BY <1>1, <1>6 DEF RequestFails
  <2>2. (crossed[i] \/ req[r] \in {"load", "clear"}) \in BOOLEAN
    OBVIOUS
  <2>3. crossed' \in [Item -> BOOLEAN]
    BY <2>1, <2>2, Zenon DEF Types, ItemTypes
  <2>4. events' \in 0..MaxEvents
    BY <1>6, EventTypes DEF RequestFails, Types, BusTypes
  <2>5. RequestTypes'
    BY <2>1, EndsFacts, RequestKept
  <2> QED BY <2>1, <2>3, <2>4, <2>5, RouteTypes DEF Types, ItemTypes, BusTypes
<1> QED BY <1>2, <1>3, <1>4, <1>5, <1>6, PatchTextTypes DEF Request

\* The steps that leave the texts, the routes and the messages alone.
LEMMA TakeTypes == ASSUME Types, NEW w \in Worker, NEW t \in Task, Take(w, t) PROVE Types'
<1> DEFINE open == t.items \cap Unanalysed
<1>1. open \subseteq Item /\ \A i \in open : text[i] \in Version
  BY DEF Unanalysed, Exists
<1>2. t.kind \in {"single", "batch"} /\ (t.kind = "single" => \E i \in Item : t.items = {i})
  BY DEF Task
<1>3. queue' \in [Task -> 0..MaxQueue]
  <2>1. queue[t] - 1 \in 0..MaxQueue
    BY Sizes DEF Take, Types, BusTypes
  <2> QED BY <2>1 DEF Take, Types, BusTypes
<1>4. BusTypes' /\ UNCHANGED request /\ UNCHANGED text /\ UNCHANGED lock
  BY <1>3 DEF Take, Types, BusTypes
<1>5. CASE open = {}
  <2>1. UNCHANGED worker /\ UNCHANGED raced
    BY <1>5 DEF Take
  <2>2. ItemTypes'
    BY <2>1 DEF Take, Types, ItemTypes
  <2>3. RequestTypes'
    BY <1>4 DEF Types, RequestTypes, request, Exists
  <2> QED BY <1>3, <1>4, <2>1, <2>2, <2>3, RouteTypes DEF BusTypes
<1>6. CASE open # {}
  <2>1. Begins(w, t.kind, t, open, text) /\ Meets(w, open)
    BY <1>6 DEF Take
  <2>2. text \in [Item -> Version \cup {0, Gone, Nothing}]
    BY DEF Types, ItemTypes
  <2> HIDE DEF open
  <2>3. /\ WorkerTypes' /\ Apart(w) /\ job'[w] = t.kind
        /\ \A i \in Item : stage'[w][i] = IF i \in open THEN "todo" ELSE "out"
    BY <1>1, <1>2, <2>1, <2>2, BeginsFacts DEF Kind
  <2>4. ItemTypes'
    BY <2>1, MeetsFacts DEF Take, Types, ItemTypes
  <2>5. job'[w] = "single" => \A i, j \in Item : i \in open /\ j \in open => i = j
    BY <1>2, <2>3 DEF open
  <2> QED BY <1>2, <1>4, <2>3, <2>4, <2>5, WorkerKept
<1> QED BY <1>5, <1>6

LEMMA SweepBeginTypes == ASSUME Types, NEW w \in Worker, SweepBegin(w) PROVE Types'
<1>1. PICK S \in SUBSET Unanalysed : Begins(w, "sweep", Nothing, S, AllNothing)
  BY DEF SweepBegin
<1>2. S \in SUBSET Item
  BY DEF Unanalysed
<1>3. /\ AllNothing \in [Item -> Version \cup {0, Gone, Nothing}]
      /\ \A i \in S : AllNothing[i] \in Version \cup {Nothing}
  BY <1>2 DEF AllNothing
<1>4. /\ WorkerTypes' /\ Apart(w) /\ job'[w] = "sweep"
      /\ \A i \in Item : stage'[w][i] = IF i \in S THEN "todo" ELSE "out"
  BY <1>1, <1>2, <1>3, BeginsFacts DEF Kind
<1>5. ItemTypes' /\ BusTypes'
  BY DEF SweepBegin, ghosts, Types, ItemTypes, BusTypes
<1>6. \A k \in {"sweep", "llm"}, v \in Worker \ {w} : lock[k] = v => lock'[k] = v
  BY ConstantAssumption DEF SweepBegin, Types, BusTypes
<1>7. lock'["sweep"] = w
  BY DEF SweepBegin, Types, BusTypes
<1> QED BY <1>4, <1>5, <1>6, <1>7, WorkerKept DEF SweepBegin

LEMMA RetryBeginTypes == ASSUME Types, NEW w \in Worker, RetryBegin(w) PROVE Types'
<1> DEFINE S == {i \in Item : Exists(i) /\ pending[i]}
<1>1. Begins(w, "llm", Nothing, S, text) /\ Meets(w, S)
  BY DEF RetryBegin
<1>2. S \in SUBSET Item /\ \A i \in S : text[i] \in Version
  BY DEF Exists
<1>3. text \in [Item -> Version \cup {0, Gone, Nothing}]
  BY DEF Types, ItemTypes
<1> HIDE DEF S
<1>4. /\ WorkerTypes' /\ Apart(w) /\ job'[w] = "llm"
      /\ \A i \in Item : stage'[w][i] = IF i \in S THEN "todo" ELSE "out"
  BY <1>1, <1>2, <1>3, BeginsFacts DEF Kind
<1>5. ItemTypes' /\ BusTypes'
  BY <1>1, MeetsFacts DEF RetryBegin, Types, ItemTypes, BusTypes
<1>6. \A k \in {"sweep", "llm"}, v \in Worker \ {w} : lock[k] = v => lock'[k] = v
  BY ConstantAssumption DEF RetryBegin, Types, BusTypes
<1>7. lock'["llm"] = w
  BY DEF RetryBegin, Types, BusTypes
<1> QED BY <1>4, <1>5, <1>6, <1>7, WorkerKept DEF RetryBegin

\* A worker that only touches the progress of its own task.
LEMMA ProgressKept ==
  ASSUME Types, NEW w \in Worker, UNCHANGED <<text, lock, job, task, request>>, ItemTypes',
         queue' \in [Task -> 0..MaxQueue], events' \in 0..MaxEvents, WorkerTypes',
         \A v \in Worker \ {w} : stage'[v] = stage[v] /\ held'[v] = held[v],
         job[w] \notin {"idle", "tell"},
         \A i \in Item : stage'[w][i] = "done" /\ job[w] # "tell" => held'[w][i] # Nothing,
         \A i \in Item : stage'[w][i] # "out" => stage[w][i] # "out"
  PROVE  Types'
<1>1. Apart(w) /\ BusTypes'
  BY DEF Apart, Types, BusTypes
<1>2. job'[w] \in {"sweep", "llm"} => lock'[job'[w]] = w
  BY DEF Types, Locked
<1>3. job'[w] \in {"single", "tell"} =>
        \A i, j \in Item : stage'[w][i] # "out" /\ stage'[w][j] # "out" => i = j
  BY DEF Types, Single
<1> QED BY <1>1, <1>2, <1>3, WorkerKept

LEMMA Update ==
  ASSUME NEW A, NEW B, NEW C, NEW f \in [A -> [B -> C]], NEW a \in A, NEW b \in B, NEW c \in C
  PROVE  /\ [f EXCEPT ![a][b] = c] \in [A -> [B -> C]]
         /\ [f EXCEPT ![a][b] = c][a][b] = c
         /\ \A d \in B \ {b} : [f EXCEPT ![a][b] = c][a][d] = f[a][d]
         /\ \A x \in A \ {a} : [f EXCEPT ![a][b] = c][x] = f[x]
  OBVIOUS

LEMMA ReadFacts ==
  ASSUME Types, NEW w \in Worker, NEW i \in Item, Read(w, i)
  PROVE  /\ Exists(i) /\ held' \in [Worker -> [Item -> Version \cup {Nothing}]]
         /\ held'[w][i] = text[i] /\ \A j \in Item \ {i} : held'[w][j] = held[w][j]
         /\ \A v \in Worker \ {w} : held'[v] = held[v]
<1>1. Exists(i) /\ text[i] \in Version /\ held' = [held EXCEPT ![w][i] = text[i]]
  BY DEF Read, Exists
<1> QED BY <1>1, Update DEF Types, WorkerTypes

LEMMA ReadTypes == ASSUME Types, NEW w \in Worker, NEW i \in Item, Read(w, i) PROVE Types'
<1>1. ItemTypes'
  BY MeetsFacts DEF Read, Types, ItemTypes
<1>2. WorkerTypes' /\ \A j \in Item : held'[w][j] # held[w][j] => held'[w][j] # Nothing
  BY ReadFacts, Sizes DEF Read, Types, WorkerTypes, Exists
<1>3. job[w] \notin {"idle", "tell"}
  BY DEF Read, ToRead, Types, Idle, Results, AllOut
<1> QED BY <1>1, <1>2, <1>3, ReadFacts, ProgressKept DEF Read, Types, BusTypes, Results

\* What Pass, Done and the failure of one item of several do to its stage.
LEMMA StageFacts ==
  ASSUME Types, NEW w \in Worker, NEW i \in Item, NEW s \in {"out", "todo", "done"},
         stage' = [stage EXCEPT ![w][i] = s]
  PROVE  /\ stage' \in [Worker -> [Item -> {"out", "todo", "done"}]]
         /\ stage'[w][i] = s /\ \A j \in Item \ {i} : stage'[w][j] = stage[w][j]
         /\ \A v \in Worker \ {w} : stage'[v] = stage[v]
  BY Update DEF Types, WorkerTypes

LEMMA PassTypes == ASSUME Types, NEW w \in Worker, NEW i \in Item, Pass(w, i) PROVE Types'
<1>1. ItemTypes' /\ WorkerTypes' /\ job[w] \notin {"idle", "tell"}
  BY StageFacts DEF Pass, ghosts, Types, ItemTypes, WorkerTypes
<1>2. stage' = [stage EXCEPT ![w][i] = "out"]
  BY DEF Pass
<1> QED BY <1>1, <1>2, StageFacts, ProgressKept DEF Pass, Types, BusTypes, Results

LEMMA DoneTypes == ASSUME Types, NEW w \in Worker, NEW i \in Item, Done(w, i) PROVE Types'
<1>1. ItemTypes' /\ WorkerTypes' /\ job[w] \notin {"idle", "tell"}
  BY StageFacts DEF Done, ghosts, Types, ItemTypes, WorkerTypes
<1>2. stage' = [stage EXCEPT ![w][i] = "done"] /\ stage[w][i] = "todo" /\ held[w][i] # Nothing
  BY DEF Done, Busy
<1> QED BY <1>1, <1>2, StageFacts, ProgressKept DEF Done, Types, BusTypes, Results

LEMMA CommitFacts ==
  ASSUME Types, NEW w \in Worker, NEW i \in Item, Commit(w, i)
  PROVE  /\ WorkerTypes' /\ Apart(w) /\ job[w] # "idle" /\ i \in Ready(w, i)
         /\ job'[w] = IF job[w] = "single" THEN "tell" ELSE job[w]
         /\ \A j \in Item : held'[w][j] \in {held[w][j], Nothing}
         /\ \A j \in Ready(w, i) : /\ stage'[w][j] = IF job[w] = "single" THEN "done" ELSE "out"
                                   /\ held[w][j] # Nothing /\ stage[w][j] # "out" /\ j \in Item
         /\ \A j \in Item \ Ready(w, i) :
              stage'[w][j] = stage[w][j] /\ stage[w][j] # "done"
<1> DEFINE s == [j \in Item |-> IF j \notin Ready(w, i) THEN stage[w][j]
                               ELSE IF job[w] = "single" THEN "done" ELSE "out"]
           h == IF job[w] = "sweep" THEN [held[w] EXCEPT ![i] = Nothing] ELSE AllNothing
           k == IF job[w] = "single" THEN "tell" ELSE job[w]
<1>1. /\ stage' = [stage EXCEPT ![w] = s] /\ held' = [held EXCEPT ![w] = h]
      /\ job' = [job EXCEPT ![w] = k] /\ UNCHANGED task
  BY DEF Commit, Types, WorkerTypes
<1>2. s \in [Item -> {"out", "todo", "done"}] /\ k \in {"idle", "tell"} \cup Kind
  BY DEF Types, WorkerTypes
<1>3. h \in [Item -> Version \cup {Nothing}] /\ \A j \in Item : h[j] \in {held[w][j], Nothing}
  BY DEF Types, WorkerTypes, AllNothing
<1>4. \A j \in Item : /\ j \in Ready(w, i) => s[j] = IF job[w] = "single" THEN "done" ELSE "out"
                      /\ j \notin Ready(w, i) => s[j] = stage[w][j]
  OBVIOUS
<1>5. Busy(w, i) /\ job[w] # "idle" /\ job[w] # "tell"
  BY DEF Commit, Busy, Types, Idle, Results, AllOut
<1>6. \A j \in Ready(w, i) : held[w][j] # Nothing /\ stage[w][j] # "out" /\ j \in Item
  BY <1>5 DEF Ready, In, Busy, Types, Results
<1>7. \A j \in Item \ Ready(w, i) : stage[w][j] # "done"
  BY DEF Ready, In
<1> HIDE DEF s, h, k
<1>8. /\ WorkerTypes' /\ Apart(w)
      /\ stage'[w] = s /\ held'[w] = h /\ job'[w] = k
  BY <1>1, <1>2, <1>3 DEF Types, WorkerTypes, Apart
<1> QED BY <1>3, <1>4, <1>5, <1>6, <1>7, <1>8 DEF Ready, k

LEMMA CommitTypes == ASSUME Types, NEW w \in Worker, NEW i \in Item, Commit(w, i) PROVE Types'
<1>1. Ready(w, i) \in SUBSET Item /\ Write(w, Ready(w, i))
  BY DEF Commit, Ready, In
<1>2. ItemTypes' /\ BusTypes'
  BY <1>1, WriteFacts DEF Commit, ghosts, Types, ItemTypes, BusTypes
<1>3. job'[w] \in {"sweep", "llm"} => lock'[job'[w]] = w
  BY CommitFacts DEF Commit, Types, Locked
<1>4. \A j \in Item : stage'[w][j] = "done" /\ job'[w] # "tell" => held'[w][j] # Nothing
  BY CommitFacts
<1>5. job'[w] \in {"single", "tell"} =>
        \A j, l \in Item : stage'[w][j] # "out" /\ stage'[w][l] # "out" => j = l
  <2> SUFFICES ASSUME job'[w] \in {"single", "tell"}, NEW j \in Item, NEW l \in Item,
                      stage'[w][j] # "out", stage'[w][l] # "out"
               PROVE  j = l
    OBVIOUS
  <2>1. stage[w][j] # "out" /\ stage[w][l] # "out"
    BY CommitFacts
  <2>2. job[w] \in {"single", "tell"}
    BY CommitFacts
  <2> QED BY <2>1, <2>2 DEF Types, Single
<1>6. job'[w] = "tell" => \A j \in Item : stage'[w][j] # "todo"
  <2> SUFFICES ASSUME job'[w] = "tell", NEW j \in Item, stage'[w][j] = "todo" PROVE FALSE
    OBVIOUS
  <2>1. job[w] \in {"single", "tell"} /\ stage[w][j] = "todo" /\ j \notin Ready(w, i)
    BY CommitFacts
  <2>2. j = i
    BY <2>1 DEF Commit, Busy, Types, Single
  <2> QED BY <2>1, <2>2 DEF Ready
<1>7. job'[w] # "idle" /\ WorkerTypes' /\ Apart(w)
  BY CommitFacts
<1>8. UNCHANGED request /\ UNCHANGED text /\ UNCHANGED lock
  BY DEF Commit
<1> QED BY <1>2, <1>3, <1>4, <1>5, <1>6, <1>7, <1>8, WorkerKept

LEMMA CloseFacts ==
  ASSUME Types, NEW w \in Worker, Close(w)
  PROVE  \E D \in SUBSET Item :
           /\ \A i \in D : stage[w][i] = "done" /\ Exists(i) /\ held[w][i] # Nothing
           /\ Write(w, D) \/ (D = {} /\ UNCHANGED <<label, pending, events>>)
<1>1. CASE In(w, "done") # {} /\ \A i \in In(w, "done") : Exists(i)
  <2>1. Write(w, In(w, "done")) /\ In(w, "done") \in SUBSET Item
    BY <1>1 DEF Close, In
  <2>2. \A i \in In(w, "done") : stage[w][i] = "done" /\ Exists(i) /\ held[w][i] # Nothing
    BY <1>1 DEF Close, In, Types, Results
  <2> QED BY <2>1, <2>2
<1>2. CASE ~(In(w, "done") # {} /\ \A i \in In(w, "done") : Exists(i))
  BY <1>2 DEF Close
<1> QED BY <1>1, <1>2

LEMMA CloseTypes == ASSUME Types, NEW w \in Worker, Close(w) PROVE Types'
<1>1. label' \in [Item -> Version \cup {Nothing}] /\ pending' \in [Item -> BOOLEAN]
      /\ events' \in 0..MaxEvents
  BY CloseFacts, WriteFacts DEF Types, ItemTypes, BusTypes
<1>2. ItemTypes' /\ BusTypes'
  BY <1>1, ReleaseFacts DEF Close, ghosts, Types, ItemTypes, BusTypes
<1> QED BY <1>2, ReleaseFacts, EndKept DEF Close

\* A failure ends the task, or one item of it.
LEMMA FailsFacts ==
  ASSUME Types, NEW w \in Worker, NEW i \in Item, Fails(w, i)
  PROVE  \/ End(w) /\ Release(w) /\ (UNCHANGED queue \/ Publish(task[w]))
         \/ /\ job[w] \in {"sweep", "batch"} /\ UNCHANGED <<job, task, queue, lock>>
            /\ \E s \in {"out", "done"} :
                 /\ job[w] = "sweep" => s = "out"
                 /\ stage' = [stage EXCEPT ![w][i] = s]
                 /\ held' = [held EXCEPT ![w][i] = IF s = "out" THEN Nothing ELSE held[w][i]]
<1> DEFINE broken == \E j \in Ready(w, i) : ~Exists(j)
           one == job[w] = "sweep" \/ (job[w] = "batch" /\ ~broken)
<1>1. CASE job[w] = "single"
  BY <1>1 DEF Fails
<1>2. CASE one
  <2>1. /\ \E s \in {"out"} \cup (IF job[w] = "batch" THEN {"done"} ELSE {}) :
             stage' = [stage EXCEPT ![w][i] = s]
        /\ held' = [held EXCEPT ![w][i] = IF stage'[w][i] = "out" THEN Nothing ELSE @]
        /\ UNCHANGED <<job, task, queue, lock>>
    BY <1>2 DEF Fails
  <2>2. PICK s \in {"out"} \cup (IF job[w] = "batch" THEN {"done"} ELSE {}) :
             stage' = [stage EXCEPT ![w][i] = s]
    BY <2>1
  <2>3. stage'[w][i] = s /\ s \in {"out", "done"} /\ (job[w] = "sweep" => s = "out")
    BY <2>2, StageFacts
  <2>4. held' = [held EXCEPT ![w][i] = IF s = "out" THEN Nothing ELSE held[w][i]]
    BY <2>1, <2>3 DEF Types, WorkerTypes
  <2> QED BY <1>2, <2>1, <2>2, <2>3, <2>4
<1>3. CASE job[w] # "single" /\ ~one
  BY <1>3 DEF Fails
<1> QED BY <1>1, <1>2, <1>3

\* One item of several: what it leaves.
LEMMA OneFails ==
  ASSUME Types, NEW w \in Worker, NEW i \in Item, NEW s \in {"out", "done"}, Busy(w, i),
         stage' = [stage EXCEPT ![w][i] = s],
         held' = [held EXCEPT ![w][i] = IF s = "out" THEN Nothing ELSE held[w][i]]
  PROVE  /\ stage' \in [Worker -> [Item -> {"out", "todo", "done"}]]
         /\ held' \in [Worker -> [Item -> Version \cup {Nothing}]]
         /\ stage'[w][i] = s /\ (s = "done" => held'[w][i] = held[w][i])
         /\ (s = "out" => held'[w][i] = Nothing)
         /\ \A j \in Item \ {i} : stage'[w][j] = stage[w][j] /\ held'[w][j] = held[w][j]
         /\ \A v \in Worker \ {w} : stage'[v] = stage[v] /\ held'[v] = held[v]
<1>1. (IF s = "out" THEN Nothing ELSE held[w][i]) \in Version \cup {Nothing}
  BY DEF Types, WorkerTypes
<1>2. held \in [Worker -> [Item -> Version \cup {Nothing}]]
  BY DEF Types, WorkerTypes
<1> DEFINE c == IF s = "out" THEN Nothing ELSE held[w][i]
<1>3. c \in Version \cup {Nothing} /\ held' = [held EXCEPT ![w][i] = c]
  BY <1>1
<1>4. (s = "done" => c = held[w][i]) /\ (s = "out" => c = Nothing)
  OBVIOUS
<1> HIDE DEF c
<1>5. /\ held' \in [Worker -> [Item -> Version \cup {Nothing}]] /\ held'[w][i] = c
      /\ \A j \in Item \ {i} : held'[w][j] = held[w][j]
      /\ \A v \in Worker \ {w} : held'[v] = held[v]
  BY <1>2, <1>3, Update
<1>6. /\ stage' \in [Worker -> [Item -> {"out", "todo", "done"}]]
      /\ stage'[w][i] = s /\ \A j \in Item \ {i} : stage'[w][j] = stage[w][j]
      /\ \A v \in Worker \ {w} : stage'[v] = stage[v]
  <2>1. s \in {"out", "todo", "done"}
    OBVIOUS
  <2> QED BY <2>1, StageFacts
<1> QED BY <1>4, <1>5, <1>6

LEMMA FailsTypes == ASSUME Types, NEW w \in Worker, NEW i \in Item, Fails(w, i) PROVE Types'
<1>1. Busy(w, i) /\ job[w] \notin {"idle", "tell"} /\ events' \in 0..MaxEvents /\ ItemTypes'
  BY EventTypes DEF Fails, Busy, Types, Idle, Results, AllOut, BusTypes, ItemTypes, ghosts
<1>2. CASE End(w) /\ Release(w) /\ (UNCHANGED queue \/ Publish(task[w]))
  <2>1. BusTypes'
    BY <1>1, <1>2, ReleaseFacts, PublishTypes DEF Types, BusTypes
  <2> QED BY <1>1, <1>2, <2>1, ReleaseFacts, EndKept DEF Fails
<1>3. CASE /\ job[w] \in {"sweep", "batch"} /\ UNCHANGED <<job, task, queue, lock>>
           /\ \E s \in {"out", "done"} :
                /\ job[w] = "sweep" => s = "out"
                /\ stage' = [stage EXCEPT ![w][i] = s]
                /\ held' = [held EXCEPT ![w][i] = IF s = "out" THEN Nothing ELSE held[w][i]]
  <2>1. PICK s \in {"out", "done"} :
                /\ stage' = [stage EXCEPT ![w][i] = s]
                /\ held' = [held EXCEPT ![w][i] = IF s = "out" THEN Nothing ELSE held[w][i]]
    BY <1>3
  <2>2. WorkerTypes'
    BY <1>1, <1>3, <2>1, OneFails DEF Types, WorkerTypes
  <2>3. \A j \in Item : stage'[w][j] = "done" /\ job[w] # "tell" => held'[w][j] # Nothing
    BY <1>1, <2>1, OneFails DEF Types, Results, Busy
  <2>4. \A j \in Item : stage'[w][j] # "out" => stage[w][j] # "out"
    BY <1>1, <2>1, OneFails DEF Busy
  <2> QED BY <1>1, <1>3, <2>1, <2>2, <2>3, <2>4, OneFails, ProgressKept
          DEF Fails, Types, BusTypes
<1> QED BY <1>2, <1>3, FailsFacts

LEMMA RowGoneTypes == ASSUME Types, NEW w \in Worker, NEW i \in Item, RowGone(w, i) PROVE Types'
<1>1. ItemTypes' /\ BusTypes'
  BY ReleaseFacts DEF RowGone, ghosts, Types, ItemTypes, BusTypes
<1> QED BY <1>1, ReleaseFacts, EndKept DEF RowGone

LEMMA TellTypes == ASSUME Types, NEW w \in Worker, Tell(w) PROVE Types'
<1>1. told' \in [Item -> Nat] /\ queue' \in [Task -> 0..MaxQueue] /\ events' \in 0..MaxEvents
  <2>1. PICK i \in In(w, "done") :
       \/ Exists(i) /\ told' = [told EXCEPT ![i] = @ + 1] /\ UNCHANGED <<queue, events>>
       \/ Event /\ (Publish(task[w]) \/ UNCHANGED queue) /\ UNCHANGED told
       \/ ~Exists(i) /\ UNCHANGED <<told, queue, events>>
    BY DEF Tell
  <2>2. i \in Item
    BY DEF In
  <2> QED BY <2>1, <2>2, EventTypes, PublishTypes DEF Types, ItemTypes, BusTypes
<1>2. ItemTypes' /\ BusTypes'
  BY <1>1 DEF Tell, ghosts, Types, ItemTypes, BusTypes
<1> QED BY <1>2, EndKept DEF Tell

LEMMA WorkerLostTypes == ASSUME Types, NEW w \in Worker, WorkerLost(w) PROVE Types'
<1>1. ItemTypes' /\ BusTypes'
  BY EventTypes, PublishTypes DEF WorkerLost, ghosts, Types, ItemTypes, BusTypes
<1> QED BY <1>1, EndKept DEF WorkerLost

LEMMA RedeliverTypes == ASSUME Types, NEW w \in Worker, Redeliver(w) PROVE Types'
<1>1. ItemTypes' /\ RequestTypes'
  BY DEF Redeliver, ghosts, request, Types, ItemTypes, RequestTypes, Exists
<1> QED BY <1>1, EventTypes, PublishTypes, RouteTypes DEF Redeliver

LEMMA LockExpiresTypes == ASSUME Types, LockExpires PROVE Types'
<1>1. PICK k \in DOMAIN lock : job[lock[k]] # k /\ lock' = [lock EXCEPT ![k] = Nothing]
  BY DEF LockExpires
<1>2. UNCHANGED <<text, label, pending, told, queue, job, task, stage, held, req, reqItem,
                  reqHad, reqHeld, events, crossed, raced>>
  BY DEF LockExpires, worker, request, ghosts
<1>3. ItemTypes' /\ WorkerTypes' /\ RequestTypes' /\ Idle' /\ Results' /\ Single'
  BY <1>2 DEF Types, ItemTypes, WorkerTypes, RequestTypes, Idle, Results, Single, Exists
<1>4. BusTypes' /\ Locked'
  BY <1>1, <1>2 DEF Types, BusTypes, Locked
<1> QED BY <1>3, <1>4 DEF Types

LEMMA StutterTypes == ASSUME Types, UNCHANGED vars PROVE Types'
  BY DEF vars, worker, request, ghosts, Types, ItemTypes, WorkerTypes, BusTypes, RequestTypes,
         Locked, Idle, Results, Single, Exists

LEMMA StepTypes == ASSUME Types, [Next]_vars PROVE Types'
<1>1. Edited \subseteq Item
  BY ConstantAssumption
<1> QED
  BY <1>1, CreateTypes, LoadTypes, EnrichTypes, DeleteTypes, RequestStepTypes,
     LockExpiresTypes, TakeTypes, ReadTypes, PassTypes, DoneTypes, CommitTypes, FailsTypes,
     RowGoneTypes, CloseTypes, TellTypes, SweepBeginTypes, RetryBeginTypes, WorkerLostTypes,
     RedeliverTypes, StutterTypes DEF Next, Analyse, Beat

-----------------------------------------------------------------------------
(* Labels and announcements.                                                 *)

Truth == LabelIsCurrent /\ Fresh /\ Unborn /\ Announced

\* The step of a worker that announces nothing.
LEMMA WorkerTruth ==
  ASSUME Types, Types', Truth, NEW w \in Worker, Apart(w),
         UNCHANGED <<text, told, crossed, request>>,
         \A i \in Item : raced[i] => raced'[i],
         \A i \in Item : label'[i] = label[i] \/ (Holds(w, i) /\ label'[i] = held[w][i]),
         \A i \in Item : stage'[w][i] # "out" => stage[w][i] # "out" \/ Exists(i),
         \A i \in Item : Holds(w, i)' =>
           (Holds(w, i) /\ held'[w][i] = held[w][i]) \/ held'[w][i] = text[i],
         \A i \in Item : Exists(i) /\ ~raced'[i] /\ stage'[w][i] # "out" =>
           \/ stage[w][i] # "out" /\ (Peeks(w, i) => Peeks(w, i)')
           \/ Peeks(w, i)'
           \/ \A v \in Worker \ {w} : stage[v][i] = "out",
         \A i \in Item : stage'[w][i] # "out" /\ job'[w] \in {"single", "tell"} =>
           (stage[w][i] # "out" /\ job[w] \in {"single", "tell"}) \/ label[i] = Nothing,
         \A i \in Item : stage'[w][i] # "out" /\ job'[w] = "tell" =>
           (stage[w][i] # "out" /\ job[w] = "tell") \/ label'[i] # Nothing
  PROVE  Truth'
<1>1. \A i \in Item : Exists(i)' = Exists(i)
  BY DEF Exists
<1>2. \A v \in Worker \ {w}, i \in Item : /\ Holds(v, i)' = Holds(v, i)
                                          /\ Peeks(v, i)' = Peeks(v, i)
  BY DEF Apart, Holds, Peeks
<1>3. \A i \in Item : label[i] # Nothing => label'[i] # Nothing
  BY DEF Holds
<1>8. \A i \in Item : Enriching(i)' = Enriching(i)
  BY DEF Enriching, request
<1>9. \A i \in Item : HeldOlder(i, text[i])' => HeldOlder(i, text[i])
  <2> SUFFICES ASSUME NEW i \in Item, HeldOlder(i, text[i])' PROVE HeldOlder(i, text[i])
    OBVIOUS
  <2>1. CASE \E v \in Worker : Holds(v, i)' /\ held'[v][i] # text'[i]
    <3>1. PICK v \in Worker : Holds(v, i)' /\ held'[v][i] # text'[i]
      BY <2>1
    <3>2. Holds(v, i) /\ held[v][i] # text[i]
      BY <3>1, <1>2 DEF Apart
    <3> QED BY <3>2 DEF HeldOlder
  <2>2. CASE \E r \in Requester : Writes(r, i)' /\ reqHeld'[r] # text'[i]
    BY <2>2 DEF Writes, request, HeldOlder
  <2> QED BY <2>1, <2>2 DEF HeldOlder
<1>4. LabelIsCurrent'
  <2> SUFFICES ASSUME NEW i \in Item, Exists(i), label'[i] # Nothing
               PROVE  label'[i] = text[i] \/ crossed[i] \/ Enriching(i)
    BY <1>1, <1>8 DEF LabelIsCurrent
  <2>1. CASE label'[i] = label[i]
    BY <2>1 DEF Truth, LabelIsCurrent
  <2>2. CASE Holds(w, i) /\ label'[i] = held[w][i]
    BY <2>2 DEF Truth, Fresh, HeldOlder
  <2> QED BY <2>1, <2>2
<1>5. Fresh'
  BY <1>1, <1>8, <1>9 DEF Truth, Fresh
<1>6. Unborn'
  BY Sizes DEF Truth, Unborn, Apart, Exists, Holds
<1>7. Announced'
  <2> SUFFICES ASSUME NEW i \in Item
               PROVE  IF Exists(i) THEN raced'[i] \/ Alone(i)' ELSE told'[i] = 0
    BY <1>1 DEF Announced
  <2>1. CASE ~Exists(i)
    BY <2>1 DEF Truth, Announced
  <2>2. CASE Exists(i) /\ raced'[i]
    BY <2>2
  <2>3. CASE Exists(i) /\ ~raced'[i]
    <3>1. Alone(i)
      BY <2>3 DEF Truth, Announced
    <3>2. \A u, v \in Worker :
            u # v /\ stage'[u][i] # "out" /\ stage'[v][i] # "out" => Peeks(u, i)' \/ Peeks(v, i)'
      <4>1. \A v \in Worker \ {w} :
              stage'[w][i] # "out" /\ stage'[v][i] # "out" => Peeks(w, i)' \/ Peeks(v, i)'
        BY <1>2, <2>3, <3>1 DEF Apart, Alone
      <4>2. \A u, v \in Worker \ {w} : u # v /\ stage'[u][i] # "out" /\ stage'[v][i] # "out" =>
                                       Peeks(u, i)' \/ Peeks(v, i)'
        BY <1>2, <3>1 DEF Apart, Alone
      <4> QED BY <4>1, <4>2
    <3>3. told'[i] <= 1 /\ (told'[i] # 0 => label'[i] # Nothing)
      BY <1>3, <3>1 DEF Alone
    <3>4. \A v \in Worker : stage'[v][i] # "out" /\ job'[v] \in {"single", "tell"} => told'[i] = 0
      BY <3>1 DEF Alone, Apart
    <3>5. \A v \in Worker : stage'[v][i] # "out" /\ job'[v] = "tell" => label'[i] # Nothing
      BY <1>3, <3>1 DEF Alone, Apart
    <3> QED BY <2>3, <3>2, <3>3, <3>4, <3>5 DEF Alone
  <2> QED BY <2>1, <2>2, <2>3
<1> QED BY <1>4, <1>5, <1>6, <1>7 DEF Truth

\* A step of a route, which leaves the workers and the other items alone.
LEMMA RouteTruth ==
  ASSUME Types, Truth, NEW i \in Item, UNCHANGED worker,
         \A j \in Item \ {i} : /\ text'[j] = text[j] /\ label'[j] = label[j] /\ told'[j] = told[j]
                               /\ crossed[j] => crossed'[j]
                               /\ raced[j] => raced'[j]
                               /\ Enriching(j) => Enriching(j)'
                               /\ HeldOlder(j, text[j])' => HeldOlder(j, text[j]),
         Exists(i)' /\ label'[i] # Nothing =>
           label'[i] = text'[i] \/ crossed'[i] \/ Enriching(i)',
         Exists(i)' => crossed'[i] \/ Enriching(i)' \/ ~HeldOlder(i, text[i])',
         text'[i] # 0,
         IF Exists(i)' THEN raced'[i] \/ Alone(i)' ELSE told'[i] = 0
  PROVE  Truth'
<1>1. \A j \in Item \ {i} : Exists(j)' = Exists(j)
  BY DEF Exists
<1>2. \A w \in Worker, j \in Item : Holds(w, j)' = Holds(w, j) /\ Peeks(w, j)' = Peeks(w, j)
  BY DEF Holds, Peeks, worker
<1>3. LabelIsCurrent'
  BY <1>1 DEF Truth, LabelIsCurrent
<1>4. Fresh'
  BY <1>1 DEF Truth, Fresh
<1>5. Unborn'
  BY DEF Truth, Unborn, worker
<1>6. Announced'
  <2>1. \A j \in Item \ {i} : Alone(j) => Alone(j)'
    BY <1>2 DEF Alone, worker
  <2>2. \A j \in Item \ {i} : IF Exists(j)' THEN raced'[j] \/ Alone(j)' ELSE told'[j] = 0
    BY <1>1, <2>1 DEF Truth, Announced
  <2> QED BY <2>2 DEF Announced
<1> QED BY <1>3, <1>4, <1>5, <1>6 DEF Truth

\* Nothing is announced of an item without a label that no task has.
LEMMA ClearedIsAlone ==
  ASSUME Types, NEW i \in Item, UNCHANGED worker, told'[i] = 0,
         \A w \in Worker : stage[w][i] = "out"
  PROVE  Alone(i)'
  BY DEF Alone, worker

LEMMA CreateTruth == ASSUME Types, Truth, NEW S \in Arrivals, Create(S) PROVE Truth'
<1>1. S \in (SUBSET Item) \ {{}} /\ \A i \in S : text[i] = 0
  BY ConstantAssumption DEF Create
<1>2. /\ \A i \in Item : text'[i] = IF i \in S THEN 1 ELSE text[i]
      /\ UNCHANGED <<label, told, worker, req, reqItem, reqHeld, crossed, raced>>
  BY DEF Create, request, ghosts
<1>3. \A i \in S : /\ ~Exists(i) /\ label[i] = Nothing /\ told[i] = 0 /\ Exists(i)'
                   /\ \A w \in Worker : stage[w][i] = "out"
  BY <1>1, <1>2, Sizes DEF Truth, Unborn, Announced, Exists
<1>4. \A i \in Item \ S : Exists(i)' = Exists(i)
  BY <1>2 DEF Exists
<1>5. \A w \in Worker, i \in Item : Holds(w, i)' = Holds(w, i) /\ Peeks(w, i)' = Peeks(w, i)
  BY <1>2 DEF Holds, Peeks, worker
<1>6. LabelIsCurrent'
  BY <1>1, <1>2, <1>3, <1>4 DEF Truth, LabelIsCurrent, Enriching
<1>7. Fresh'
  <2>1. \A i \in Item : Enriching(i)' = Enriching(i)
    BY <1>2 DEF Enriching
  <2>2. \A i \in S : ~HeldOlder(i, text[i])'
    <3>1. \A r \in Requester, i \in S : ~Writes(r, i)
      BY <1>1 DEF Writes, Types, RequestTypes
    <3>2. \A w \in Worker, i \in S : ~Holds(w, i)
      BY <1>3 DEF Holds
    <3> QED BY <1>1, <1>2, <1>5, <3>1, <3>2 DEF HeldOlder, Writes
  <2>3. \A i \in Item \ S : HeldOlder(i, text[i])' => HeldOlder(i, text[i])
    BY <1>2, <1>5 DEF HeldOlder, Writes, worker
  <2> QED BY <1>2, <1>4, <2>1, <2>2, <2>3 DEF Truth, Fresh
<1>8. Unborn'
  BY <1>2, <1>3 DEF Truth, Unborn, worker
<1>9. Announced'
  <2>1. \A i \in S : Alone(i)'
    BY <1>1, <1>2, <1>3, ClearedIsAlone
  <2>2. \A i \in Item \ S : Alone(i) => Alone(i)'
    BY <1>2, <1>5 DEF Alone, worker
  <2> QED BY <1>1, <1>2, <1>3, <1>4, <2>1, <2>2 DEF Truth, Announced
<1> QED BY <1>6, <1>7, <1>8, <1>9 DEF Truth

\* The step of a requester leaves the other items as they are.
LEMMA OtherItems ==
  ASSUME Types, NEW r \in Requester, NEW i \in Item, Others(r), UNCHANGED worker,
         reqItem[r] = i \/ req[r] = "idle", reqItem'[r] = i \/ req'[r] = "idle",
         NEW j \in Item \ {i}, text'[j] = text[j]
  PROVE  /\ Enriching(j) => Enriching(j)'
         /\ HeldOlder(j, text[j])' => HeldOlder(j, text[j])
<1>1. ASSUME Enriching(j) PROVE Enriching(j)'
  <2>1. PICK q \in Requester : reqItem[q] = j /\ req[q] \in {"load", "clear"}
    BY <1>1 DEF Enriching
  <2>2. q # r
    BY <2>1
  <2> QED BY <2>1, <2>2 DEF Others, Enriching
<1>2. ASSUME HeldOlder(j, text[j])' PROVE HeldOlder(j, text[j])
  <2>1. CASE \E w \in Worker : Holds(w, j)' /\ held'[w][j] # text'[j]
    BY <2>1 DEF Holds, worker, HeldOlder
  <2>2. CASE \E q \in Requester : Writes(q, j)' /\ reqHeld'[q] # text'[j]
    <3>1. PICK q \in Requester : Writes(q, j)' /\ reqHeld'[q] # text'[j]
      BY <2>2
    <3>2. q # r
      BY <3>1 DEF Writes
    <3> QED BY <3>1, <3>2 DEF Others, Writes, HeldOlder
  <2> QED BY <1>2, <2>1, <2>2 DEF HeldOlder
<1> QED BY <1>1, <1>2

\* Nor does it make somebody write about its own, or stop another enrichment of it.
LEMMA OwnItem ==
  ASSUME Types, NEW r \in Requester, NEW i \in Item, Others(r), UNCHANGED worker,
         req'[r] # "write", NEW v, text'[i] = v
  PROVE  /\ HeldOlder(i, text[i])' => HeldOlder(i, v)
         /\ Enriching(i) => Enriching(i)' \/ req[r] \in {"load", "clear"}
<1>1. ASSUME HeldOlder(i, text[i])' PROVE HeldOlder(i, v)
  <2>1. CASE \E w \in Worker : Holds(w, i)' /\ held'[w][i] # text'[i]
    BY <2>1 DEF Holds, worker, HeldOlder
  <2>2. CASE \E q \in Requester : Writes(q, i)' /\ reqHeld'[q] # text'[i]
    <3>1. PICK q \in Requester : Writes(q, i)' /\ reqHeld'[q] # text'[i]
      BY <2>2
    <3>2. q # r
      BY <3>1 DEF Writes
    <3> QED BY <3>1, <3>2 DEF Others, Writes, HeldOlder
  <2> QED BY <1>1, <2>1, <2>2 DEF HeldOlder
<1>2. ASSUME Enriching(i), req[r] \notin {"load", "clear"} PROVE Enriching(i)'
  <2>1. PICK q \in Requester : reqItem[q] = i /\ req[q] \in {"load", "clear"}
    BY <1>2 DEF Enriching
  <2> QED BY <1>2, <2>1 DEF Others, Enriching
<1> QED BY <1>1, <1>2

\* A clear leaves an item to nobody, or as alone as it was.
LEMMA ClearAlone ==
  ASSUME Types, Truth, NEW r \in Requester, NEW i \in Item, NEW v, Clear(r, i, v),
         UNCHANGED worker, Exists(i)
  PROVE  raced'[i] \/ Alone(i)'
<1>1. CASE /\ label'[i] = Nothing /\ told'[i] = 0
           /\ ~raced'[i] => \A w \in Worker : stage[w][i] = "out"
  BY <1>1, ClearedIsAlone
<1>2. CASE label'[i] = label[i] /\ told'[i] = told[i] /\ raced'[i] = raced[i]
  <2>1. raced[i] \/ Alone(i)
    BY DEF Truth, Announced
  <2>2. \A w \in Worker : Peeks(w, i)' = Peeks(w, i)
    BY DEF Peeks, worker
  <2> QED BY <1>2, <2>1, <2>2 DEF Alone, worker
<1> QED BY <1>1, <1>2, ClearFacts

LEMMA DeleteTruth == ASSUME Types, Truth, NEW i \in Item, Delete(i) PROVE Truth'
<1>1. ~Exists(i)' /\ text'[i] # 0 /\ told'[i] = 0 /\ UNCHANGED <<worker, req, reqItem, reqHeld>>
  BY Sizes DEF Delete, Exists, Types, ItemTypes, request
<1>2. \A j \in Item \ {i} : /\ text'[j] = text[j] /\ label'[j] = label[j] /\ told'[j] = told[j]
                            /\ crossed'[j] = crossed[j] /\ raced'[j] = raced[j]
  BY DEF Delete, Types, ItemTypes
<1>3. \A j \in Item \ {i} : /\ Enriching(j) => Enriching(j)'
                            /\ HeldOlder(j, text[j])' => HeldOlder(j, text[j])
  BY <1>1, <1>2 DEF Enriching, HeldOlder, Holds, Writes, worker
<1> QED BY <1>1, <1>2, <1>3, RouteTruth

\* What stays alone as it is.
LEMMA StaysAlone ==
  ASSUME Types, Truth, NEW i \in Item, UNCHANGED <<text, worker, told, raced>>,
         label[i] # Nothing => label'[i] # Nothing
  PROVE  IF Exists(i)' THEN raced'[i] \/ Alone(i)' ELSE told'[i] = 0
<1>1. \A w \in Worker : Peeks(w, i)' = Peeks(w, i)
  BY DEF Peeks, worker
<1>2. Alone(i) => Alone(i)'
  BY <1>1 DEF Alone, worker
<1> QED BY <1>2 DEF Truth, Announced, Exists

LEMMA LoadTruth ==
  ASSUME Types, Truth, NEW r \in Requester, NEW i \in Item, PatchLoad(r, i) \/ Reanalyse(r, i)
  PROVE  Truth'
<1>1. PICK s \in {"patch", "force"} : Starts(r, i, s) /\ Loads(r, i)
  BY DEF PatchLoad, Reanalyse
<1>2. UNCHANGED <<text, label, told, worker, reqHeld, crossed, raced>>
  BY DEF PatchLoad, Reanalyse, ghosts
<1>3. Others(r) /\ req[r] = "idle" /\ req'[r] = s /\ reqItem'[r] = i /\ Exists(i)
  BY <1>1, <1>2, StartsFacts, LoadsFacts DEF Others
<1>4. text'[i] # 0 /\ Exists(i)'
  BY <1>2, <1>3, Sizes DEF Exists
<1>5. /\ HeldOlder(i, text[i])' => HeldOlder(i, text[i])
      /\ Enriching(i) => Enriching(i)'
  BY <1>2, <1>3, OwnItem
<1>6. \A j \in Item \ {i} : /\ Enriching(j) => Enriching(j)'
                            /\ HeldOlder(j, text[j])' => HeldOlder(j, text[j])
  BY <1>2, <1>3, OtherItems
<1>7. label[i] # Nothing => label[i] = text[i] \/ crossed[i] \/ Enriching(i)'
  BY <1>3, <1>5 DEF Truth, LabelIsCurrent
<1>8. crossed[i] \/ Enriching(i)' \/ ~HeldOlder(i, text[i])'
  BY <1>3, <1>5 DEF Truth, Fresh
<1> QED BY <1>2, <1>4, <1>6, <1>7, <1>8, StaysAlone, RouteTruth

LEMMA EnrichTruth ==
  ASSUME Types, Truth, NEW r \in Requester, NEW i \in Item, Enrich(r, i) PROVE Truth'
<1>1. /\ Starts(r, i, "load") /\ Exists(i) /\ text[i] < MaxText
      /\ text' = [text EXCEPT ![i] = @ + 1]
      /\ UNCHANGED <<label, told, worker, reqHad, reqHeld, crossed, raced>>
  BY DEF Enrich, Starts, ghosts
<1>2. Others(r) /\ req[r] = "idle" /\ req'[r] = "load" /\ reqItem'[r] = i
  BY <1>1, StartsFacts DEF Others
<1>3. Enriching(i)'
  BY <1>2 DEF Enriching
<1>4. raced'[i] \/ Alone(i)'
  <2>1. raced[i] \/ Alone(i)
    BY <1>1 DEF Truth, Announced
  <2>2. \A w \in Worker : Peeks(w, i)' = Peeks(w, i)
    BY <1>1 DEF Peeks, worker
  <2> QED BY <1>1, <2>1, <2>2 DEF Alone, worker
<1>5. text'[i] # 0 /\ Exists(i)' /\ \A j \in Item \ {i} : text'[j] = text[j]
  BY <1>1, NewVersion
<1>6. \A j \in Item \ {i} : /\ Enriching(j) => Enriching(j)'
                            /\ HeldOlder(j, text[j])' => HeldOlder(j, text[j])
  BY <1>1, <1>2, <1>5, OtherItems
<1> QED BY <1>1, <1>3, <1>4, <1>5, <1>6, RouteTruth

LEMMA PatchTextTruth == ASSUME Types, Truth, NEW r \in Requester, PatchText(r) PROVE Truth'
<1>1. PICK i \in Item : i = reqItem[r] /\ Exists(i)
  BY DEF PatchText, Types, RequestTypes
<1>2. /\ Clear(r, i, text[i] + 1) /\ req' = [req EXCEPT ![r] = "read"] /\ req[r] = "patch"
      /\ text[i] < MaxText /\ text' = [text EXCEPT ![i] = @ + 1]
      /\ UNCHANGED <<worker, reqItem, reqHad, reqHeld>>
  BY <1>1 DEF PatchText
<1>3. Others(r) /\ req'[r] = "read" /\ reqItem'[r] = i
  BY <1>1, <1>2 DEF Others, Types, RequestTypes
<1>4. /\ text'[i] = text[i] + 1 /\ text'[i] # 0 /\ Exists(i)'
      /\ \A j \in Item \ {i} : text'[j] = text[j]
  BY <1>1, <1>2, NewVersion
<1>5. HeldOlder(i, text[i])' => crossed'[i]
  BY <1>2, <1>3, <1>4, OwnItem, ClearFacts
<1>6. \A j \in Item \ {i} : /\ Enriching(j) => Enriching(j)'
                            /\ HeldOlder(j, text[j])' => HeldOlder(j, text[j])
  BY <1>1, <1>2, <1>3, <1>4, OtherItems
<1>7. raced'[i] \/ Alone(i)'
  BY <1>1, <1>2, ClearAlone
<1> QED BY <1>2, <1>4, <1>5, <1>6, <1>7, ClearFacts, RouteTruth

LEMMA RequestTruth == ASSUME Types, Truth, NEW r \in Requester, Request(r) PROVE Truth'
<1>1. PICK i \in Item : i = reqItem[r] /\ text[i] # 0
  BY DEF Request, PatchText, RequestLoad, RequestClear, RequestRead, RequestWrite,
         RequestFails, Types, RequestTypes
<1>2. CASE RequestLoad(r) \/ RequestRead(r)
  <2>1. /\ UNCHANGED <<text, label, told, worker, crossed, raced, reqItem>>
        /\ Loads(r, i) /\ Exists(i)
        /\ \A q \in Requester \ {r} : req'[q] = req[q] /\ reqHeld'[q] = reqHeld[q]
        /\ \/ req[r] = "load" /\ req'[r] = "clear"
           \/ req[r] = "read" /\ req'[r] = "write" /\ reqHeld'[r] = text[i]
    BY <1>1, <1>2 DEF RequestLoad, RequestRead, ghosts, Types, RequestTypes
  <2>2. Others(r)
    BY <2>1, LoadsFacts DEF Others
  <2>3. text'[i] # 0 /\ Exists(i)'
    BY <1>1, <2>1 DEF Exists
  <2>4. \A j \in Item \ {i} : /\ Enriching(j) => Enriching(j)'
                              /\ HeldOlder(j, text[j])' => HeldOlder(j, text[j])
    BY <1>1, <2>1, <2>2, OtherItems
  <2>5. Enriching(i) => Enriching(i)'
    <3>1. CASE req[r] = "load"
      BY <1>1, <2>1, <3>1 DEF Enriching
    <3>2. CASE req[r] = "read"
      <4>1. ASSUME Enriching(i) PROVE Enriching(i)'
        <5>1. PICK q \in Requester : reqItem[q] = i /\ req[q] \in {"load", "clear"}
          BY <4>1 DEF Enriching
        <5> QED BY <2>1, <3>2, <5>1 DEF Enriching
      <4> QED BY <4>1
    <3> QED BY <2>1, <3>1, <3>2
  <2>6. HeldOlder(i, text[i])' => HeldOlder(i, text[i])
    <3>1. CASE \E w \in Worker : Holds(w, i)' /\ held'[w][i] # text'[i]
      BY <2>1, <3>1 DEF Holds, worker, HeldOlder
    <3>2. ASSUME NEW q \in Requester, Writes(q, i)', reqHeld'[q] # text'[i]
          PROVE  HeldOlder(i, text[i])
      <4>1. q # r
        BY <2>1, <3>2 DEF Writes
      <4> QED BY <2>1, <3>2, <4>1 DEF Writes, HeldOlder
    <3> QED BY <3>1, <3>2 DEF HeldOlder
  <2>7. label[i] # Nothing => label[i] = text[i] \/ crossed[i] \/ Enriching(i)'
    BY <2>1, <2>5 DEF Truth, LabelIsCurrent
  <2>8. crossed[i] \/ Enriching(i)' \/ ~HeldOlder(i, text[i])'
    BY <2>1, <2>5, <2>6 DEF Truth, Fresh
  <2> QED BY <2>1, <2>3, <2>4, <2>7, <2>8, StaysAlone, RouteTruth
<1>3. CASE RequestClear(r) \/ RequestWrite(r) \/ RequestFails(r)
  <2>1. RequestEnd(r) /\ UNCHANGED <<text, worker>>
    BY <1>3 DEF RequestClear, RequestWrite, RequestFails
  <2>2. Others(r) /\ req'[r] = "idle"
    BY <2>1, EndsFacts
  <2>3. text'[i] # 0 /\ Exists(i)' = Exists(i)
    BY <1>1, <2>1 DEF Exists
  <2>4. \A j \in Item \ {i} : /\ Enriching(j) => Enriching(j)'
                              /\ HeldOlder(j, text[j])' => HeldOlder(j, text[j])
    BY <1>1, <2>1, <2>2, OtherItems
  <2>5. /\ HeldOlder(i, text[i])' => HeldOlder(i, text[i])
        /\ Enriching(i) => Enriching(i)' \/ req[r] \in {"load", "clear"}
    BY <2>1, <2>2, OwnItem
  <2>6. CASE RequestClear(r)
    <3>1. Clear(r, i, text[i]) /\ Exists(i)
      BY <1>1, <2>6 DEF RequestClear
    <3>2. raced'[i] \/ Alone(i)'
      BY <2>1, <3>1, ClearAlone
    <3>3. HeldOlder(i, text[i])' => crossed'[i]
      BY <2>5, <3>1, ClearFacts
    <3> QED BY <2>1, <2>3, <2>4, <3>1, <3>2, <3>3, ClearFacts, RouteTruth
  <2>7. CASE RequestWrite(r)
    <3>1. /\ UNCHANGED <<told, crossed, raced>> /\ req[r] = "write" /\ Exists(i)
          /\ label' = [label EXCEPT ![i] = reqHeld[r]] \/ UNCHANGED label
      BY <1>1, <2>7 DEF RequestWrite, ghosts
    <3>2. reqHeld[r] \in Version /\ Writes(r, i)
      BY <1>1, <3>1 DEF Types, RequestTypes, Writes
    <3>3. /\ label'[i] \in {label[i], reqHeld[r]} /\ \A j \in Item \ {i} : label'[j] = label[j]
          /\ label[i] # Nothing => label'[i] # Nothing
      BY <3>1, <3>2, Sizes DEF Types, ItemTypes
    <3>4. Enriching(i) => Enriching(i)'
      BY <2>5, <3>1
    <3>5. label'[i] # Nothing => label'[i] = text[i] \/ crossed[i] \/ Enriching(i)'
      <4>1. crossed[i] \/ Enriching(i)' \/ reqHeld[r] = text[i]
        BY <3>1, <3>2, <3>4 DEF Truth, Fresh, HeldOlder
      <4> QED BY <3>1, <3>3, <3>4, <4>1 DEF Truth, LabelIsCurrent
    <3>6. crossed[i] \/ Enriching(i)' \/ ~HeldOlder(i, text[i])'
      BY <2>5, <3>1, <3>4 DEF Truth, Fresh
    <3> QED BY <2>1, <2>3, <2>4, <3>1, <3>3, <3>5, <3>6, StaysAlone, RouteTruth
  <2>8. CASE RequestFails(r)
    <3>1. /\ UNCHANGED <<label, told, raced>>
          /\ crossed' = [crossed EXCEPT ![i] = @ \/ req[r] \in {"load", "clear"}]
      BY <1>1, <2>8 DEF RequestFails
    <3>2. /\ crossed'[i] = (crossed[i] \/ req[r] \in {"load", "clear"})
          /\ \A j \in Item \ {i} : crossed'[j] = crossed[j]
      BY <3>1, Zenon DEF Types, ItemTypes
    <3>3. Exists(i) /\ label[i] # Nothing =>
            label[i] = text[i] \/ crossed'[i] \/ Enriching(i)'
      BY <2>5, <3>2 DEF Truth, LabelIsCurrent
    <3>4. Exists(i) => crossed'[i] \/ Enriching(i)' \/ ~HeldOlder(i, text[i])'
      BY <2>5, <3>2 DEF Truth, Fresh
    <3> QED BY <2>1, <2>3, <2>4, <3>1, <3>2, <3>3, <3>4, StaysAlone, RouteTruth
  <2> QED BY <1>3, <2>6, <2>7, <2>8
<1> QED BY <1>2, <1>3, PatchTextTruth DEF Request

\* Progress of a task that reads and writes nothing.
LEMMA LessTruth ==
  ASSUME Types, Types', Truth, NEW w \in Worker, Apart(w),
         UNCHANGED <<text, label, told, crossed, raced, request>>,
         \A i \in Item : stage'[w][i] # "out" =>
           stage[w][i] # "out" /\ job'[w] = job[w] /\ held'[w][i] = held[w][i]
  PROVE  Truth'
<1>1. \A i \in Item : Holds(w, i)' => Holds(w, i) /\ held'[w][i] = held[w][i]
  BY DEF Holds
<1>2. \A i \in Item : stage'[w][i] # "out" => (Peeks(w, i) => Peeks(w, i)')
  BY DEF Peeks
<1>3. \A i \in Item : stage'[w][i] # "out" /\ job'[w] = "tell" =>
        stage[w][i] # "out" /\ job[w] = "tell"
  OBVIOUS
<1> QED BY <1>1, <1>2, <1>3, WorkerTruth

LEMMA TakeTruth ==
  ASSUME Types, Types', Truth, NEW w \in Worker, NEW t \in Task, Take(w, t)
  PROVE  Truth'
<1> DEFINE open == t.items \cap Unanalysed
<1>1. UNCHANGED <<text, label, told, crossed, request>>
  BY DEF Take
<1>2. CASE open = {}
  <2>1. UNCHANGED worker /\ UNCHANGED raced /\ Apart(w)
    BY <1>2 DEF Take, Apart, worker
  <2>2. \A i \in Item : stage'[w][i] = stage[w][i] /\ held'[w][i] = held[w][i] /\ job'[w] = job[w]
    BY <2>1 DEF worker
  <2> QED BY <1>1, <2>1, <2>2, LessTruth
<1>3. CASE open # {}
  <2>1. Begins(w, t.kind, t, open, text) /\ Meets(w, open)
    BY <1>3 DEF Take
  <2>2. /\ open \in SUBSET Item /\ t.kind \in {"single", "batch"}
        /\ \A i \in open : Exists(i) /\ text[i] \in Version /\ label[i] = Nothing
    BY DEF Unanalysed, Exists, Task
  <2>3. text \in [Item -> Version \cup {0, Gone, Nothing}]
    BY DEF Types, ItemTypes
  <2> HIDE DEF open
  <2>4. /\ Apart(w) /\ job'[w] = t.kind
        /\ \A i \in Item : /\ stage'[w][i] = IF i \in open THEN "todo" ELSE "out"
                           /\ held'[w][i] = IF i \in open THEN text[i] ELSE Nothing
    BY <2>1, <2>2, <2>3, BeginsFacts DEF Kind
  <2>5. /\ \A i \in Item : raced[i] => raced'[i]
        /\ \A i \in Item : i \in open /\ ~raced'[i] => \A v \in Worker \ {w} : stage[v][i] = "out"
    BY <2>1, <2>2, MeetsFacts
  <2>6. \A i \in Item : Holds(w, i)' => held'[w][i] = text[i]
    BY <2>4 DEF Holds
  <2> QED BY <1>1, <2>2, <2>4, <2>5, <2>6, WorkerTruth
<1> QED BY <1>2, <1>3

LEMMA SweepBeginTruth ==
  ASSUME Types, Types', Truth, NEW w \in Worker, SweepBegin(w)
  PROVE  Truth'
<1>1. PICK S \in SUBSET Unanalysed : Begins(w, "sweep", Nothing, S, AllNothing)
  BY DEF SweepBegin
<1>2. S \in SUBSET Item /\ \A i \in S : Exists(i)
  BY DEF Unanalysed
<1>3. /\ AllNothing \in [Item -> Version \cup {0, Gone, Nothing}]
      /\ \A i \in S : AllNothing[i] = Nothing
  BY <1>2 DEF AllNothing
<1>4. /\ Apart(w) /\ job'[w] = "sweep"
      /\ \A i \in Item : /\ stage'[w][i] = IF i \in S THEN "todo" ELSE "out"
                         /\ held'[w][i] = IF i \in S THEN AllNothing[i] ELSE Nothing
  BY <1>1, <1>2, <1>3, BeginsFacts DEF Kind
<1>5. \A i \in Item : ~Holds(w, i)' /\ Peeks(w, i)'
  BY <1>3, <1>4 DEF Holds, Peeks
<1>6. UNCHANGED <<text, label, told, crossed, raced, request>>
  BY DEF SweepBegin, ghosts
<1> QED BY <1>2, <1>4, <1>5, <1>6, WorkerTruth

LEMMA RetryBeginTruth ==
  ASSUME Types, Types', Truth, NEW w \in Worker, RetryBegin(w)
  PROVE  Truth'
<1> DEFINE S == {i \in Item : Exists(i) /\ pending[i]}
<1>1. Begins(w, "llm", Nothing, S, text) /\ Meets(w, S)
  BY DEF RetryBegin
<1>2. S \in SUBSET Item /\ \A i \in S : Exists(i) /\ text[i] \in Version
  BY DEF Exists
<1>3. text \in [Item -> Version \cup {0, Gone, Nothing}]
  BY DEF Types, ItemTypes
<1> HIDE DEF S
<1>4. /\ Apart(w) /\ job'[w] = "llm"
      /\ \A i \in Item : /\ stage'[w][i] = IF i \in S THEN "todo" ELSE "out"
                         /\ held'[w][i] = IF i \in S THEN text[i] ELSE Nothing
  BY <1>1, <1>2, <1>3, BeginsFacts DEF Kind
<1>5. /\ \A i \in Item : raced[i] => raced'[i]
      /\ \A i \in Item : i \in S /\ ~raced'[i] => \A v \in Worker \ {w} : stage[v][i] = "out"
  BY <1>1, <1>2, MeetsFacts
<1>6. \A i \in Item : Holds(w, i)' => held'[w][i] = text[i]
  BY <1>4 DEF Holds
<1>7. UNCHANGED <<text, label, told, crossed, request>>
  BY DEF RetryBegin
<1> QED BY <1>2, <1>4, <1>5, <1>6, <1>7, WorkerTruth

LEMMA ReadTruth ==
  ASSUME Types, Types', Truth, NEW w \in Worker, NEW i \in Item, Read(w, i)
  PROVE  Truth'
<1>1. /\ UNCHANGED <<text, label, told, job, task, stage, crossed, request>> /\ Meets(w, {i})
      /\ job[w] \notin {"idle", "tell"}
  BY DEF Read, ToRead, Types, Idle, AllOut, Results
<1>2. /\ Exists(i) /\ held'[w][i] = text[i] /\ Apart(w)
      /\ \A j \in Item \ {i} : held'[w][j] = held[w][j]
  BY <1>1, ReadFacts DEF Apart
<1>3. /\ \A j \in Item : raced[j] => raced'[j]
      /\ ~raced'[i] => \A v \in Worker \ {w} : stage[v][i] = "out"
  BY <1>1, <1>2, MeetsFacts
<1>4. \A j \in Item \ {i} : Holds(w, j)' = Holds(w, j) /\ Peeks(w, j)' = Peeks(w, j)
  BY <1>1, <1>2 DEF Holds, Peeks
<1> QED BY <1>1, <1>2, <1>3, <1>4, WorkerTruth

LEMMA PassTruth ==
  ASSUME Types, Types', Truth, NEW w \in Worker, NEW i \in Item, Pass(w, i) \/ Done(w, i)
  PROVE  Truth'
<1>1. PICK s \in {"out", "todo", "done"} :
        stage' = [stage EXCEPT ![w][i] = s] /\ (s # "out" => stage[w][i] = "todo")
  BY DEF Pass, Done, Busy
<1>2. UNCHANGED <<text, label, told, job, task, held, crossed, raced, request>>
  BY DEF Pass, Done, ghosts
<1>3. /\ stage'[w][i] = s /\ \A j \in Item \ {i} : stage'[w][j] = stage[w][j]
      /\ \A v \in Worker \ {w} : stage'[v] = stage[v]
  <2>1. s \in {"out", "todo", "done"} /\ stage' = [stage EXCEPT ![w][i] = s]
    BY <1>1
  <2> QED BY <2>1, StageFacts
<1>4. Apart(w)
  BY <1>2, <1>3 DEF Apart
<1>5. \A j \in Item : stage'[w][j] # "out" => stage[w][j] # "out"
  BY <1>1, <1>3
<1> QED BY <1>2, <1>4, <1>5, LessTruth

LEMMA CommitTruth ==
  ASSUME Types, Types', Truth, NEW w \in Worker, NEW i \in Item, Commit(w, i)
  PROVE  Truth'
<1>1. Ready(w, i) \in SUBSET Item /\ Write(w, Ready(w, i))
      /\ UNCHANGED <<text, told, crossed, raced, request>>
  BY DEF Commit, Ready, In, ghosts
<1>2. /\ \A j \in Item \ Ready(w, i) : label'[j] = label[j]
      /\ \A j \in Ready(w, i) : label'[j] \in {label[j], held[w][j]}
      /\ job[w] # "llm" => \A j \in Ready(w, i) : label'[j] = held[w][j]
  BY <1>1, WriteFacts
<1>3. /\ Apart(w) /\ job'[w] = IF job[w] = "single" THEN "tell" ELSE job[w]
      /\ \A j \in Item : held'[w][j] \in {held[w][j], Nothing}
      /\ \A j \in Ready(w, i) : /\ stage'[w][j] = IF job[w] = "single" THEN "done" ELSE "out"
                                /\ held[w][j] # Nothing /\ stage[w][j] # "out" /\ j \in Item
      /\ \A j \in Item \ Ready(w, i) : stage'[w][j] = stage[w][j]
  BY CommitFacts
<1>4. \A j \in Item : label'[j] = label[j] \/ (Holds(w, j) /\ label'[j] = held[w][j])
  BY <1>2, <1>3 DEF Holds
<1>5. \A j \in Item : stage'[w][j] # "out" => stage[w][j] # "out"
  BY <1>3
<1>6. \A j \in Item : Holds(w, j)' => Holds(w, j) /\ held'[w][j] = held[w][j]
  BY <1>3, <1>5 DEF Holds
<1>7. \A j \in Item : Peeks(w, j) => Peeks(w, j)'
  BY <1>3 DEF Peeks
<1>8. \A j \in Item : stage'[w][j] # "out" /\ job'[w] = "tell" =>
        (stage[w][j] # "out" /\ job[w] = "tell") \/ label'[j] # Nothing
  <2> SUFFICES ASSUME NEW j \in Item, stage'[w][j] # "out", job'[w] = "tell", job[w] = "single"
               PROVE  label'[j] # Nothing
    BY <1>3, <1>5
  <2>1. stage[w][j] # "out" /\ stage[w][i] # "out" /\ i \in Ready(w, i)
    BY <1>5 DEF Commit, Busy, Ready
  <2>2. j = i
    BY <2>1 DEF Types, Single
  <2> QED BY <1>2, <1>3, <2>1, <2>2
<1> QED BY <1>1, <1>3, <1>4, <1>5, <1>6, <1>7, <1>8, WorkerTruth

\* A task that is over.
LEMMA EndTruth ==
  ASSUME Types, Types', Truth, NEW w \in Worker, End(w),
         UNCHANGED <<text, told, crossed, raced, request>>,
         \A i \in Item : label'[i] = label[i] \/ (Holds(w, i) /\ label'[i] = held[w][i])
  PROVE  Truth'
<1>1. Apart(w) /\ job'[w] = "idle" /\ \A i \in Item : stage'[w][i] = "out"
  BY EndFacts DEF AllOut
<1>2. \A i \in Item : ~Holds(w, i)'
  BY <1>1 DEF Holds
<1> QED BY <1>1, <1>2, WorkerTruth

LEMMA CloseTruth ==
  ASSUME Types, Types', Truth, NEW w \in Worker, Close(w)
  PROVE  Truth'
<1>1. PICK D \in SUBSET Item :
           /\ \A i \in D : stage[w][i] = "done" /\ Exists(i) /\ held[w][i] # Nothing
           /\ Write(w, D) \/ (D = {} /\ UNCHANGED <<label, pending, events>>)
  BY CloseFacts
<1>2. \A i \in Item : label'[i] = label[i] \/ (Holds(w, i) /\ label'[i] = held[w][i])
  BY <1>1, WriteFacts DEF Holds
<1> QED BY <1>2, EndTruth DEF Close, ghosts

LEMMA FailsTruth ==
  ASSUME Types, Types', Truth, NEW w \in Worker, NEW i \in Item, Fails(w, i)
  PROVE  Truth'
<1>1. Busy(w, i) /\ UNCHANGED <<text, label, told, crossed, raced, request>>
  BY DEF Fails, ghosts
<1>2. CASE End(w)
  BY <1>1, <1>2, EndTruth
<1>3. CASE /\ UNCHANGED <<job, task>>
           /\ \E s \in {"out", "done"} :
                /\ stage' = [stage EXCEPT ![w][i] = s]
                /\ held' = [held EXCEPT ![w][i] = IF s = "out" THEN Nothing ELSE held[w][i]]
  <2>1. PICK s \in {"out", "done"} :
                /\ stage' = [stage EXCEPT ![w][i] = s]
                /\ held' = [held EXCEPT ![w][i] = IF s = "out" THEN Nothing ELSE held[w][i]]
    BY <1>3
  <2>2. /\ stage'[w][i] = s /\ (s = "done" => held'[w][i] = held[w][i])
        /\ \A j \in Item \ {i} : stage'[w][j] = stage[w][j] /\ held'[w][j] = held[w][j]
        /\ Apart(w)
    BY <1>1, <1>3, <2>1, OneFails DEF Apart
  <2>3. \A j \in Item : stage'[w][j] # "out" =>
          stage[w][j] # "out" /\ job'[w] = job[w] /\ held'[w][j] = held[w][j]
    BY <1>1, <1>3, <2>2 DEF Busy
  <2> QED BY <1>1, <2>2, <2>3, LessTruth
<1> QED BY <1>2, <1>3, FailsFacts

LEMMA RowGoneTruth ==
  ASSUME Types, Types', Truth, NEW w \in Worker, NEW i \in Item, RowGone(w, i)
  PROVE  Truth'
  BY EndTruth DEF RowGone, ghosts

LEMMA WorkerLostTruth ==
  ASSUME Types, Types', Truth, NEW w \in Worker, WorkerLost(w)
  PROVE  Truth'
  BY EndTruth DEF WorkerLost, ghosts

\* The announcement of a task that is alone is the first, and nobody owes another.
LEMMA TellTruth ==
  ASSUME Types, Types', Truth, NEW w \in Worker, Tell(w)
  PROVE  Truth'
<1>1. /\ End(w) /\ job[w] = "tell"
      /\ UNCHANGED <<text, label, crossed, raced, req, reqItem, reqHeld>>
  BY DEF Tell, request, ghosts
<1>2. CASE UNCHANGED told
  BY <1>1, <1>2, EndTruth DEF Tell, ghosts
<1>3. CASE \E i \in In(w, "done") : Exists(i) /\ told' = [told EXCEPT ![i] = @ + 1]
  <2>1. PICK i \in Item : stage[w][i] = "done" /\ Exists(i) /\ told' = [told EXCEPT ![i] = @ + 1]
    BY <1>3 DEF In
  <2>2. told'[i] = told[i] + 1 /\ \A j \in Item \ {i} : told'[j] = told[j]
    BY <2>1 DEF Types, ItemTypes
  <2>3. /\ Apart(w) /\ job'[w] = "idle" /\ \A j \in Item : stage'[w][j] = "out"
    BY <1>1, EndFacts DEF AllOut
  <2>4. \A j \in Item : Exists(j)' = Exists(j) /\ ~Holds(w, j)'
    BY <1>1, <2>3 DEF Exists, Holds
  <2>5. \A v \in Worker \ {w}, j \in Item : /\ Holds(v, j)' = Holds(v, j)
                                          /\ Peeks(v, j)' = Peeks(v, j)
    BY <2>3 DEF Apart, Holds, Peeks
  <2>10. \A j \in Item : /\ Enriching(j)' = Enriching(j)
                         /\ HeldOlder(j, text[j])' => HeldOlder(j, text[j])
    BY <1>1, <2>3, <2>4, <2>5 DEF Enriching, HeldOlder, Writes, Apart
  <2>6. LabelIsCurrent' /\ Fresh' /\ Unborn'
    BY <1>1, <2>3, <2>4, <2>10 DEF Truth, LabelIsCurrent, Fresh, Unborn, Apart
  <2>7. Alone(i) => Alone(i)'
    <3> SUFFICES ASSUME Alone(i) PROVE Alone(i)'
      OBVIOUS
    <3>1. told[i] = 0 /\ label[i] # Nothing
      BY <1>1, <2>1 DEF Alone
    <3>2. \A v \in Worker \ {w} : stage[v][i] # "out" => job[v] \notin {"single", "tell"}
      BY <1>1, <2>1 DEF Alone, Peeks
    <3>3. \A u, v \in Worker :
            u # v /\ stage'[u][i] # "out" /\ stage'[v][i] # "out" => Peeks(u, i)' \/ Peeks(v, i)'
      BY <2>3, <2>5 DEF Alone, Apart
    <3>4. \A v \in Worker : stage'[v][i] # "out" => job'[v] \notin {"single", "tell"}
      BY <2>3, <3>2 DEF Apart
    <3> QED BY <1>1, <2>2, <3>1, <3>3, <3>4 DEF Alone
  <2>8. \A j \in Item \ {i} : Alone(j) => Alone(j)'
    BY <1>1, <2>2, <2>3, <2>5 DEF Alone, Apart
  <2>9. Announced'
    BY <1>1, <2>1, <2>2, <2>4, <2>7, <2>8 DEF Truth, Announced
  <2> QED BY <2>6, <2>9 DEF Truth
<1> QED BY <1>2, <1>3 DEF Tell

LEMMA QuietTruth ==
  ASSUME Types, Truth, UNCHANGED <<text, label, told, worker, request, ghosts>>
  PROVE  Truth'
<1>1. \A i \in Item : /\ Exists(i)' = Exists(i)
                     /\ \A w \in Worker : Holds(w, i)' = Holds(w, i) /\ Peeks(w, i)' = Peeks(w, i)
  BY DEF Exists, Holds, Peeks, worker
<1>2. \A i \in Item : Alone(i) => Alone(i)'
  BY <1>1 DEF Alone, worker
<1>3. \A i \in Item : /\ Enriching(i)' = Enriching(i)
                      /\ HeldOlder(i, text[i])' = HeldOlder(i, text[i])
  BY <1>1 DEF Enriching, HeldOlder, Writes, worker, request
<1> QED BY <1>1, <1>2, <1>3
        DEF Truth, LabelIsCurrent, Fresh, Unborn, Announced, worker, request, ghosts

LEMMA StepTruth == ASSUME Types, Types', Truth, [Next]_vars PROVE Truth'
<1>1. CASE LockExpires \/ (\E w \in Worker : Redeliver(w)) \/ UNCHANGED vars
  BY <1>1, QuietTruth DEF LockExpires, Redeliver, vars, ghosts
<1>2. Edited \subseteq Item
  BY ConstantAssumption
<1> QED BY <1>1, <1>2, CreateTruth, LoadTruth, EnrichTruth, DeleteTruth, RequestTruth,
           TakeTruth, ReadTruth, PassTruth, CommitTruth, FailsTruth, RowGoneTruth, CloseTruth,
           TellTruth, SweepBeginTruth, RetryBeginTruth, WorkerLostTruth DEF Next, Analyse, Beat

-----------------------------------------------------------------------------
(* The theorems.                                                             *)

THEOREM Invariance == Spec => []IInv
<1>1. IInv = (Types /\ Truth)
  BY DEF IInv, Truth
<1>2. IInv /\ [Next]_vars => IInv'
  BY <1>1, StepTypes, StepTruth DEF IInv, Truth
<1> QED BY <1>2, InitIInv, PTL DEF Spec

\* The fields keep their kinds of value; a beat task holds its lock and an idle worker
\* nothing.
THEOREM TypeCorrect == Spec => []TypeOK
<1>1. IInv => TypeOK
  BY DEF IInv, Types, ItemTypes, WorkerTypes, BusTypes, RequestTypes, Locked, Idle, TypeOK
<1> QED BY <1>1, Invariance, PTL

\* The label of an item is that of its text, whatever tasks and requests are under way
\* side by side: or, when an edit cleared it, somebody was analysing an older text or the
\* clear was not written, or an enrichment never came to its second commit.
THEOREM LabelsAreCurrent == Spec => []LabelIsCurrent
<1>1. IInv => LabelIsCurrent
  BY DEF IInv
<1> QED BY <1>1, Invariance, PTL

\* The result of an analysis is announced at most once, however often its message is
\* delivered: or two analyses of the item overlapped.
THEOREM NeverAnnouncedTwice == Spec => []AnnouncedOnce
<1>1. IInv => AnnouncedOnce
  <2> SUFFICES ASSUME IInv, NEW i \in Item PROVE told[i] <= 1 \/ raced[i]
    BY DEF AnnouncedOnce
  <2>1. CASE Exists(i)
    BY <2>1 DEF IInv, Announced, Alone
  <2>2. CASE ~Exists(i)
    BY <2>2 DEF IInv, Announced
  <2> QED BY <2>1, <2>2
<1> QED BY <1>1, Invariance, PTL
==============================================================================
