------------------------ MODULE AutomationRulesProofs ------------------------
(* Machine-checked proofs about AutomationRules, for any rules, customers,   *)
(* workers and cooldown.                                                     *)
EXTENDS AutomationRules, TLAPS

(* The inductive invariant.                                                  *)

WorkerTypes ==
  /\ pc \in [Worker -> {"idle", "load", "rule", "act", "key", "commit"}]
  /\ who \in [Worker -> Customer \cup {Nothing}]
  /\ given \in [Worker -> BOOLEAN]
  /\ todo \in [Worker -> SUBSET Rule]
  /\ cur \in [Worker -> Rule \cup {Nothing}]
  /\ seen \in [Worker -> [Rule -> Row \cup {Expired}]]
  /\ excused \in [Worker -> BOOLEAN]
RuleTypes ==
  /\ row \in [Rule -> Row \cup {None, Gone}]
  /\ logged \in [Rule -> 0..(Modulus - 1)]
  /\ crossed \in [Rule -> BOOLEAN]
KeyTypes ==
  /\ key \in [Rule -> [Customer -> 0..Cooldown]]
  /\ since \in [Rule -> [Customer -> 0..Cooldown]]
  /\ seedPc \in [Rule -> {"idle", "select", "seed"}]
  /\ seeds \in [Rule -> SUBSET Customer]
BoundTypes ==
  /\ high \in [Customer -> BOOLEAN]
  /\ runs \in [Rule -> [Customer -> 0..MaxQueue]]
  /\ ticks \in 0..MaxTicks
  /\ recomputes \in Nat /\ edits \in Nat /\ faults \in Nat
  /\ recomputes + edits + faults <= MaxEvents

\* A worker that evaluates has a customer, and from the passed check to the commit it
\* has one of its rules in hand.
InHand ==
  \A w \in Worker :
    /\ pc[w] # "idle" => who[w] \in Customer
    /\ pc[w] \in {"act", "key", "commit"} => cur[w] \in todo[w]
    /\ pc[w] \in {"act", "commit"} => seen[w][cur[w]] \in Row

Types == WorkerTypes /\ RuleTypes /\ KeyTypes /\ BoundTypes /\ InHand

\* HeldBack, without the workers that passed the check and have not acted: what these
\* know of the key, another one owes.
Owed(r, c) == \E w \in Worker : pc[w] = "key" /\ cur[w] = r /\ who[w] = c
HeldAt(r, c) ==
  since[r][c] < Cooldown =>
    key[r][c] + since[r][c] >= Cooldown \/ Owed(r, c) \/ Unseeded(r, c)
Held == \A r \in Rule, c \in Customer : HeldAt(r, c)

\* Evaluations of a rule for a customer that are in the gap together are excused, and
\* one that is about to act has waited for the cooldown or is excused.
Together ==
  \A v, w \in Worker :
    v # w /\ pc[v] \in {"act", "key"} /\ InGap(w, cur[v], who[v]) => excused[v] /\ excused[w]
Waited ==
  \A w \in Worker : pc[w] = "act" => since[cur[w]][who[w]] >= Cooldown \/ excused[w]

\* The count a session holds is the committed one, unless sessions crossed.
CountsAt(r) ==
  /\ row[r] = None => logged[r] = 0 /\ \A w \in Worker : seen[w][r] = Expired
  /\ row[r] \in Row /\ ~crossed[r] =>
       /\ row[r].count = logged[r]
       /\ \A w \in Worker : seen[w][r] \in Row => seen[w][r].count = logged[r]
Counts == \A r \in Rule : CountsAt(r)

IInv == Types /\ Held /\ Together /\ Waited /\ Counts

LEMMA Sentinels == None \notin Row /\ Gone \notin Row /\ Expired \notin Row
                   /\ None # Gone /\ None # Expired /\ Gone # Expired
  BY ConstantAssumption DEF Row

LEMMA Sizes == Cooldown \in Nat \ {0} /\ Modulus \in Nat \ {0} /\ MaxQueue \in Nat /\ MaxTicks \in Nat
                /\ MaxEvents \in Nat
  BY ConstantAssumption

\* What a cell of a table over rules and customers is set to.
LEMMA Update ==
  ASSUME NEW S, NEW f \in [Rule -> [Customer -> S]], NEW r \in Rule, NEW c \in Customer, NEW x \in S
  PROVE  /\ [f EXCEPT ![r][c] = x] \in [Rule -> [Customer -> S]]
         /\ [f EXCEPT ![r][c] = x][r][c] = x
         /\ \A s \in Rule, d \in Customer :
              s # r \/ d # c => [f EXCEPT ![r][c] = x][s][d] = f[s][d]
  OBVIOUS

LEMMA Plus1Range == ASSUME NEW n \in 0..(Modulus - 1) PROVE Plus1(n) \in 0..(Modulus - 1)
  BY ConstantAssumption DEF Plus1

LEMMA InitIInv == Init => IInv
<1> SUFFICES ASSUME Init PROVE IInv
  OBVIOUS
<1>1. WorkerTypes /\ InHand
  BY DEF Init, WorkerTypes, InHand, AllExpired
<1>2. RuleTypes
  <2>1. 0 \in 0..(Modulus - 1)
    BY ConstantAssumption
  <2>2. row \in [Rule -> Row \cup {None, Gone}]
    <3>1. \A m \in Initial :
            (IF m = None THEN None ELSE [mode |-> m, count |-> 0]) \in Row \cup {None, Gone}
      BY <2>1, ConstantAssumption DEF Row
    <3>2. row \in [Rule -> {IF m = None THEN None ELSE [mode |-> m, count |-> 0] : m \in Initial}]
      BY DEF Init
    <3> QED BY <3>1, <3>2
  <2> QED BY <2>1, <2>2 DEF Init, RuleTypes
<1>3. KeyTypes /\ BoundTypes
  BY ConstantAssumption DEF Init, KeyTypes, BoundTypes
<1>4. Held /\ Together /\ Waited
  BY ConstantAssumption DEF Init, Held, HeldAt, Together, Waited, InGap
<1>5. Counts
  <2> SUFFICES ASSUME NEW r \in Rule
               PROVE  /\ logged[r] = 0 /\ \A w \in Worker : seen[w][r] = Expired
                      /\ row[r] \in Row => row[r].count = 0
    BY Sentinels DEF Counts, CountsAt
  <2>1. row[r] \in {IF m = None THEN None ELSE [mode |-> m, count |-> 0] : m \in Initial}
    BY DEF Init
  <2>2. row[r] = None \/ \E m \in Initial : row[r] = [mode |-> m, count |-> 0]
    BY <2>1
  <2> QED BY <2>2, Sentinels DEF Init, AllExpired
<1> QED BY <1>1, <1>2, <1>3, <1>4, <1>5 DEF IInv, Types

-----------------------------------------------------------------------------
(* Types.                                                                    *)

LEMMA EndTypes ==
  ASSUME WorkerTypes, InHand, NEW w \in Worker, End(w)
  PROVE  WorkerTypes' /\ InHand'
  BY DEF WorkerTypes, InHand, End, AllExpired

LEMMA ForwardTypes ==
  ASSUME WorkerTypes, InHand, NEW w \in Worker, pc[w] # "idle", NEW r \in Rule,
         NEW rules \in [Rule -> Row \cup {Expired}], Forward(w, r, rules)
  PROVE  WorkerTypes' /\ InHand'
<1>1. CASE todo[w] = {r}
  BY <1>1, EndTypes DEF Forward
<1>2. CASE todo[w] # {r}
  <2>1. WorkerTypes'
    <3>1. todo' \in [Worker -> SUBSET Rule]
      BY <1>2 DEF Forward, WorkerTypes
    <3>2. /\ seen' \in [Worker -> [Rule -> Row \cup {Expired}]]
          /\ cur' \in [Worker -> Rule \cup {Nothing}]
      BY <1>2 DEF Forward, WorkerTypes
    <3>3. /\ pc' \in [Worker -> {"idle", "load", "rule", "act", "key", "commit"}]
          /\ who' = who /\ given' = given /\ excused' \in [Worker -> BOOLEAN]
      BY <1>2 DEF Forward, WorkerTypes
    <3> QED BY <3>1, <3>2, <3>3 DEF WorkerTypes
  <2>2. pc'[w] = "rule" /\ who' = who /\ \A v \in Worker \ {w} :
          pc'[v] = pc[v] /\ cur'[v] = cur[v] /\ todo'[v] = todo[v] /\ seen'[v] = seen[v]
    BY <1>2 DEF Forward, WorkerTypes
  <2>3. InHand'
    BY <2>2 DEF InHand
  <2> QED BY <2>1, <2>3
<1> QED BY <1>1, <1>2

LEMMA TickTypes == ASSUME Types, Tick PROVE Types'
<1>1. WorkerTypes' /\ RuleTypes' /\ InHand'
  BY DEF Types, WorkerTypes, RuleTypes, InHand, Tick, job, ghosts
<1>2. KeyTypes'
  <2>1. key' \in [Rule -> [Customer -> 0..Cooldown]]
    <3>1. \A n \in 0..Cooldown : (IF n = 0 THEN 0 ELSE n - 1) \in 0..Cooldown
      BY Sizes
    <3>2. key' = [r \in Rule |-> [c \in Customer |-> IF key[r][c] = 0 THEN 0 ELSE key[r][c] - 1]]
      BY DEF Tick
    <3>3. key \in [Rule -> [Customer -> 0..Cooldown]]
      BY DEF Types, KeyTypes
    <3> QED BY <3>1, <3>2, <3>3
  <2>2. since' \in [Rule -> [Customer -> 0..Cooldown]]
    <3>1. \A n \in 0..Cooldown : (IF n = Cooldown THEN Cooldown ELSE n + 1) \in 0..Cooldown
      BY Sizes
    <3>2. since' = [r \in Rule |-> [c \in Customer |->
                      IF since[r][c] = Cooldown THEN Cooldown ELSE since[r][c] + 1]]
      BY DEF Tick
    <3>3. since \in [Rule -> [Customer -> 0..Cooldown]]
      BY DEF Types, KeyTypes
    <3> QED BY <3>1, <3>2, <3>3
  <2> QED BY <2>1, <2>2 DEF Types, KeyTypes, Tick, request
<1>3. BoundTypes'
  BY ConstantAssumption DEF Types, BoundTypes, Tick
<1> QED BY <1>1, <1>2, <1>3 DEF Types

LEMMA EditTypes ==
  ASSUME Types, NEW r \in Rule, NEW new \in Row \cup {Gone}, Edit(r, new)
  PROVE  row' \in [Rule -> Row \cup {None, Gone}] /\ edits' \in Nat /\ recomputes + edits' + faults <= MaxEvents
  BY ConstantAssumption DEF Types, RuleTypes, BoundTypes, Edit, Bounded

LEMMA SwitchedRow ==
  ASSUME Types, NEW r \in Rule, row[r] = None \/ row[r] \in Row, NEW m \in Mode
  PROVE  [mode |-> m, count |-> IF row[r] = None THEN 0 ELSE row[r].count] \in Row
<1>1. 0 \in 0..(Modulus - 1)
  BY ConstantAssumption
<1> QED BY <1>1 DEF Row

LEMMA ActivateTypes == ASSUME Types, NEW r \in Rule, Activate(r) PROVE Types'
<1>1. row' \in [Rule -> Row \cup {None, Gone}] /\ edits' \in Nat /\ recomputes + edits' + faults <= MaxEvents
  BY SwitchedRow, EditTypes DEF Activate, Mode
<1>2. WorkerTypes' /\ InHand'
  BY DEF Types, WorkerTypes, InHand, Activate
<1>3. KeyTypes'
  BY ConstantAssumption DEF Types, KeyTypes, Activate
<1> QED BY <1>1, <1>2, <1>3 DEF Types, RuleTypes, BoundTypes, Activate, ghosts

LEMMA SetModeTypes ==
  ASSUME Types, NEW r \in Rule, (\E m \in Mode : SetMode(r, m)) \/ Delete(r) PROVE Types'
<1>1. row' \in [Rule -> Row \cup {None, Gone}] /\ edits' \in Nat /\ recomputes + edits' + faults <= MaxEvents
  BY SwitchedRow, EditTypes DEF SetMode, Delete
<1>2. UNCHANGED <<high, cooldown, runs, request, job, ticks, recomputes, faults, ghosts>>
  BY DEF SetMode, Delete
<1> QED
  BY <1>1, <1>2 DEF Types, WorkerTypes, InHand, KeyTypes, RuleTypes, BoundTypes, cooldown,
     request, job, ghosts

LEMMA FaultTypes == ASSUME BoundTypes, Fault PROVE faults' \in Nat /\ recomputes + edits + faults' <= MaxEvents
  BY ConstantAssumption DEF BoundTypes, Fault, Bounded

LEMMA VoidTypes ==
  ASSUME KeyTypes, NEW r \in Rule, NEW c \in Customer, Void(r, c)
  PROVE  since' \in [Rule -> [Customer -> 0..Cooldown]]
  BY Sizes, Update DEF KeyTypes, Void

LEMMA SeedTypes ==
  ASSUME Types, NEW r \in Rule, SeedLoad(r) \/ SeedEnd(r) \/ \E c \in Customer : SeedOne(r, c)
  PROVE  Types'
<1>1. WorkerTypes' /\ InHand' /\ RuleTypes'
  BY DEF Types, WorkerTypes, InHand, RuleTypes, SeedLoad, SeedEnd, SeedOne, job, ghosts
<1>2. CASE SeedLoad(r)
  BY <1>1, <1>2, Sizes DEF Types, KeyTypes, BoundTypes, SeedLoad, bounds
<1>3. CASE SeedEnd(r)
  <2>1. KeyTypes'
    <3>1. since' \in [Rule -> [Customer -> 0..Cooldown]]
      <4>1. Cooldown \in 0..Cooldown
        BY Sizes
      <4> DEFINE f == [c \in Customer |-> IF Unseeded(r, c) THEN Cooldown ELSE since[r][c]]
      <4>2. since' = since \/ since' = [since EXCEPT ![r] = f]
        BY <1>3 DEF SeedEnd
      <4>3. since \in [Rule -> [Customer -> 0..Cooldown]]
        BY DEF Types, KeyTypes
      <4>4. f \in [Customer -> 0..Cooldown]
        BY <4>1, <4>3
      <4> HIDE DEF f
      <4> QED BY <4>2, <4>3, <4>4
    <3> QED BY <1>3, <3>1 DEF Types, KeyTypes, SeedEnd
  <2>2. BoundTypes'
    BY <1>3, FaultTypes DEF Types, BoundTypes, SeedEnd
  <2> QED BY <1>1, <2>1, <2>2 DEF Types
<1>4. ASSUME NEW c \in Customer, SeedOne(r, c) PROVE Types'
  <2>1. KeyTypes'
    <3>1. Cooldown \in 0..Cooldown
      BY Sizes
    <3>2. key' \in [Rule -> [Customer -> 0..Cooldown]]
      <4>1. key' = key \/ key' = [key EXCEPT ![r][c] = Cooldown]
        BY <1>4 DEF SeedOne
      <4>2. key \in [Rule -> [Customer -> 0..Cooldown]]
        BY DEF Types, KeyTypes
      <4> QED BY <3>1, <4>1, <4>2, Update
    <3>3. since' \in [Rule -> [Customer -> 0..Cooldown]]
      BY <1>4, VoidTypes DEF Types, KeyTypes, SeedOne
    <3> QED BY <1>4, <3>2, <3>3 DEF Types, KeyTypes, SeedOne
  <2>2. BoundTypes'
    BY <1>4, FaultTypes DEF Types, BoundTypes, SeedOne
  <2> QED BY <1>1, <2>1, <2>2 DEF Types
<1> QED BY <1>2, <1>3, <1>4

LEMMA RecomputeTypes ==
  ASSUME Types, NEW w \in Worker, NEW c \in Customer, NEW h \in BOOLEAN, Recompute(w, c, h)
  PROVE  Types'
<1>1. WorkerTypes' /\ InHand'
  BY DEF Types, WorkerTypes, InHand, Recompute
<1>2. BoundTypes'
  BY ConstantAssumption DEF Types, BoundTypes, Recompute, Bounded
<1> QED BY <1>1, <1>2 DEF Types, RuleTypes, KeyTypes, Recompute, cooldown, request, ghosts

LEMMA LoadRulesTypes == ASSUME Types, NEW w \in Worker, LoadRules(w) PROVE Types'
<1>1. WorkerTypes' /\ InHand'
  <2> DEFINE on == {r \in Rule : row[r] \in Row /\ row[r].mode # "off"}
  <2>1. CASE on = {}
    BY <2>1, EndTypes DEF Types, LoadRules
  <2>2. CASE on # {}
    <3>1. /\ todo' = [todo EXCEPT ![w] = on]
          /\ seen' = [seen EXCEPT ![w] = [r \in Rule |-> IF r \in on THEN row[r] ELSE Expired]]
          /\ pc' = [pc EXCEPT ![w] = "rule"] /\ UNCHANGED <<who, given, cur, excused>>
      BY <2>2 DEF LoadRules
    <3>2. on \subseteq Rule /\ \A r \in on : row[r] \in Row
      OBVIOUS
    <3>3. pc[w] = "load"
      BY DEF LoadRules
    <3> HIDE DEF on
    <3>4. WorkerTypes'
      BY <3>1, <3>2 DEF Types, WorkerTypes
    <3>5. InHand'
      BY <3>1, <3>3 DEF Types, WorkerTypes, InHand
    <3> QED BY <3>4, <3>5
  <2> QED BY <2>1, <2>2
<1> QED BY <1>1 DEF Types, RuleTypes, KeyTypes, BoundTypes, LoadRules, cooldown, request, ghosts, bounds

LEMMA TakeRunTypes ==
  ASSUME Types, NEW w \in Worker, NEW r \in Rule, NEW c \in Customer, TakeRun(w, r, c)
  PROVE  Types'
<1>1. Names[r] \in Rule \cup {Nothing}
  BY ConstantAssumption
<1>2. WorkerTypes' /\ InHand'
  <2>1. CASE UNCHANGED job
    BY <2>1 DEF Types, WorkerTypes, InHand, job
  <2>2. CASE ~UNCHANGED job
    <3> DEFINE t == Names[r]
    <3>1. /\ t # Nothing /\ row[t] \in Row /\ pc[w] = "idle"
          /\ pc' = [pc EXCEPT ![w] = "rule"]
          /\ who' = [who EXCEPT ![w] = c] /\ given' = [given EXCEPT ![w] = high[c]]
          /\ todo' = [todo EXCEPT ![w] = {t}]
          /\ seen' = [seen EXCEPT ![w][t] = row[t]]
          /\ UNCHANGED <<cur, excused>>
      BY <2>2 DEF TakeRun
    <3>2. t \in Rule /\ high[c] \in BOOLEAN
      BY <1>1, <3>1 DEF Types, BoundTypes
    <3> HIDE DEF t
    <3>3. seen' \in [Worker -> [Rule -> Row \cup {Expired}]]
      BY <3>1, <3>2 DEF Types, WorkerTypes
    <3>4. given' \in [Worker -> BOOLEAN]
      BY <3>1, <3>2, Zenon DEF Types, WorkerTypes
    <3>5. WorkerTypes'
      BY <3>1, <3>2, <3>3, <3>4 DEF Types, WorkerTypes
    <3>6. InHand'
      BY <3>1 DEF Types, WorkerTypes, InHand
    <3> QED BY <3>5, <3>6
  <2> QED BY <2>1, <2>2
<1>3. BoundTypes'
  BY ConstantAssumption DEF Types, BoundTypes, TakeRun, bounds
<1> QED BY <1>2, <1>3 DEF Types, RuleTypes, KeyTypes, TakeRun, cooldown, request, ghosts

\* What a session reads is a row, or nothing.
LEMMA SeenType ==
  ASSUME Types, NEW w \in Worker, NEW r \in Rule PROVE Seen(w, r) \in Row \cup {None, Gone}
  BY DEF Types, WorkerTypes, RuleTypes, Seen

LEMMA SkipTypes == ASSUME Types, NEW w \in Worker, NEW r \in Rule, Skip(w, r) PROVE Types'
<1>1. WorkerTypes' /\ InHand'
  <2>1. [seen[w] EXCEPT ![r] = Expired] \in [Rule -> Row \cup {Expired}]
    BY DEF Types, WorkerTypes
  <2> QED BY <2>1, ForwardTypes DEF Types, Skip
<1> QED BY <1>1 DEF Types, RuleTypes, KeyTypes, BoundTypes, Skip, cooldown, request, ghosts, bounds

LEMMA CheckTypes == ASSUME Types, NEW w \in Worker, NEW r \in Rule, Check(w, r) PROVE Types'
<1>1. WorkerTypes' /\ InHand'
  BY DEF Types, WorkerTypes, InHand, Check
<1>2. who[w] \in Customer
  BY DEF Types, InHand, Check
<1>3. KeyTypes'
  BY <1>2, VoidTypes DEF Types, KeyTypes, Check, request
<1>4. BoundTypes'
  BY FaultTypes DEF Types, BoundTypes, Check
<1> QED BY <1>1, <1>3, <1>4 DEF Types, RuleTypes, Check, ghosts

LEMMA RuleGoneTypes == ASSUME Types, NEW w \in Worker, NEW r \in Rule, RuleGone(w, r) PROVE Types'
<1>1. WorkerTypes' /\ InHand'
  BY EndTypes DEF Types, RuleGone
<1>2. who[w] \in Customer
  BY DEF Types, InHand, RuleGone
<1>3. KeyTypes'
  BY <1>2, VoidTypes DEF Types, KeyTypes, RuleGone, request
<1> QED BY <1>1, <1>3 DEF Types, RuleTypes, BoundTypes, RuleGone, bounds, ghosts

\* The rule and the customer a worker between the check and the commit has in hand.
LEMMA Hand ==
  ASSUME Types, NEW w \in Worker, pc[w] \in {"act", "key", "commit"}
  PROVE  cur[w] \in Rule /\ cur[w] \in todo[w] /\ who[w] \in Customer
  BY DEF Types, WorkerTypes, InHand

LEMMA ActTypes == ASSUME Types, NEW w \in Worker, Act(w) PROVE Types'
<1>1. cur[w] \in Rule /\ cur[w] \in todo[w] /\ who[w] \in Customer
  BY Hand DEF Act
<1>2. WorkerTypes' /\ InHand'
  BY DEF Types, WorkerTypes, InHand, Act, AllExpired
<1>3. KeyTypes'
  BY <1>1, Sizes DEF Types, KeyTypes, Act, request
<1>4. runs' \in [Rule -> [Customer -> 0..MaxQueue]]
  <2>1. CASE runs' = runs
    BY <2>1 DEF Types, BoundTypes
  <2>2. CASE runs' # runs
    <3> DEFINE n == runs[cur[w]][who[w]]
    <3>1. n < MaxQueue /\ runs' = [runs EXCEPT ![cur[w]][who[w]] = n + 1]
      BY <1>1, <2>2 DEF Act, Types, BoundTypes
    <3>2. n + 1 \in 0..MaxQueue
      BY <1>1, <3>1, Sizes DEF Types, BoundTypes
    <3> HIDE DEF n
    <3> QED BY <1>1, <3>1, <3>2, Update DEF Types, BoundTypes
  <2> QED BY <2>1, <2>2
<1>5. BoundTypes'
  BY <1>4, FaultTypes DEF Types, BoundTypes, Act
<1> QED BY <1>2, <1>3, <1>5 DEF Types, RuleTypes, Act, ghosts

LEMMA SetKeyTypes == ASSUME Types, NEW w \in Worker, SetKey(w) PROVE Types'
<1>1. cur[w] \in Rule /\ cur[w] \in todo[w] /\ who[w] \in Customer
  BY Hand DEF SetKey
<1>2. WorkerTypes' /\ InHand'
  BY <1>1 DEF Types, WorkerTypes, InHand, SetKey
<1>3. KeyTypes'
  <2>1. Cooldown \in 0..Cooldown
    BY Sizes
  <2>2. key' \in [Rule -> [Customer -> 0..Cooldown]]
    <3> DEFINE r == cur[w]
    <3> DEFINE c == who[w]
    <3>1. key' = key \/ key' = [key EXCEPT ![r][c] = Cooldown]
      BY DEF SetKey
    <3>2. key \in [Rule -> [Customer -> 0..Cooldown]]
      BY DEF Types, KeyTypes
    <3>3. r \in Rule /\ c \in Customer
      BY <1>1
    <3> HIDE DEF r, c
    <3> QED BY <2>1, <3>1, <3>2, <3>3, Update
  <2>3. since' \in [Rule -> [Customer -> 0..Cooldown]]
    BY <1>1, VoidTypes DEF Types, KeyTypes, SetKey
  <2> QED BY <2>2, <2>3 DEF Types, KeyTypes, SetKey, request
<1>4. BoundTypes'
  BY FaultTypes DEF Types, BoundTypes, SetKey
<1> QED BY <1>2, <1>3, <1>4 DEF Types, RuleTypes, SetKey, ghosts

LEMMA CommitTypes == ASSUME Types, NEW w \in Worker, Commit(w) PROVE Types'
<1>1. cur[w] \in Rule /\ seen[w][cur[w]] \in Row
  BY Hand DEF Types, InHand, Commit
<1>2. WorkerTypes' /\ InHand'
  <2>1. AllExpired \in [Rule -> Row \cup {Expired}]
    BY DEF AllExpired
  <2> QED BY <1>1, <2>1, ForwardTypes DEF Types, Commit
<1>3. RuleTypes'
  <2>1. seen[w][cur[w]].count \in 0..(Modulus - 1) /\ logged[cur[w]] \in 0..(Modulus - 1)
    BY <1>1 DEF Types, RuleTypes, Row
  <2>2. /\ Plus1(seen[w][cur[w]].count) \in 0..(Modulus - 1)
        /\ Plus1(logged[cur[w]]) \in 0..(Modulus - 1)
    BY <2>1, Plus1Range
  <2>3. row' \in [Rule -> Row \cup {None, Gone}]
    BY <1>1, <2>2 DEF Types, RuleTypes, Commit, Row
  <2>4. crossed' \in [Rule -> BOOLEAN]
    BY <1>1, Zenon DEF Types, RuleTypes, Commit
  <2> QED BY <1>1, <2>2, <2>3, <2>4 DEF Types, RuleTypes, Commit
<1> QED BY <1>2, <1>3 DEF Types, KeyTypes, BoundTypes, Commit, cooldown, request, bounds

LEMMA LossTypes == ASSUME Types, NEW w \in Worker, CommitRefused(w) \/ WorkerLost(w) PROVE Types'
<1>1. WorkerTypes' /\ InHand'
  BY EndTypes DEF Types, CommitRefused, WorkerLost
<1>2. KeyTypes'
  BY Hand, VoidTypes DEF Types, KeyTypes, CommitRefused, WorkerLost, request, cooldown
<1>3. BoundTypes'
  BY FaultTypes DEF Types, BoundTypes, CommitRefused, WorkerLost
<1> QED BY <1>1, <1>2, <1>3 DEF Types, RuleTypes, CommitRefused, WorkerLost, ghosts

LEMMA StepTypes == ASSUME Types, [Next]_vars PROVE Types'
<1>1. ASSUME NEW w \in Worker, Work(w) \/ WorkerLost(w) PROVE Types'
  BY <1>1, LoadRulesTypes, ActTypes, SetKeyTypes, CommitTypes, LossTypes, SkipTypes, CheckTypes,
     RuleGoneTypes, TakeRunTypes DEF Work
<1>2. CASE \E r \in Rule : \/ Activate(r) \/ Delete(r) \/ SeedLoad(r) \/ SeedEnd(r)
                           \/ \E m \in Mode : SetMode(r, m)
                           \/ \E c \in Customer : SeedOne(r, c)
  BY <1>2, ActivateTypes, SetModeTypes, SeedTypes
<1>3. CASE Tick \/ \E w \in Worker, c \in Customer, h \in BOOLEAN : Recompute(w, c, h)
  BY <1>3, TickTypes, RecomputeTypes
<1>4. CASE UNCHANGED vars
  BY <1>4 DEF vars, cooldown, request, job, bounds, ghosts, Types, WorkerTypes, RuleTypes, KeyTypes,
     BoundTypes, InHand
<1> QED BY <1>1, <1>2, <1>3, <1>4 DEF Next

-----------------------------------------------------------------------------
(* The key outlives the cooldown.                                            *)

\* A step of a worker leaves what the others have in hand alone.
Apart(w) ==
  \A v \in Worker \ {w} : /\ pc'[v] = pc[v] /\ cur'[v] = cur[v] /\ who'[v] = who[v]
                          /\ seen'[v] = seen[v]

LEMMA EndApart ==
  ASSUME Types, NEW w \in Worker, End(w)
  PROVE  Apart(w) /\ pc'[w] = "idle" /\ \A v \in Worker \ {w} : excused'[v] = excused[v]
  BY DEF Types, WorkerTypes, End, Apart

LEMMA ForwardApart ==
  ASSUME Types, NEW w \in Worker, NEW r \in Rule, NEW rules, Forward(w, r, rules)
  PROVE  Apart(w) /\ pc'[w] \in {"idle", "rule"} /\ \A v \in Worker \ {w} : excused'[v] = excused[v]
  BY DEF Types, WorkerTypes, End, Forward, Apart

LEMMA QuietApart ==
  ASSUME Types, NEW w \in Worker,
         \/ LoadRules(w) \/ Commit(w) \/ CommitRefused(w)
         \/ \E r \in Rule : Skip(w, r)
         \/ \E r \in Rule, c \in Customer : TakeRun(w, r, c)
         \/ \E c \in Customer, h \in BOOLEAN : Recompute(w, c, h)
  PROVE  /\ Apart(w) /\ pc[w] \notin {"act", "key"} /\ pc'[w] \notin {"act", "key"}
         /\ \A v \in Worker \ {w} : excused'[v] = excused[v]
         /\ UNCHANGED <<key, since, seedPc, seeds>>
<1>1. CASE LoadRules(w)
  BY <1>1 DEF Types, WorkerTypes, End, Apart, LoadRules, cooldown, request
<1>2. CASE Commit(w)
  BY <1>2, Hand, ForwardApart DEF Commit, cooldown, request
<1>3. CASE CommitRefused(w)
  <2>1. End(w) /\ pc[w] = "commit" /\ UNCHANGED <<key, since, seedPc, seeds>>
    BY <1>3 DEF CommitRefused, cooldown, request
  <2> QED BY <2>1 DEF Types, WorkerTypes, End, Apart
<1>4. CASE \E r \in Rule : Skip(w, r)
  BY <1>4, ForwardApart DEF Skip, cooldown, request
<1>5. ASSUME NEW r \in Rule, NEW c \in Customer, TakeRun(w, r, c)
      PROVE  /\ Apart(w) /\ pc[w] \notin {"act", "key"} /\ pc'[w] \notin {"act", "key"}
             /\ \A v \in Worker \ {w} : excused'[v] = excused[v]
             /\ UNCHANGED <<key, since, seedPc, seeds>>
  BY <1>5 DEF TakeRun, Types, WorkerTypes, Apart, job, cooldown, request
<1>6. ASSUME NEW c \in Customer, NEW h \in BOOLEAN, Recompute(w, c, h)
      PROVE  /\ Apart(w) /\ pc[w] \notin {"act", "key"} /\ pc'[w] \notin {"act", "key"}
             /\ \A v \in Worker \ {w} : excused'[v] = excused[v]
             /\ UNCHANGED <<key, since, seedPc, seeds>>
  BY <1>6 DEF Recompute, Types, WorkerTypes, Apart, cooldown, request
<1> QED BY <1>1, <1>2, <1>3, <1>4, <1>5, <1>6

\* A step that concerns one rule and customer at most.
LEMMA HeldElsewhere ==
  ASSUME Types, Held, NEW w \in Worker, Apart(w), UNCHANGED <<seedPc, seeds>>,
         NEW r \in Rule, NEW c \in Customer, HeldAt(r, c)',
         pc[w] = "key" => cur[w] = r /\ who[w] = c,
         \A s \in Rule, d \in Customer :
           s # r \/ d # c => key'[s][d] = key[s][d] /\ since'[s][d] = since[s][d]
  PROVE  Held'
<1> SUFFICES ASSUME NEW s \in Rule, NEW d \in Customer, s # r \/ d # c PROVE HeldAt(s, d)'
  BY DEF Held
<1>1. key'[s][d] = key[s][d] /\ since'[s][d] = since[s][d]
  OBVIOUS
<1>2. Owed(s, d) => Owed(s, d)'
  BY DEF Owed, Apart
<1>3. Unseeded(s, d) => Unseeded(s, d)'
  BY DEF Unseeded
<1> QED BY <1>1, <1>2, <1>3 DEF Held, HeldAt

\* Nobody is owed anything, or the key covers all of it.
LEMMA Settled ==
  ASSUME Types', NEW r \in Rule, NEW c \in Customer, since'[r][c] = Cooldown \/ key'[r][c] = Cooldown
  PROVE  HeldAt(r, c)'
<1>1. since'[r][c] \in 0..Cooldown /\ key'[r][c] \in 0..Cooldown
  BY DEF Types, KeyTypes
<1> QED BY <1>1, Sizes DEF HeldAt

LEMMA VoidCell ==
  ASSUME Types, NEW r \in Rule, NEW c \in Customer, Void(r, c)
  PROVE  /\ since'[r][c] = Cooldown
         /\ \A s \in Rule, d \in Customer : s # r \/ d # c => since'[s][d] = since[s][d]
<1>1. since \in [Rule -> [Customer -> 0..Cooldown]] /\ Cooldown \in 0..Cooldown
  BY Sizes DEF Types, KeyTypes
<1> QED BY <1>1, Update DEF Void

LEMMA HeldQuiet ==
  ASSUME Types, Held, NEW w \in Worker, Apart(w), pc[w] # "key",
         UNCHANGED <<key, since, seedPc, seeds>>
  PROVE  Held'
  BY DEF Held, HeldAt, Owed, Unseeded, Apart

LEMMA CheckHeld == ASSUME Types, Held, Types', NEW w \in Worker, NEW r \in Rule, Check(w, r) PROVE Held'
<1>1. Apart(w) /\ pc[w] = "rule" /\ who[w] \in Customer /\ UNCHANGED <<key, seedPc, seeds>>
  BY DEF Types, WorkerTypes, InHand, Check, Apart, request
<1>2. CASE UNCHANGED since
  BY <1>1, <1>2, HeldQuiet
<1>3. ASSUME NEW c \in Customer, c = who[w], Void(r, c) PROVE Held'
  <2>1. HeldAt(r, c)'
    BY <1>3, VoidCell, Settled
  <2> QED BY <1>1, <1>3, <2>1, VoidCell, HeldElsewhere
<1> QED BY <1>1, <1>2, <1>3 DEF Check

LEMMA LeaveHeld ==
  ASSUME Types, Held, Types', NEW w \in Worker, (\E r \in Rule : RuleGone(w, r)) \/ WorkerLost(w)
  PROVE  Held'
<1>1. Apart(w) /\ UNCHANGED <<key, seedPc, seeds>>
  BY EndApart DEF RuleGone, WorkerLost, request
<1>2. CASE pc[w] # "key"
  BY <1>1, <1>2, HeldQuiet DEF RuleGone, WorkerLost
<1>3. CASE pc[w] = "key"
  <2>1. PICK r \in Rule, c \in Customer : r = cur[w] /\ c = who[w]
    BY <1>3, Hand
  <2>2. Void(r, c)
    BY <1>3, <2>1 DEF RuleGone, WorkerLost
  <2>3. HeldAt(r, c)'
    BY <2>2, VoidCell, Settled
  <2> QED BY <1>1, <2>1, <2>2, <2>3, VoidCell, HeldElsewhere
<1> QED BY <1>2, <1>3

LEMMA ActHeld == ASSUME Types, Held, NEW w \in Worker, Act(w) PROVE Held'
<1>1. /\ Apart(w) /\ pc[w] = "act" /\ UNCHANGED <<key, seedPc, seeds>>
      /\ pc'[w] = "key" /\ cur'[w] = cur[w] /\ who'[w] = who[w]
      /\ since' = [since EXCEPT ![cur[w]][who[w]] = 0]
  BY DEF Types, WorkerTypes, Act, Apart, request
<1>2. PICK r \in Rule, c \in Customer : r = cur[w] /\ c = who[w]
  BY <1>1, Hand
<1>3. HeldAt(r, c)'
  BY <1>1, <1>2 DEF HeldAt, Owed
<1>4. \A s \in Rule, d \in Customer : s # r \/ d # c => since'[s][d] = since[s][d]
  <2>1. since \in [Rule -> [Customer -> 0..Cooldown]] /\ 0 \in 0..Cooldown
    BY Sizes DEF Types, KeyTypes
  <2> QED BY <1>1, <1>2, <2>1, Update
<1> QED BY <1>1, <1>2, <1>3, <1>4, HeldElsewhere

LEMMA SetKeyHeld == ASSUME Types, Held, Types', NEW w \in Worker, SetKey(w) PROVE Held'
<1>1. Apart(w) /\ pc[w] = "key" /\ UNCHANGED <<seedPc, seeds>>
  BY DEF Types, WorkerTypes, SetKey, Apart, request
<1>2. PICK r \in Rule, c \in Customer : r = cur[w] /\ c = who[w]
  BY <1>1, Hand
<1>3. CASE key' = [key EXCEPT ![r][c] = Cooldown] /\ UNCHANGED since
  <2>1. /\ key'[r][c] = Cooldown
        /\ \A s \in Rule, d \in Customer : s # r \/ d # c => key'[s][d] = key[s][d]
    <3>1. key \in [Rule -> [Customer -> 0..Cooldown]] /\ Cooldown \in 0..Cooldown
      BY Sizes DEF Types, KeyTypes
    <3> QED BY <1>3, <3>1, Update
  <2>2. HeldAt(r, c)'
    BY <2>1, Settled
  <2> QED BY <1>1, <1>2, <1>3, <2>1, <2>2, HeldElsewhere
<1>4. CASE Void(r, c) /\ UNCHANGED key
  <2>1. HeldAt(r, c)'
    BY <1>4, VoidCell, Settled
  <2> QED BY <1>1, <1>2, <1>4, <2>1, VoidCell, HeldElsewhere
<1> QED BY <1>2, <1>3, <1>4 DEF SetKey

LEMMA TickHeld == ASSUME Types, Held, Tick PROVE Held'
<1> SUFFICES ASSUME NEW r \in Rule, NEW c \in Customer, since'[r][c] < Cooldown
             PROVE  key'[r][c] + since'[r][c] >= Cooldown \/ Owed(r, c)' \/ Unseeded(r, c)'
  BY DEF Held, HeldAt
<1>1. /\ key'[r][c] = IF key[r][c] = 0 THEN 0 ELSE key[r][c] - 1
      /\ since'[r][c] = IF since[r][c] = Cooldown THEN Cooldown ELSE since[r][c] + 1
  BY DEF Tick
<1>2. key[r][c] \in 0..Cooldown /\ since[r][c] \in 0..Cooldown /\ Cooldown \in Nat
  BY Sizes DEF Types, KeyTypes
<1>3. Owed(r, c)' = Owed(r, c) /\ Unseeded(r, c)' = Unseeded(r, c)
  BY DEF Tick, Owed, Unseeded, job, request
<1>4. key[r][c] + since[r][c] >= Cooldown \/ Owed(r, c) \/ Unseeded(r, c)
  BY <1>1, <1>2 DEF Held, HeldAt
<1> QED BY <1>1, <1>2, <1>3, <1>4

\* A request says nothing about the worker: what one owes, it goes on owing.
LEMMA RouteHeld ==
  ASSUME Types, Held, UNCHANGED <<pc, cur, who>>, NEW r \in Rule, NEW c \in Customer,
         \/ Unseeded(r, c)'
         \/ /\ key'[r][c] = key[r][c] /\ since'[r][c] = since[r][c]
            /\ Unseeded(r, c) => Unseeded(r, c)'
  PROVE  HeldAt(r, c)'
  BY DEF Held, HeldAt, Owed

LEMMA ActivateHeld == ASSUME Types, Held, NEW a \in Rule, Activate(a) PROVE Held'
<1> SUFFICES ASSUME NEW r \in Rule, NEW c \in Customer PROVE HeldAt(r, c)'
  BY DEF Held
<1>1. UNCHANGED <<pc, cur, who, key, seeds>>
  BY DEF Activate
<1>2. CASE r = a
  BY <1>1, <1>2, RouteHeld DEF Activate, Types, KeyTypes, Unseeded
<1>3. CASE r # a
  BY <1>1, <1>3, RouteHeld DEF Activate, Types, KeyTypes, Unseeded
<1> QED BY <1>2, <1>3

LEMMA SeedLoadHeld == ASSUME Types, Held, Types', NEW a \in Rule, SeedLoad(a) PROVE Held'
<1> SUFFICES ASSUME NEW r \in Rule, NEW c \in Customer PROVE HeldAt(r, c)'
  BY DEF Held
<1>1. UNCHANGED <<pc, cur, who, key>>
  BY DEF SeedLoad, job
<1>2. CASE r # a
  BY <1>1, <1>2, RouteHeld DEF SeedLoad, Types, KeyTypes, Unseeded
<1>3. CASE r = a /\ high[c]
  BY <1>1, <1>3, RouteHeld DEF SeedLoad, Types, KeyTypes, Unseeded
<1>4. CASE r = a /\ ~high[c]
  <2>1. since'[r][c] = Cooldown
    BY <1>4 DEF SeedLoad, Types, KeyTypes
  <2> QED BY <2>1, Settled
<1> QED BY <1>2, <1>3, <1>4

LEMMA SeedOneHeld ==
  ASSUME Types, Held, Types', NEW a \in Rule, NEW b \in Customer, SeedOne(a, b) PROVE Held'
<1> SUFFICES ASSUME NEW r \in Rule, NEW c \in Customer PROVE HeldAt(r, c)'
  BY DEF Held
<1>1. UNCHANGED <<pc, cur, who, seedPc>> /\ seeds' = [seeds EXCEPT ![a] = @ \ {b}]
  BY DEF SeedOne, job
<1>2. /\ r = a /\ c = b => since'[r][c] = Cooldown \/ key'[r][c] = Cooldown
      /\ r # a \/ c # b => key'[r][c] = key[r][c] /\ since'[r][c] = since[r][c]
  <2>1. key \in [Rule -> [Customer -> 0..Cooldown]] /\ Cooldown \in 0..Cooldown
    BY Sizes DEF Types, KeyTypes
  <2>2. CASE key' = [key EXCEPT ![a][b] = Cooldown] /\ UNCHANGED since
    BY <2>1, <2>2, Update
  <2>3. CASE Void(a, b) /\ UNCHANGED key
    BY <2>3, VoidCell
  <2> QED BY <2>2, <2>3 DEF SeedOne
<1>3. CASE r = a /\ c = b
  BY <1>2, <1>3, Settled
<1>4. CASE r # a \/ c # b
  <2>1. Unseeded(r, c) => Unseeded(r, c)'
    BY <1>1, <1>4 DEF Unseeded, Types, KeyTypes
  <2> QED BY <1>1, <1>2, <1>4, <2>1, RouteHeld
<1> QED BY <1>3, <1>4

LEMMA SeedEndHeld == ASSUME Types, Held, Types', NEW a \in Rule, SeedEnd(a) PROVE Held'
<1> SUFFICES ASSUME NEW r \in Rule, NEW c \in Customer PROVE HeldAt(r, c)'
  BY DEF Held
<1>1. /\ UNCHANGED <<pc, cur, who, key>>
      /\ r # a => seedPc'[r] = seedPc[r] /\ seeds'[r] = seeds[r]
  BY DEF SeedEnd, job, Types, KeyTypes
<1>2. CASE r = a /\ Unseeded(r, c)
  <2>1. since'[r][c] = Cooldown
    BY <1>2 DEF SeedEnd, Types, KeyTypes, Unseeded
  <2> QED BY <2>1, Settled
<1>3. CASE r # a \/ ~Unseeded(r, c)
  <2>1. since'[r][c] = since[r][c]
    BY <1>3 DEF SeedEnd, Types, KeyTypes
  <2>2. Unseeded(r, c) => Unseeded(r, c)'
    BY <1>1, <1>3 DEF Unseeded
  <2> QED BY <1>1, <2>1, <2>2, RouteHeld
<1> QED BY <1>2, <1>3

LEMMA StepHeld == ASSUME Types, Held, [Next]_vars PROVE Held'
<1>1. Types'
  BY StepTypes
<1>2. ASSUME NEW w \in Worker, Work(w) \/ WorkerLost(w) \/ \E c \in Customer, h \in BOOLEAN : Recompute(w, c, h)
      PROVE  Held'
  <2>1. CASE (\E r \in Rule : Check(w, r) \/ RuleGone(w, r)) \/ WorkerLost(w) \/ Act(w) \/ SetKey(w)
    BY <1>1, <2>1, CheckHeld, LeaveHeld, ActHeld, SetKeyHeld
  <2>2. CASE ~((\E r \in Rule : Check(w, r) \/ RuleGone(w, r)) \/ WorkerLost(w) \/ Act(w) \/ SetKey(w))
    BY <1>2, <2>2, QuietApart, HeldQuiet DEF Work
  <2> QED BY <2>1, <2>2
<1>3. CASE \E r \in Rule : \/ Activate(r) \/ SeedLoad(r) \/ SeedEnd(r)
                           \/ \E c \in Customer : SeedOne(r, c)
  BY <1>1, <1>3, ActivateHeld, SeedLoadHeld, SeedEndHeld, SeedOneHeld
<1>4. CASE Tick
  BY <1>4, TickHeld
<1>5. CASE (\E r \in Rule : Delete(r) \/ \E m \in Mode : SetMode(r, m)) \/ UNCHANGED vars
  <2>1. UNCHANGED <<cooldown, request, job>>
    BY <1>5 DEF Delete, SetMode, vars
  <2> QED BY <2>1 DEF cooldown, request, job, Held, HeldAt, Owed, Unseeded
<1> QED BY <1>2, <1>3, <1>4, <1>5 DEF Next

-----------------------------------------------------------------------------
(* Overlapping evaluations.                                                  *)

\* A worker that is in the gap was there already, for the same rule and customer, and
\* has not lost its excuse.
Stayed(v) ==
  /\ pc'[v] \in {"act", "key"} => /\ pc[v] \in {"act", "key"}
                                  /\ cur'[v] = cur[v] /\ who'[v] = who[v]
                                  /\ excused[v] => excused'[v]
  /\ pc'[v] = "act" => pc[v] = "act"

\* So it is in every step but a passed check.
LEMMA StepStayed ==
  ASSUME Types, [Next]_vars, ~\E w \in Worker, r \in Rule : Check(w, r), NEW v \in Worker
  PROVE  Stayed(v)
<1>1. ASSUME NEW w \in Worker, Work(w) \/ WorkerLost(w) \/ \E c \in Customer, h \in BOOLEAN : Recompute(w, c, h)
      PROVE  Stayed(v)
  <2>1. CASE Act(w) \/ SetKey(w)
    BY <2>1 DEF Act, SetKey, Types, WorkerTypes, Stayed
  <2>2. CASE (\E r \in Rule : RuleGone(w, r)) \/ WorkerLost(w)
    <3>1. End(w)
      BY <2>2 DEF RuleGone, WorkerLost
    <3> QED BY <3>1, EndApart DEF Apart, Stayed
  <2>3. CASE ~(Act(w) \/ SetKey(w) \/ WorkerLost(w) \/ \E r \in Rule : RuleGone(w, r))
    <3>1. /\ Apart(w) /\ pc'[w] \notin {"act", "key"}
          /\ \A u \in Worker \ {w} : excused'[u] = excused[u]
      BY <1>1, <2>3, QuietApart DEF Work
    <3> QED BY <3>1 DEF Apart, Stayed
  <2> QED BY <2>1, <2>2, <2>3
<1>2. CASE \E r \in Rule : Activate(r)
  BY <1>2 DEF Activate, Types, WorkerTypes, Stayed
<1>3. CASE UNCHANGED job
  BY <1>3 DEF job, Stayed
<1>4. (\E r \in Rule : \/ Delete(r) \/ SeedLoad(r) \/ SeedEnd(r)
                       \/ \E m \in Mode : SetMode(r, m)
                       \/ \E c \in Customer : SeedOne(r, c)) \/ Tick \/ UNCHANGED vars => UNCHANGED job
  BY DEF Delete, SeedLoad, SeedEnd, SetMode, SeedOne, Tick, vars
<1> QED BY <1>1, <1>2, <1>3, <1>4 DEF Next

\* What a passed check does: the evaluations that overlap are excused, all of them.
LEMMA CheckExcuses ==
  ASSUME Types, NEW w \in Worker, NEW r \in Rule, Check(w, r)
  PROVE  /\ Apart(w) /\ pc[w] = "rule" /\ pc'[w] \in {"act", "key"}
         /\ cur'[w] = r /\ who'[w] = who[w] /\ who[w] \in Customer
         /\ \A v \in Worker : excused[v] => excused'[v]
         /\ \A v \in Worker \ {w} : InGap(v, r, who[w]) => excused'[v] /\ excused'[w]
         /\ Unseeded(r, who[w]) => excused'[w]
<1> DEFINE rivals == {v \in Worker \ {w} : InGap(v, r, who[w])}
<1>1. /\ excused' = [v \in Worker |-> excused[v] \/ v \in rivals
                       \/ (v = w /\ (rivals # {} \/ Unseeded(r, who[w])))]
      /\ pc[w] = "rule" /\ cur' = [cur EXCEPT ![w] = r] /\ UNCHANGED who
      /\ pc' = [pc EXCEPT ![w] = IF Seen(w, r).mode = "shadow" THEN "key" ELSE "act"]
      /\ seen' = [seen EXCEPT ![w][r] = Seen(w, r)]
  BY DEF Check
<1>2. \A v \in Worker \ {w} : InGap(v, r, who[w]) => v \in rivals
  OBVIOUS
<1>3. /\ \A v \in Worker : excused'[v] = (excused[v] \/ v \in rivals
                                            \/ (v = w /\ (rivals # {} \/ Unseeded(r, who[w]))))
  BY <1>1
<1>4. Apart(w) /\ pc'[w] \in {"act", "key"} /\ cur'[w] = r /\ who[w] \in Customer
  BY <1>1 DEF Types, WorkerTypes, InHand, Apart
<1> HIDE DEF rivals
<1> QED BY <1>1, <1>2, <1>3, <1>4

LEMMA StepTogether == ASSUME Types, Together, [Next]_vars PROVE Together'
<1>1. CASE ~\E w \in Worker, r \in Rule : Check(w, r)
  BY <1>1, StepStayed DEF Stayed, Together, InGap
<1>2. ASSUME NEW w \in Worker, NEW r \in Rule, Check(w, r) PROVE Together'
  <2> SUFFICES ASSUME NEW v \in Worker, NEW u \in Worker, v # u,
                      pc'[v] \in {"act", "key"}, pc'[u] \in {"act", "key"},
                      cur'[u] = cur'[v], who'[u] = who'[v]
               PROVE  excused'[v] /\ excused'[u]
    BY DEF Together, InGap
  <2>1. CASE v # w /\ u # w
    BY <1>2, <2>1, CheckExcuses DEF Together, InGap, Apart
  <2>2. CASE v = w
    BY <1>2, <2>2, CheckExcuses DEF InGap, Apart
  <2>3. CASE u = w
    BY <1>2, <2>3, CheckExcuses DEF InGap, Apart
  <2> QED BY <2>1, <2>2, <2>3
<1> QED BY <1>1, <1>2

\* Only an action or an activation takes a customer's waiting time away.
LEMMA SinceGrows ==
  ASSUME Types, Types', [Next]_vars, NEW r \in Rule, NEW c \in Customer
  PROVE  \/ since'[r][c] >= Cooldown \/ since'[r][c] >= since[r][c]
         \/ Activate(r)
         \/ \E w \in Worker : Act(w) /\ cur[w] = r /\ who[w] = c
<1> DEFINE Goal == \/ since'[r][c] >= Cooldown \/ since'[r][c] >= since[r][c]
                   \/ Activate(r)
                   \/ \E w \in Worker : Act(w) /\ cur[w] = r /\ who[w] = c
<1> SUFFICES Goal
  OBVIOUS
<1>1. since \in [Rule -> [Customer -> 0..Cooldown]] /\ Cooldown \in Nat
  BY Sizes DEF Types, KeyTypes
<1>2. CASE Tick
  BY <1>1, <1>2 DEF Tick
<1>3. ASSUME NEW a \in Rule, Activate(a) PROVE Goal
  <2>1. CASE a # r
    <3>1. since'[r] = since[r]
      BY <1>1, <1>3, <2>1 DEF Activate
    <3> QED BY <1>1, <3>1
  <2> QED BY <1>3, <2>1
<1>4. CASE \E a \in Rule : SeedLoad(a) \/ SeedEnd(a)
  BY <1>1, <1>4 DEF SeedLoad, SeedEnd
<1>5. CASE UNCHANGED since
  BY <1>1, <1>5
<1>6. ASSUME NEW a \in Rule, NEW b \in Customer, Void(a, b) PROVE Goal
  BY <1>1, <1>6, VoidCell
<1>7. CASE \E a \in Rule, b \in Customer : SeedOne(a, b)
  BY <1>5, <1>6, <1>7 DEF SeedOne
<1>8. ASSUME NEW w \in Worker, Act(w) PROVE Goal
  <2>1. /\ cur[w] \in Rule /\ who[w] \in Customer
        /\ since' = [since EXCEPT ![cur[w]][who[w]] = 0]
    BY <1>8, Hand DEF Act
  <2>2. 0 \in 0..Cooldown
    BY <1>1
  <2>3. CASE cur[w] # r \/ who[w] # c
    BY <1>1, <2>1, <2>2, <2>3, Update
  <2> QED BY <1>8, <2>3
<1>9. ASSUME NEW w \in Worker, SetKey(w) \/ WorkerLost(w) \/ \E a \in Rule : Check(w, a) \/ RuleGone(w, a)
      PROVE  Goal
  <2>1. CASE ~UNCHANGED since
    <3>1. PICK a \in Rule : Void(a, who[w]) /\ who[w] \in Customer
      BY <1>9, <2>1, Hand DEF SetKey, WorkerLost, Check, RuleGone, Types, InHand
    <3> QED BY <3>1, <1>6
  <2> QED BY <2>1, <1>5
<1>10. CASE (\E a \in Rule : Delete(a) \/ \E m \in Mode : SetMode(a, m)) \/ UNCHANGED vars
  BY <1>5, <1>10 DEF Delete, SetMode, vars, cooldown
<1>11. ASSUME NEW w \in Worker, \/ LoadRules(w) \/ Commit(w) \/ CommitRefused(w)
                                \/ \E a \in Rule : Skip(w, a)
                                \/ \E a \in Rule, b \in Customer : TakeRun(w, a, b)
                                \/ \E b \in Customer, h \in BOOLEAN : Recompute(w, b, h)
       PROVE  Goal
  BY <1>5, <1>11, QuietApart
<1> HIDE DEF Goal
<1>12. ASSUME NEW w \in Worker, Work(w) \/ WorkerLost(w) PROVE Goal
  BY <1>8, <1>9, <1>11, <1>12 DEF Work
<1>13. CASE \E a \in Rule : \/ Activate(a) \/ Delete(a) \/ SeedLoad(a) \/ SeedEnd(a)
                            \/ \E m \in Mode : SetMode(a, m)
                            \/ \E b \in Customer : SeedOne(a, b)
  BY <1>3, <1>4, <1>7, <1>10, <1>13
<1> QED BY <1>2, <1>10, <1>11, <1>12, <1>13 DEF Next

LEMMA StepWaited == ASSUME Types, Types', Held, Together, Waited, [Next]_vars PROVE Waited'
<1> SUFFICES ASSUME NEW v \in Worker, pc'[v] = "act", ~excused'[v]
             PROVE  since'[cur'[v]][who'[v]] >= Cooldown
  BY DEF Waited
<1>1. PICK r \in Rule, c \in Customer : r = cur'[v] /\ c = who'[v]
  BY DEF Types, WorkerTypes, InHand
<1>2. /\ since[r][c] \in 0..Cooldown /\ since'[r][c] \in 0..Cooldown
      /\ key[r][c] \in 0..Cooldown /\ Cooldown \in Nat
  BY Sizes DEF Types, KeyTypes
<1>3. CASE Stayed(v)
  <2>1. pc[v] = "act" /\ r = cur[v] /\ c = who[v] /\ ~excused[v]
    BY <1>1, <1>3 DEF Stayed
  <2>2. since[r][c] >= Cooldown
    BY <2>1 DEF Waited
  <2>3. ~Activate(r)
    BY <2>1 DEF Activate, InGap, Types, WorkerTypes
  <2>4. ASSUME NEW w \in Worker, Act(w), cur[w] = r, who[w] = c PROVE FALSE
    <3>1. w # v
      BY <2>4 DEF Act, Types, WorkerTypes
    <3> QED BY <2>1, <2>4, <3>1 DEF Together, InGap, Act
  <2> QED BY <1>1, <1>2, <2>2, <2>3, <2>4, SinceGrows
<1>4. CASE ~Stayed(v)
  <2>1. PICK w \in Worker, s \in Rule : Check(w, s)
    BY <1>4, StepStayed
  <2>2. w = v
    BY <1>4, <2>1, CheckExcuses DEF Apart, Stayed
  <2>3. s = r /\ who[v] = c /\ pc[v] = "rule"
    BY <1>1, <2>1, <2>2, CheckExcuses
  <2>4. CASE UNCHANGED since /\ key[r][c] = 0
    <3>1. ~Unseeded(r, c)
      BY <2>1, <2>2, <2>3, CheckExcuses
    <3>2. ~Owed(r, c)
      BY <2>1, <2>2, <2>3, CheckExcuses DEF Owed, InGap
    <3>3. ~(since[r][c] < Cooldown)
      BY <1>2, <2>4, <3>1, <3>2 DEF Held, HeldAt
    <3> QED BY <1>1, <1>2, <2>4, <3>3
  <2>5. CASE Void(r, c)
    BY <1>1, <1>2, <2>5, VoidCell
  <2> QED BY <2>1, <2>2, <2>3, <2>4, <2>5 DEF Check
<1> QED BY <1>3, <1>4

-----------------------------------------------------------------------------
(* The count.                                                                *)

\* What a session comes to hold of a rule it read, forgot, or held before.
Known(w, r) == \/ seen'[w][r] \in {Expired, seen[w][r]}
               \/ row[r] \in Row /\ seen'[w][r] = row[r]

LEMMA EndKnown ==
  ASSUME Types, NEW w \in Worker, End(w), NEW v \in Worker, NEW r \in Rule PROVE Known(v, r)
  BY DEF Types, WorkerTypes, End, AllExpired, Known

LEMMA WorkKnown ==
  ASSUME Types, NEW w \in Worker, Work(w) \/ WorkerLost(w) \/ \E c \in Customer, h \in BOOLEAN : Recompute(w, c, h),
         NEW v \in Worker, NEW r \in Rule
  PROVE  Known(v, r)
<1>1. CASE (\E s \in Rule : RuleGone(w, s)) \/ CommitRefused(w) \/ WorkerLost(w)
  BY <1>1, EndKnown DEF RuleGone, CommitRefused, WorkerLost
<1>2. CASE LoadRules(w)
  BY <1>2, EndKnown DEF LoadRules, Types, WorkerTypes, Known
<1>3. CASE \E c \in Customer, h \in BOOLEAN : Recompute(w, c, h)
  BY <1>3 DEF Recompute, Known
<1>4. ASSUME NEW s \in Rule, NEW c \in Customer, TakeRun(w, s, c) PROVE Known(v, r)
  <2>1. CASE seen' = seen
    BY <2>1 DEF Known
  <2>2. CASE seen' # seen
    <3>1. row[Names[s]] \in Row /\ seen' = [seen EXCEPT ![w][Names[s]] = row[Names[s]]]
      BY <1>4, <2>2 DEF TakeRun, job
    <3> QED BY <3>1 DEF Types, WorkerTypes, Known
  <2> QED BY <2>1, <2>2
<1>5. ASSUME NEW s \in Rule, Skip(w, s) PROVE Known(v, r)
  <2>1. End(w) \/ seen' = [seen EXCEPT ![w] = [seen[w] EXCEPT ![s] = Expired]]
    BY <1>5 DEF Skip, Forward
  <2> QED BY <2>1, EndKnown DEF Types, WorkerTypes, Known
<1>6. ASSUME NEW s, Seen(w, s) \in Row, seen' = [seen EXCEPT ![w][s] = Seen(w, s)]
      PROVE  Known(v, r)
  BY <1>6 DEF Seen, Types, WorkerTypes, Known
<1>7. CASE SetKey(w) \/ \E s \in Rule : Check(w, s)
  BY <1>6, <1>7 DEF SetKey, Check
<1>8. CASE Act(w)
  BY <1>8 DEF Act, AllExpired, Types, WorkerTypes, Known
<1>9. CASE Commit(w)
  <2>1. End(w) \/ seen' = [seen EXCEPT ![w] = AllExpired]
    BY <1>9 DEF Commit, Forward
  <2> QED BY <2>1, EndKnown DEF AllExpired, Types, WorkerTypes, Known
<1> QED BY <1>1, <1>2, <1>3, <1>4, <1>5, <1>7, <1>8, <1>9 DEF Work

LEMMA CountsKept ==
  ASSUME Types, Counts, NEW r \in Rule, \A w \in Worker : Known(w, r),
         row'[r] = row[r], logged'[r] = logged[r], crossed'[r] = crossed[r]
  PROVE  CountsAt(r)'
  BY Sentinels DEF Counts, CountsAt, Known, Types, WorkerTypes

LEMMA EditCounts ==
  ASSUME Types, Counts, NEW a \in Rule, NEW new, Edit(a, new), UNCHANGED <<seen, logged, crossed>>,
         row[a] = None \/ row[a] \in Row,
         \/ new = Gone
         \/ \E m \in Mode : new = [mode |-> m, count |-> IF row[a] = None THEN 0 ELSE row[a].count]
  PROVE  Counts'
<1> SUFFICES ASSUME NEW r \in Rule PROVE CountsAt(r)'
  BY DEF Counts
<1>1. row' = [row EXCEPT ![a] = new] /\ row \in [Rule -> Row \cup {None, Gone}]
  BY DEF Edit, Types, RuleTypes
<1>2. CASE r # a
  BY <1>1, <1>2, CountsKept DEF Known
<1>3. CASE r = a
  BY <1>1, <1>3, Sentinels DEF Counts, CountsAt, Row
<1> QED BY <1>2, <1>3

LEMMA CommitCounts == ASSUME Types, Counts, NEW w \in Worker, Commit(w) PROVE Counts'
<1> SUFFICES ASSUME NEW r \in Rule PROVE CountsAt(r)'
  BY DEF Counts
<1> DEFINE a == cur[w]
<1>1. /\ a \in Rule /\ row[a] \in Row /\ seen[w][a] \in Row
      /\ row' = [row EXCEPT ![a].count = Plus1(seen[w][a].count)]
      /\ logged' = [logged EXCEPT ![a] = Plus1(@)]
      /\ crossed' = [crossed EXCEPT ![a] = @ \/ \E v \in Worker \ {w} : seen[v][a] # Expired]
  BY Hand DEF Commit, Types, InHand
<1>2. \A v \in Worker : Known(v, r)
  BY WorkKnown DEF Work
<1>3. CASE r # a
  BY <1>1, <1>2, <1>3, CountsKept DEF Types, RuleTypes
<1>4. CASE r = a
  <2>1. /\ row'[r] \in Row /\ row'[r].count = Plus1(seen[w][r].count)
        /\ logged'[r] = Plus1(logged[r])
    <3>1. Plus1(seen[w][r].count) \in 0..(Modulus - 1)
      BY <1>1, <1>4, Plus1Range DEF Row
    <3> QED BY <1>1, <1>4, <3>1 DEF Types, RuleTypes, Row
  <2>2. ~crossed'[r] => ~crossed[r] /\ \A v \in Worker \ {w} : seen[v][r] = Expired
    BY <1>1, <1>4 DEF Types, RuleTypes
  <2>3. ~crossed[r] => seen[w][r].count = logged[r]
    BY <1>1, <1>4 DEF Counts, CountsAt
  <2>4. seen'[w][r] = Expired /\ \A v \in Worker \ {w} : seen'[v][r] = seen[v][r]
    BY DEF Commit, Forward, End, AllExpired, Types, WorkerTypes
  <2> QED BY <2>1, <2>2, <2>3, <2>4, Sentinels DEF CountsAt
<1> QED BY <1>3, <1>4

LEMMA StepCounts == ASSUME Types, Counts, [Next]_vars PROVE Counts'
<1>1. CASE UNCHANGED <<row, logged, crossed>> /\ \A w \in Worker, r \in Rule : Known(w, r)
  BY <1>1, CountsKept DEF Counts
<1>2. ASSUME NEW w \in Worker, Work(w) \/ WorkerLost(w) \/ \E c \in Customer, h \in BOOLEAN : Recompute(w, c, h)
      PROVE  Counts'
  <2>1. CASE ~Commit(w)
    <3>1. UNCHANGED <<row, logged, crossed>>
      BY <1>2, <2>1 DEF Work, LoadRules, Act, SetKey, CommitRefused, Skip, Check, RuleGone, TakeRun,
         WorkerLost, Recompute, ghosts
    <3> QED BY <1>1, <1>2, <3>1, WorkKnown
  <2> QED BY <2>1, CommitCounts
<1>3. CASE \E r \in Rule : Activate(r) \/ Delete(r) \/ \E m \in Mode : SetMode(r, m)
  <2>1. PICK r \in Rule : Activate(r) \/ Delete(r) \/ \E m \in Mode : SetMode(r, m)
    BY <1>3
  <2>2. UNCHANGED <<seen, logged, crossed>> /\ (row[r] = None \/ row[r] \in Row)
    BY <2>1 DEF Activate, Delete, SetMode, ghosts, job
  <2>3. \E new : /\ Edit(r, new)
                 /\ \/ new = Gone
                    \/ \E m \in Mode :
                         new = [mode |-> m, count |-> IF row[r] = None THEN 0 ELSE row[r].count]
    BY <2>1 DEF Activate, Delete, SetMode, Mode
  <2> QED BY <2>2, <2>3, EditCounts
<1>4. CASE \/ Tick \/ UNCHANGED vars
           \/ \E r \in Rule : SeedLoad(r) \/ SeedEnd(r) \/ \E c \in Customer : SeedOne(r, c)
  <2>1. UNCHANGED <<row, logged, crossed, seen>>
    BY <1>4 DEF Tick, vars, SeedLoad, SeedEnd, SeedOne, job, ghosts
  <2> QED BY <1>1, <2>1 DEF Known
<1> QED BY <1>2, <1>3, <1>4 DEF Next

-----------------------------------------------------------------------------
LEMMA Invariance == Spec => []IInv
<1>1. Init => IInv
  BY InitIInv
<1>2. IInv /\ [Next]_vars => IInv'
  BY StepTypes, StepHeld, StepTogether, StepWaited, StepCounts DEF IInv
<1> QED BY <1>1, <1>2, PTL DEF Spec

\* Every variable keeps its type, and a worker that acts or commits has a rule in hand
\* whose row its session holds.
THEOREM TypeCorrect == Spec => []TypeOK
<1>1. IInv => TypeOK
  BY DEF IInv, Types, WorkerTypes, RuleTypes, KeyTypes, BoundTypes, InHand, TypeOK
<1> QED BY <1>1, Invariance, PTL

\* The key a rule's action leaves in Redis covers the cooldown that is owed to the
\* customer, whatever was activated, recomputed, lost or deleted meanwhile.
THEOREM KeyCoversCooldown == Spec => []HeldBack
<1>1. IInv => HeldBack
  BY DEF IInv, Held, HeldAt, Owed, InGap, HeldBack
<1> QED BY <1>1, Invariance, PTL

\* A rule acts for a customer within its cooldown only if the evaluation overlapped
\* another one, or the activation.
THEOREM ActsOncePerCooldown == Spec => NoEarlyFire
<1>1. IInv /\ [Next]_vars =>
        [\A w \in Worker : Act(w) => since[cur[w]][who[w]] >= Cooldown \/ excused[w]]_vars
  BY DEF IInv, Waited, Act
<1> QED BY <1>1, Invariance, PTL DEF Spec, NoEarlyFire

\* The count of a rule is the number of its executions, unless sessions crossed.
THEOREM CountCorrect == Spec => []CountIsLog
<1>1. IInv => CountIsLog
  BY DEF IInv, Counts, CountsAt, CountIsLog
<1> QED BY <1>1, Invariance, PTL
=============================================================================
