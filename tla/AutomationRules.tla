--------------------------- MODULE AutomationRules ---------------------------
(***************************************************************************)
(* Rules on the churn probability of a customer.  A recompute commits the  *)
(* probability and evaluates every rule that is on; a playbook step may    *)
(* evaluate the rule it names.  A rule that fires queues a playbook run,   *)
(* so rules and playbooks can form a cycle.  A key in Redis, set after the *)
(* actions and before the final commit, holds a rule back for a customer   *)
(* during its cooldown; activating a rule sets the keys of the customers   *)
(* that are above its threshold already.                                   *)
(*                                                                         *)
(* The session of a worker keeps the rules it loaded until a commit        *)
(* expires them.  Time is counted in ticks.                                *)
(***************************************************************************)
EXTENDS Integers, FiniteSets

CONSTANTS
  Rule, Customer, Worker,
  Names,         \* Names[r]: the rule named by a step of r's playbook, or Nothing
  Nothing,
  None, Gone,    \* a rule not created yet; a deleted one
  Expired,       \* what a session holds of a rule after its commit
  Cooldown,      \* ticks
  Modulus,       \* executions are counted modulo this number
  Initial,       \* modes the rules may start in
  MaxTicks, MaxEvents, MaxQueue  \* bounds of the model: ticks; recomputes, edits and
                 \*   faults together; queued runs of a rule for a customer

Mode == {"off", "shadow", "active"}

ASSUME ConstantAssumption ==
  /\ Names \in [Rule -> Rule \cup {Nothing}]
  /\ Nothing \notin Rule \cup Customer
  /\ {None, Gone, Expired} \cap [mode : Mode, count : 0..(Modulus - 1)] = {}
  /\ None # Gone /\ None # Expired /\ Gone # Expired
  /\ {Cooldown, Modulus} \subseteq Nat \ {0}
  /\ Initial \subseteq Mode \cup {None}
  /\ {MaxTicks, MaxEvents, MaxQueue} \subseteq Nat

VARIABLES
  high,          \* committed: the probability is at the threshold or above
  row,           \* the rules: mode and execution_count
  key,           \* Redis: ticks the cooldown key has left, 0 if there is none
  runs,          \* queued playbook runs of a rule for a customer
  seedPc, seeds, \* the request that activates a rule, and the customers it has to seed
  pc,            \* what a worker does
  who, given,    \* its customer, and whether the probability it was given is high
  todo, cur,     \* rules it has still to evaluate, the one in hand
  seen,          \* what its session holds of the rules it has still to do
  ticks, recomputes, edits, faults,
  logged,        \* executions of a rule that were committed, modulo Modulus
  crossed,       \* an execution was committed while another session held the rule
  since,         \* ticks since the rule acted for the customer, or was activated
  excused        \* a worker's evaluation overlapped another, or an activation

cooldown == <<key, since>>
request  == <<seedPc, seeds>>
job      == <<pc, who, given, todo, cur, seen, excused>>
bounds   == <<ticks, recomputes, edits, faults>>
ghosts   == <<logged, crossed>>
vars == <<high, row, cooldown, runs, request, job, bounds, ghosts>>

Row == [mode : Mode, count : 0..(Modulus - 1)]
Plus1(n) == (n + 1) % Modulus
AllExpired == [r \in Rule |-> Expired]

\* Between a passed check and the key: the two ends of the window a second
\* evaluation slips through.
InGap(w, r, c) == pc[w] \in {"act", "key"} /\ cur[w] = r /\ who[w] = c
Unseeded(r, c) == seedPc[r] = "select" \/ c \in seeds[r]

TypeOK ==
  /\ high \in [Customer -> BOOLEAN]
  /\ row \in [Rule -> Row \cup {None, Gone}]
  /\ key \in [Rule -> [Customer -> 0..Cooldown]]
  /\ since \in [Rule -> [Customer -> 0..Cooldown]]
  /\ runs \in [Rule -> [Customer -> 0..MaxQueue]]
  /\ seedPc \in [Rule -> {"idle", "select", "seed"}]
  /\ seeds \in [Rule -> SUBSET Customer]
  /\ pc \in [Worker -> {"idle", "load", "rule", "act", "key", "commit"}]
  /\ who \in [Worker -> Customer \cup {Nothing}]
  /\ given \in [Worker -> BOOLEAN]
  /\ todo \in [Worker -> SUBSET Rule]
  /\ cur \in [Worker -> Rule \cup {Nothing}]
  /\ seen \in [Worker -> [Rule -> Row \cup {Expired}]]
  /\ excused \in [Worker -> BOOLEAN]
  /\ ticks \in 0..MaxTicks
  /\ {recomputes, edits, faults} \subseteq Nat /\ recomputes + edits + faults <= MaxEvents
  /\ logged \in [Rule -> 0..(Modulus - 1)]
  /\ crossed \in [Rule -> BOOLEAN]
  /\ \A w \in Worker : pc[w] \in {"act", "commit"} => seen[w][cur[w]] \in Row

Init ==
  /\ high \in [Customer -> BOOLEAN]
  /\ row \in [Rule -> {IF m = None THEN None ELSE [mode |-> m, count |-> 0] : m \in Initial}]
  /\ key = [r \in Rule |-> [c \in Customer |-> 0]]
  /\ since = [r \in Rule |-> [c \in Customer |-> Cooldown]]
  /\ runs = [r \in Rule |-> [c \in Customer |-> 0]]
  /\ seedPc = [r \in Rule |-> "idle"] /\ seeds = [r \in Rule |-> {}]
  /\ pc = [w \in Worker |-> "idle"]
  /\ who = [w \in Worker |-> Nothing] /\ given = [w \in Worker |-> FALSE]
  /\ todo = [w \in Worker |-> {}] /\ cur = [w \in Worker |-> Nothing]
  /\ seen = [w \in Worker |-> AllExpired]
  /\ excused = [w \in Worker |-> FALSE]
  /\ ticks = 0 /\ recomputes = 0 /\ edits = 0 /\ faults = 0
  /\ logged = [r \in Rule |-> 0] /\ crossed = [r \in Rule |-> FALSE]

Bounded == recomputes + edits + faults < MaxEvents
Fault == Bounded /\ faults' = faults + 1

\* Time passes: Redis lets keys expire.
Tick ==
  /\ ticks < MaxTicks
  /\ ticks' = ticks + 1
  /\ key' = [r \in Rule |-> [c \in Customer |-> IF key[r][c] = 0 THEN 0 ELSE key[r][c] - 1]]
  /\ since' = [r \in Rule |-> [c \in Customer |->
                 IF since[r][c] = Cooldown THEN Cooldown ELSE since[r][c] + 1]]
  /\ UNCHANGED <<high, row, runs, request, job, recomputes, edits, faults, ghosts>>

\* A promise nobody can keep: the process that owed the key is gone, or Redis, or the
\* rule.
Void(r, c) == since' = [since EXCEPT ![r][c] = Cooldown]

-----------------------------------------------------------------------------
(* The routes.                                                             *)

Edit(r, new) ==
  /\ Bounded /\ edits' = edits + 1
  /\ row' = [row EXCEPT ![r] = new]

\* Mutated form of Activate: an endpoint that does not seed the keys.
ActivateNoSeed(r) ==
  /\ row[r] = None \/ (row[r] \in Row /\ row[r].mode # "active")
  /\ Edit(r, [mode |-> "active", count |-> IF row[r] = None THEN 0 ELSE row[r].count])
  /\ since' = [since EXCEPT ![r] = [c \in Customer |-> IF high[c] THEN 0 ELSE @[c]]]
  /\ UNCHANGED <<high, key, runs, request, job, ticks, recomputes, faults, ghosts>>

\* Into "active": the row is committed first and the keys are seeded afterwards, by
\* a request of its own.  From that commit on the customers above the threshold are
\* owed a cooldown.
Activate(r) ==
  /\ seedPc[r] = "idle"
  /\ row[r] = None \/ (row[r] \in Row /\ row[r].mode # "active")
  /\ Edit(r, [mode |-> "active", count |-> IF row[r] = None THEN 0 ELSE row[r].count])
  /\ seedPc' = [seedPc EXCEPT ![r] = "select"]
  /\ since' = [since EXCEPT ![r] = [c \in Customer |-> IF high[c] THEN 0 ELSE @[c]]]
  /\ excused' = [w \in Worker |-> excused[w] \/ \E c \in Customer : InGap(w, r, c)]
  /\ UNCHANGED <<high, key, runs, seeds, pc, who, given, todo, cur, seen, ticks,
                 recomputes, faults, ghosts>>

\* Created or switched to a mode that seeds nothing.
SetMode(r, m) ==
  /\ m # "active"
  /\ row[r] = None \/ (row[r] \in Row /\ row[r].mode # m)
  /\ Edit(r, [mode |-> m, count |-> IF row[r] = None THEN 0 ELSE row[r].count])
  /\ UNCHANGED <<high, cooldown, runs, request, job, ticks, recomputes, faults, ghosts>>

Delete(r) ==
  /\ row[r] \in Row
  /\ Edit(r, Gone)
  /\ UNCHANGED <<high, cooldown, runs, request, job, ticks, recomputes, faults, ghosts>>

\* seed_churn_cooldowns: the customers above the threshold by now.
SeedLoad(r) ==
  /\ seedPc[r] = "select"
  /\ seeds' = [seeds EXCEPT ![r] = {c \in Customer : high[c]}]
  /\ seedPc' = [seedPc EXCEPT ![r] = "seed"]
  /\ since' = [since EXCEPT ![r] = [c \in Customer |-> IF high[c] THEN @[c] ELSE Cooldown]]
  /\ UNCHANGED <<high, row, key, runs, job, bounds, ghosts>>

SeedOne(r, c) ==
  /\ c \in seeds[r]
  /\ seeds' = [seeds EXCEPT ![r] = @ \ {c}]
  /\ \/ /\ key' = [key EXCEPT ![r][c] = Cooldown]
        /\ UNCHANGED <<since, faults>>
     \/ Fault /\ Void(r, c) /\ UNCHANGED key
  /\ UNCHANGED <<high, row, runs, seedPc, job, ticks, recomputes, edits, ghosts>>

\* The request is answered, or its process is lost.
SeedEnd(r) ==
  /\ seedPc[r] # "idle"
  /\ \/ seedPc[r] = "seed" /\ seeds[r] = {} /\ UNCHANGED <<faults, since>>
     \/ /\ Fault
        /\ since' = [since EXCEPT ![r] = [c \in Customer |->
                       IF Unseeded(r, c) THEN Cooldown ELSE @[c]]]
  /\ seedPc' = [seedPc EXCEPT ![r] = "idle"]
  /\ seeds' = [seeds EXCEPT ![r] = {}]
  /\ UNCHANGED <<high, row, key, runs, job, ticks, recomputes, edits, ghosts>>

-----------------------------------------------------------------------------
(* The worker.                                                             *)

End(w) ==
  /\ pc' = [pc EXCEPT ![w] = "idle"]
  /\ who' = [who EXCEPT ![w] = Nothing] /\ given' = [given EXCEPT ![w] = FALSE]
  /\ todo' = [todo EXCEPT ![w] = {}] /\ cur' = [cur EXCEPT ![w] = Nothing]
  /\ seen' = [seen EXCEPT ![w] = AllExpired]
  /\ excused' = [excused EXCEPT ![w] = FALSE]

\* The rule in hand is done: on to the next one, if there is one.
Forward(w, r, rules) ==
  IF todo[w] = {r} THEN End(w)
  ELSE /\ pc' = [pc EXCEPT ![w] = "rule"]
       /\ todo' = [todo EXCEPT ![w] = @ \ {r}]
       /\ cur' = [cur EXCEPT ![w] = Nothing]
       /\ seen' = [seen EXCEPT ![w] = rules]
       /\ excused' = [excused EXCEPT ![w] = FALSE]
       /\ UNCHANGED <<who, given>>

\* probability_updater.update commits a new probability.
Recompute(w, c, h) ==
  /\ pc[w] = "idle" /\ Bounded
  /\ recomputes' = recomputes + 1
  /\ high' = [high EXCEPT ![c] = h]
  /\ pc' = [pc EXCEPT ![w] = "load"]
  /\ who' = [who EXCEPT ![w] = c] /\ given' = [given EXCEPT ![w] = h]
  /\ UNCHANGED <<row, cooldown, runs, request, todo, cur, seen, excused, ticks, edits,
                 faults, ghosts>>

LoadRules(w) ==
  /\ pc[w] = "load"
  /\ LET on == {r \in Rule : row[r] \in Row /\ row[r].mode # "off"}
     IN IF on = {} THEN End(w)
        ELSE /\ todo' = [todo EXCEPT ![w] = on]
             /\ seen' = [seen EXCEPT ![w] =
                          [r \in Rule |-> IF r \in on THEN row[r] ELSE Expired]]
             /\ pc' = [pc EXCEPT ![w] = "rule"]
             /\ UNCHANGED <<who, given, cur, excused>>
  /\ UNCHANGED <<high, row, cooldown, runs, request, bounds, ghosts>>

\* A playbook run whose steps name a rule that is active; others end here.
TakeRun(w, r, c) ==
  /\ pc[w] = "idle" /\ runs[r][c] > 0
  /\ runs' = [runs EXCEPT ![r][c] = @ - 1]
  /\ LET t == Names[r] IN
       IF t # Nothing /\ row[t] \in Row /\ row[t].mode = "active"
       THEN /\ pc' = [pc EXCEPT ![w] = "rule"]
            /\ who' = [who EXCEPT ![w] = c] /\ given' = [given EXCEPT ![w] = high[c]]
            /\ todo' = [todo EXCEPT ![w] = {t}]
            /\ seen' = [seen EXCEPT ![w][t] = row[t]]
            /\ UNCHANGED <<cur, excused>>
       ELSE UNCHANGED job
  /\ UNCHANGED <<high, row, cooldown, request, bounds, ghosts>>

Seen(w, r) == IF seen[w][r] = Expired THEN row[r] ELSE seen[w][r]

\* _evaluate_rule up to the cooldown: below the threshold, or held back.
Skip(w, r) ==
  /\ pc[w] = "rule" /\ r \in todo[w] /\ Seen(w, r) \in Row
  /\ ~given[w] \/ key[r][who[w]] > 0
  /\ Forward(w, r, [seen[w] EXCEPT ![r] = Expired])
  /\ UNCHANGED <<high, row, cooldown, runs, request, bounds, ghosts>>

\* No key, or Redis does not answer: the rule fires, in shadow without doing anything.
\* Evaluations for the same customer that are past this point and have no key yet
\* overlap.
Check(w, r) ==
  /\ pc[w] = "rule" /\ r \in todo[w] /\ Seen(w, r) \in Row /\ given[w]
  /\ LET c == who[w]
         rivals == {v \in Worker \ {w} : InGap(v, r, c)}
     IN /\ \/ key[r][c] = 0 /\ UNCHANGED <<faults, since>>
           \/ key[r][c] > 0 /\ Fault /\ Void(r, c)
        /\ excused' = [v \in Worker |-> excused[v] \/ v \in rivals
                         \/ (v = w /\ (rivals # {} \/ Unseeded(r, c)))]
  /\ pc' = [pc EXCEPT ![w] = IF Seen(w, r).mode = "shadow" THEN "key" ELSE "act"]
  /\ cur' = [cur EXCEPT ![w] = r]
  /\ seen' = [seen EXCEPT ![w][r] = Seen(w, r)]
  /\ UNCHANGED <<high, row, key, runs, request, who, given, todo, ticks, recomputes,
                 edits, ghosts>>

\* The rule was deleted and its row had expired: reading it raises, here and when the
\* outcome is recorded, and so does the handler's log line.  The loop is over.
RuleGone(w, r) ==
  /\ \/ pc[w] = "rule" /\ r \in todo[w] /\ UNCHANGED since
     \/ pc[w] = "key" /\ r = cur[w] /\ Void(r, who[w])
  /\ Seen(w, r) = Gone
  /\ End(w)
  /\ UNCHANGED <<high, row, key, runs, request, bounds, ghosts>>

\* Unless in shadow (so for a rule re-read as "off", too), the execution row of the
\* playbook is committed, which expires the session, and its run published; a failed
\* publish is logged.
Act(w) ==
  /\ pc[w] = "act"
  /\ LET r == cur[w]
         c == who[w]
     IN /\ \/ /\ runs[r][c] < MaxQueue
              /\ runs' = [runs EXCEPT ![r][c] = @ + 1]
              /\ UNCHANGED faults
           \/ Fault /\ UNCHANGED runs
        /\ since' = [since EXCEPT ![r][c] = 0]
  /\ seen' = [seen EXCEPT ![w] = AllExpired]
  /\ pc' = [pc EXCEPT ![w] = "key"]
  /\ UNCHANGED <<high, row, key, request, who, given, todo, cur, excused, ticks,
                 recomputes, edits, ghosts>>

\* Mutated form of SetKey: a key that expires at once.
SetKeyNoTtl(w) ==
  /\ pc[w] = "key" /\ Seen(w, cur[w]) \in Row
  /\ seen' = [seen EXCEPT ![w][cur[w]] = Seen(w, cur[w])]
  /\ pc' = [pc EXCEPT ![w] = "commit"]
  /\ UNCHANGED <<high, row, cooldown, runs, request, who, given, todo, cur, excused,
                 bounds, ghosts>>

\* The execution is added, the count read and raised in memory, and the key set, or
\* Redis does not answer.
SetKey(w) ==
  /\ pc[w] = "key" /\ Seen(w, cur[w]) \in Row
  /\ LET r == cur[w]
         c == who[w]
     IN \/ /\ key' = [key EXCEPT ![r][c] = Cooldown]
           /\ UNCHANGED <<since, faults>>
        \/ Fault /\ Void(r, c) /\ UNCHANGED key
  /\ seen' = [seen EXCEPT ![w][cur[w]] = Seen(w, cur[w])]
  /\ pc' = [pc EXCEPT ![w] = "commit"]
  /\ UNCHANGED <<high, row, runs, request, who, given, todo, cur, excused, ticks,
                 recomputes, edits, ghosts>>

\* The UPDATE writes the count the session computed.
Commit(w) ==
  /\ pc[w] = "commit"
  /\ LET r == cur[w] IN
       /\ row[r] \in Row
       /\ row' = [row EXCEPT ![r].count = Plus1(seen[w][r].count)]
       /\ logged' = [logged EXCEPT ![r] = Plus1(@)]
       /\ crossed' = [crossed EXCEPT ![r] = @ \/ \E v \in Worker \ {w} : seen[v][r] # Expired]
       /\ Forward(w, r, AllExpired)
  /\ UNCHANGED <<high, cooldown, runs, request, bounds>>

\* Mutated form of CommitRefused: the count has been written, the execution has not.
CommitRefusedKeepsCount(w) ==
  /\ pc[w] = "commit" /\ row[cur[w]] \in Row /\ Fault
  /\ row' = [row EXCEPT ![cur[w]].count = Plus1(seen[w][cur[w]].count)]
  /\ End(w)
  /\ UNCHANGED <<high, cooldown, runs, request, ticks, recomputes, edits, ghosts>>

\* The commit is refused, as it is when the rule is gone: the session cannot be used
\* any more, the handler's log line raises, and the loop is over.
CommitRefused(w) ==
  /\ pc[w] = "commit"
  /\ \/ row[cur[w]] = Gone /\ UNCHANGED faults
     \/ Fault
  /\ End(w)
  /\ UNCHANGED <<high, row, cooldown, runs, request, ticks, recomputes, edits, ghosts>>

WorkerLost(w) ==
  /\ pc[w] # "idle" /\ Fault
  /\ IF pc[w] = "key" THEN Void(cur[w], who[w]) ELSE UNCHANGED since
  /\ End(w)
  /\ UNCHANGED <<high, row, key, runs, request, ticks, recomputes, edits, ghosts>>

-----------------------------------------------------------------------------
Work(w) ==
  \/ LoadRules(w) \/ Act(w) \/ SetKey(w) \/ Commit(w) \/ CommitRefused(w)
  \/ \E r \in Rule : Skip(w, r) \/ Check(w, r) \/ RuleGone(w, r)
  \/ \E r \in Rule, c \in Customer : TakeRun(w, r, c)

Next ==
  \/ Tick
  \/ \E r \in Rule : Activate(r) \/ Delete(r) \/ SeedLoad(r) \/ SeedEnd(r)
  \/ \E r \in Rule, m \in Mode : SetMode(r, m)
  \/ \E r \in Rule, c \in Customer : SeedOne(r, c)
  \/ \E w \in Worker, c \in Customer, h \in BOOLEAN : Recompute(w, c, h)
  \/ \E w \in Worker : Work(w) \/ WorkerLost(w)

\* Workers take runs and go on with what they do.
Spec == Init /\ [][Next]_vars /\ \A w \in Worker : WF_vars(Work(w))

-----------------------------------------------------------------------------
\* The key in Redis outlives the cooldown that is owed to a customer, from the moment
\* the rule acts (or is activated) until the cooldown is over: except while the
\* worker, or the activating request, that owes the key has not set it yet.
HeldBack ==
  \A r \in Rule, c \in Customer :
    since[r][c] < Cooldown =>
      \/ key[r][c] + since[r][c] >= Cooldown
      \/ \E w \in Worker : InGap(w, r, c)
      \/ Unseeded(r, c)

\* No customer gets two playbook runs of a rule within its cooldown, nor one right
\* after its activation, although checking, acting and setting the key are three
\* steps: unless the evaluation overlapped another one of that rule and customer or
\* the activation itself.
NoEarlyFire ==
  [][\A w \in Worker : Act(w) => since[cur[w]][who[w]] >= Cooldown \/ excused[w]]_vars

\* execution_count is the number of executions that were recorded, across refused
\* commits, deleted rules and lost workers, unless an execution was committed while
\* another session held the rule.
CountIsLog ==
  \A r \in Rule : row[r] \in Row /\ ~crossed[r] => row[r].count = logged[r]

\* Rules and playbooks that name each other come to an end: the key set by the first
\* evaluation stops the cycle, although it is set after the run is published.
CascadeEnds ==
  <>[](\A r \in Rule, c \in Customer : runs[r][c] = 0 /\ \A w \in Worker : pc[w] = "idle")
=============================================================================
