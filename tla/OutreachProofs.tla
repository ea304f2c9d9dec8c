---------------------------- MODULE OutreachProofs ----------------------------
(* Machine-checked proofs about Outreach, for any sets of items, campaigns,  *)
(* customers and workers and any timing that respects TimeAssumption.        *)
EXTENDS Outreach, FiniteSetTheorems, TLAPS

LEMMA InitIInv == Init => IInv
<1> SUFFICES ASSUME Init PROVE IInv
  OBVIOUS
<1> USE DataAssumption, TimeAssumption DEF Init
<1>1. TypeOK
  BY DEF TypeOK, Terminal, Pc, MailCap, OptCap
<1>2. WorkerHasJob /\ OutcomeIsTrue /\ SentMeansMailed /\ LastIsLast
  BY DEF WorkerHasJob, OutcomeIsTrue, SentMeansMailed, LastIsLast
<1>3. AskedIsCreated
  BY DEF AskedIsCreated, Asked, Recipient
<1>4. CreatedHasRows /\ DoneMeansSettled
  BY DEF CreatedHasRows, DoneMeansSettled
<1>5. KeyCovers
  BY DEF KeyCovers, MailCap
<1>6. SenderSawNoKey /\ OptOutIsYoung
  BY DEF SenderSawNoKey, OptOutIsYoung
<1> QED BY <1>1, <1>2, <1>3, <1>4, <1>5, <1>6 DEF IInv

(* Types, one group of variables at a time.                                  *)

LEMMA CapTypes ==
  MailCap \in Nat /\ OptCap \in Nat /\ Cooldown \in Nat /\ TimeLimit \in Nat
  BY TimeAssumption DEF MailCap, OptCap

LEMMA OlderRange ==
  ASSUME NEW cap \in Nat, NEW n \in 0..cap
  PROVE  Older(n, cap) \in 0..cap /\ Older(n, cap) <= n + 1 /\ n <= Older(n, cap)
  BY DEF Older

LEMMA ToWhomType ==
  ASSUME WorkerHasJob, NEW w \in Worker, pc[w] # "idle"
  PROVE  job[w] \in Item /\ ToWhom(w) \in Customer
  BY DataAssumption DEF WorkerHasJob, ToWhom

WorkTypes ==
  /\ pc \in [Worker -> Pc]
  /\ job \in [Worker -> Item \cup {NoItem}]
  /\ busy \in [Worker -> 0..TimeLimit]
  /\ outcome \in [Worker -> {"none"} \cup Terminal]
  /\ last \in [Worker -> BOOLEAN]

LEMMA ReleaseTypes ==
  ASSUME WorkTypes, NEW w \in Worker, Release(w) PROVE WorkTypes'
  BY TimeAssumption DEF WorkTypes, Release, Pc

LEMMA GotoTypes ==
  ASSUME WorkTypes, NEW w \in Worker, NEW label \in Pc, Goto(w, label) PROVE WorkTypes'
  BY DEF WorkTypes, Goto

LEMMA ReturnTypes ==
  ASSUME WorkTypes, NEW w \in Worker, NEW result \in Terminal, Return(w, result)
  PROVE  WorkTypes'
  BY DEF WorkTypes, Return, Pc

LEMMA WorkTypesStep == WorkTypes /\ WorkerHasJob /\ [Next]_vars => WorkTypes'
<1> SUFFICES ASSUME WorkTypes, WorkerHasJob, [Next]_vars PROVE WorkTypes'
  OBVIOUS
<1>0. ASSUME UNCHANGED workVars PROVE WorkTypes'
  BY <1>0 DEF workVars, WorkTypes
<1>1. ASSUME NEW w \in Worker, NEW i \in Item, Deliver(w, i) PROVE WorkTypes'
  BY <1>1 DEF Deliver, WorkTypes, Pc
<1>2. ASSUME NEW w \in Worker, WorkerStep(w) PROVE WorkTypes'
  <2>1. CASE \/ SaveDelivery(w) \/ Commit(w) \/ RaiseMarked(w) \/ RaiseUnmarked(w)
             \/ WorkerLost(w) \/ TimeLimitKill(w)
    BY <2>1, ReleaseTypes
    DEF SaveDelivery, Commit, RaiseMarked, RaiseUnmarked, WorkerLost, TimeLimitKill
  <2>2. CASE Load(w) \/ CheckOptOut(w) \/ CheckCooldown(w) \/ CheckCooldownFails(w) \/ Mail(w)
    <3>1. /\ "optout" \in Pc /\ "cooldown" \in Pc /\ "send" \in Pc /\ "mark" \in Pc
          /\ "skipped" \in Terminal
      BY DEF Pc, Terminal
    <3> QED BY <2>2, <3>1, ReleaseTypes, GotoTypes, ReturnTypes
            DEF Load, CheckOptOut, CheckCooldown, CheckCooldownFails, Mail
  <2>3. CASE Refuse(w) \/ ReplyLost(w) \/ Mark(w) \/ MarkFails(w)
    <3>1. "failed" \in Terminal /\ "sent" \in Terminal
      BY DEF Terminal
    <3> QED BY <2>3, <3>1, ReturnTypes DEF Refuse, ReplyLost, Mark, MarkFails
  <2>4. CASE Flush(w)
    BY <2>4 DEF Flush, WorkTypes, Pc
  <2> QED BY <1>2, <2>1, <2>2, <2>3, <2>4 DEF WorkerStep
<1>3. CASE Tick
  BY <1>3, TimeAssumption DEF Tick, WorkTypes
<1> QED
  BY <1>0, <1>1, <1>2, <1>3
  DEF Next, vars, CreateCampaign, Retry, CreateDelivery, Publish, PublishLost, Redeliver,
      Unsubscribe, Toggle

LEMMA RowTypesStep ==
  TypeOK /\ WorkerHasJob /\ OutcomeIsTrue /\ [Next]_vars =>
    /\ status' \in [Item -> {"none", "queued"} \cup Terminal]
    /\ campaign' \in [Campaign -> {"none", "in_progress", "done"}]
    /\ rows' \subseteq Customer /\ optedOut' \subseteq rows' /\ refused' \subseteq Customer
    /\ mailed' \subseteq Item
<1> DEFINE RowTypes ==
  /\ status \in [Item -> {"none", "queued"} \cup Terminal]
  /\ campaign \in [Campaign -> {"none", "in_progress", "done"}]
  /\ rows \subseteq Customer /\ optedOut \subseteq rows /\ refused \subseteq Customer
  /\ mailed \subseteq Item
<1> SUFFICES ASSUME TypeOK, RowTypes, WorkerHasJob, OutcomeIsTrue, [Next]_vars PROVE RowTypes'
  BY DEF TypeOK
<1>1. ASSUME NEW k \in Campaign, CreateCampaign(k) PROVE RowTypes'
  <2>1. status' \in [Item -> {"none", "queued"} \cup Terminal]
    BY <1>1 DEF CreateCampaign, Terminal
  <2> QED BY <1>1, <2>1 DEF CreateCampaign, optVars, mailVars
<1>2. ASSUME NEW i \in Item, CreateDelivery(i) PROVE RowTypes'
  BY <1>2 DEF CreateDelivery, Terminal, optVars, mailVars
<1>3. ASSUME NEW c \in Customer, Unsubscribe(c) \/ Toggle(c) PROVE RowTypes'
  BY <1>3 DEF Unsubscribe, Toggle, RaiseFlag, mailVars
<1>4. ASSUME NEW w \in Worker, WorkerStep(w) PROVE RowTypes'
  <2>1. CASE SaveDelivery(w) \/ Commit(w)
    <3>1. outcome[w] \in Terminal
      BY <2>1 DEF SaveDelivery, Commit, OutcomeIsTrue
    <3>2. status' \in [Item -> {"none", "queued"} \cup Terminal]
      BY <2>1, <3>1 DEF SaveDelivery, Commit
    <3> QED BY <2>1, <3>2 DEF SaveDelivery, Commit, optVars, mailVars
  <2>2. CASE RaiseMarked(w)
    BY <2>2 DEF RaiseMarked, optVars, mailVars, Terminal
  <2>3. CASE Mail(w)
    <3>1. job[w] \in Item
      BY <2>3 DEF Mail, WorkerHasJob
    <3> QED BY <2>3, <3>1 DEF Mail, optVars, rowVars
  <2>4. CASE UNCHANGED <<rowVars, optVars, mailVars>>
    BY <2>4 DEF rowVars, optVars, mailVars
  <2> QED
    BY <1>4, <2>1, <2>2, <2>3, <2>4
    DEF WorkerStep, Load, CheckOptOut, CheckCooldown, CheckCooldownFails, Refuse, ReplyLost,
        Mark, MarkFails, Flush, RaiseUnmarked, WorkerLost, TimeLimitKill
<1>5. CASE Tick
  BY <1>5 DEF Tick, rowVars
<1>6. CASE UNCHANGED <<rowVars, optVars, mailVars>>
  BY <1>6 DEF rowVars, optVars, mailVars
<1> QED
  BY <1>1, <1>2, <1>3, <1>4, <1>5, <1>6
  DEF Next, vars, Retry, Publish, PublishLost, Redeliver, Deliver

LEMMA BusTypesStep ==
  TypeOK /\ WorkerHasJob /\ [Next]_vars =>
    unpublished' \subseteq Item /\ queue' \in [Item -> Nat]
<1> DEFINE BusTypes == unpublished \subseteq Item /\ queue \in [Item -> Nat]
<1> SUFFICES ASSUME BusTypes, WorkerHasJob, [Next]_vars PROVE BusTypes'
  BY DEF TypeOK
<1>1. ASSUME NEW k \in Campaign, CreateCampaign(k) \/ Retry(k) PROVE BusTypes'
  BY <1>1 DEF CreateCampaign, Retry, Members
<1>2. ASSUME NEW i \in Item, CreateDelivery(i) PROVE BusTypes'
  BY <1>2 DEF CreateDelivery
<1>3. ASSUME NEW i \in Item, Publish(i) \/ PublishLost(i) \/ Redeliver(i) PROVE BusTypes'
  BY <1>3 DEF Publish, PublishLost, Redeliver, Enqueue
<1>4. ASSUME NEW w \in Worker, NEW i \in Item, Deliver(w, i) PROVE BusTypes'
  BY <1>4 DEF Deliver
<1>5. ASSUME NEW w \in Worker, WorkerLost(w) PROVE BusTypes'
  <2>1. job[w] \in Item
    BY <1>5 DEF WorkerLost, WorkerHasJob
  <2> QED BY <1>5, <2>1 DEF WorkerLost
<1>6. CASE UNCHANGED busVars
  BY <1>6 DEF busVars
<1> QED
  BY <1>1, <1>2, <1>3, <1>4, <1>5, <1>6
  DEF Next, vars, Unsubscribe, Toggle, Tick, WorkerStep, Load, CheckOptOut, CheckCooldown,
      CheckCooldownFails, Refuse, Mail, ReplyLost, Mark, MarkFails, SaveDelivery, Flush, Commit,
      RaiseMarked, RaiseUnmarked, TimeLimitKill

LEMMA ClockTypesStep ==
  TypeOK /\ WorkerHasJob /\ [Next]_vars =>
    /\ sinceOptOut' \in [Customer -> 0..OptCap]
    /\ key' \in [Customer -> 0..Cooldown]
    /\ secret' \in BOOLEAN
    /\ sinceMail' \in [Customer -> 0..MailCap]
    /\ lapsed' \subseteq Customer
<1> DEFINE ClockTypes ==
  /\ sinceOptOut \in [Customer -> 0..OptCap]
  /\ key \in [Customer -> 0..Cooldown]
  /\ secret \in BOOLEAN
  /\ sinceMail \in [Customer -> 0..MailCap]
  /\ lapsed \subseteq Customer
<1> SUFFICES ASSUME ClockTypes, WorkerHasJob, [Next]_vars PROVE ClockTypes'
  BY DEF TypeOK
<1> USE CapTypes
<1>1. ASSUME NEW c \in Customer, Unsubscribe(c) \/ Toggle(c) PROVE ClockTypes'
  <2>1. sinceOptOut' \in [Customer -> 0..OptCap]
    BY <1>1 DEF Unsubscribe, Toggle, RaiseFlag
  <2> QED BY <1>1, <2>1 DEF Unsubscribe, Toggle, mailVars, coolVars
<1>2. ASSUME NEW w \in Worker, WorkerStep(w), UNCHANGED optVars, UNCHANGED mailVars PROVE ClockTypes'
  <2>1. key' \in [Customer -> 0..Cooldown] /\ lapsed' \subseteq Customer
    <3>1. CASE UNCHANGED coolVars
      BY <3>1 DEF coolVars
    <3>2. CASE CheckCooldownFails(w) \/ ReplyLost(w) \/ MarkFails(w) \/ WorkerLost(w) \/ TimeLimitKill(w)
      <4>1. pc[w] # "idle"
        BY <3>2 DEF CheckCooldownFails, ReplyLost, MarkFails, WorkerLost, TimeLimitKill
      <4> QED BY <3>2, <4>1, ToWhomType
              DEF CheckCooldownFails, ReplyLost, MarkFails, WorkerLost, TimeLimitKill, Forget
    <3>3. CASE Mark(w)
      <4>1. Cooldown \in 0..Cooldown
        OBVIOUS
      <4>2. key' = [key EXCEPT ![ToWhom(w)] = Cooldown] /\ lapsed' = lapsed
        BY <3>3 DEF Mark
      <4> QED BY <4>1, <4>2
    <3> QED
      BY <1>2, <3>1, <3>2, <3>3
      DEF WorkerStep, Load, CheckOptOut, CheckCooldown, Refuse, Mail, SaveDelivery, Flush, Commit,
          RaiseMarked, RaiseUnmarked
  <2> QED BY <1>2, <2>1 DEF optVars, mailVars
<1>3. ASSUME NEW w \in Worker, Mail(w) PROVE ClockTypes'
  <2>1. sinceMail' = [sinceMail EXCEPT ![ToWhom(w)] = 0]
    BY <1>3 DEF Mail
  <2>2. 0 \in 0..MailCap
    OBVIOUS
  <2>3. sinceMail' \in [Customer -> 0..MailCap]
    BY <2>1, <2>2
  <2> QED BY <1>3, <2>3 DEF Mail, optVars, coolVars
<1>4. CASE Tick
  <2>1. sinceOptOut' \in [Customer -> 0..OptCap] /\ sinceMail' \in [Customer -> 0..MailCap]
    BY <1>4, OlderRange DEF Tick
  <2>2. key' \in [Customer -> 0..Cooldown]
    BY <1>4, TimeAssumption DEF Tick
  <2> QED BY <1>4, <2>1, <2>2 DEF Tick
<1>5. CASE UNCHANGED <<optVars, mailVars, coolVars>>
  BY <1>5 DEF optVars, mailVars, coolVars
<1> QED
  BY <1>1, <1>2, <1>3, <1>4, <1>5
  DEF Next, vars, CreateCampaign, CreateDelivery, Retry, Publish, PublishLost, Redeliver, Deliver,
      WorkerStep, Load, CheckOptOut, CheckCooldown, CheckCooldownFails, Refuse, ReplyLost, Mark,
      MarkFails, SaveDelivery, Flush, Commit, RaiseMarked, RaiseUnmarked, WorkerLost, TimeLimitKill

LEMMA TypeStep == TypeOK /\ WorkerHasJob /\ OutcomeIsTrue /\ [Next]_vars => TypeOK'
<1> SUFFICES ASSUME TypeOK, WorkerHasJob, OutcomeIsTrue, [Next]_vars PROVE TypeOK'
  OBVIOUS
<1>1. WorkTypes'
  BY WorkTypesStep DEF TypeOK, WorkTypes
<1> QED BY <1>1, RowTypesStep, BusTypesStep, ClockTypesStep, CapTypes DEF TypeOK, WorkTypes, OptCap, MailCap

(* What a step of one worker leaves alone.                                   *)

LEMMA OthersStay ==
  ASSUME TypeOK, NEW w \in Worker, WorkerStep(w), NEW v \in Worker, v # w
  PROVE  /\ pc'[v] = pc[v] /\ job'[v] = job[v] /\ busy'[v] = busy[v]
         /\ outcome'[v] = outcome[v] /\ last'[v] = last[v]
<1>1. WorkTypes
  BY DEF TypeOK, WorkTypes
<1> QED
  BY <1>1
  DEF WorkTypes, WorkerStep, Load, CheckOptOut, CheckCooldown, CheckCooldownFails, Mail, Refuse,
      ReplyLost, Mark, MarkFails, SaveDelivery, Flush, Commit, RaiseMarked, RaiseUnmarked,
      WorkerLost, TimeLimitKill, Release, Goto, Return

\* A step of a worker ends its task or goes on with the same job.
LEMMA OwnJob ==
  ASSUME TypeOK, NEW w \in Worker, WorkerStep(w)
  PROVE  /\ pc[w] # "idle"
         /\ \/ pc'[w] = "idle" /\ job'[w] = NoItem
            \/ pc'[w] # "idle" /\ job'[w] = job[w] /\ busy'[w] = busy[w]
<1>1. WorkTypes
  BY DEF TypeOK, WorkTypes
<1> QED
  BY <1>1
  DEF WorkTypes, WorkerStep, Load, CheckOptOut, CheckCooldown, CheckCooldownFails, Mail, Refuse,
      ReplyLost, Mark, MarkFails, SaveDelivery, Flush, Commit, RaiseMarked, RaiseUnmarked,
      WorkerLost, TimeLimitKill, Release, Goto, Return

LEMMA DeliverShape ==
  ASSUME TypeOK, NEW w \in Worker, NEW i \in Item, Deliver(w, i)
  PROVE  /\ pc'[w] = "load" /\ job'[w] = i
         /\ \A v \in Worker : v # w => pc'[v] = pc[v] /\ job'[v] = job[v]
         /\ UNCHANGED <<busy, outcome, last>>
  BY DEF TypeOK, Deliver

\* The steps of the backend and of the publishers leave the workers alone.
LEMMA BackendStep ==
  ASSUME [Next]_vars
  PROVE  \/ UNCHANGED workVars
         \/ \E w \in Worker, i \in Item : Deliver(w, i)
         \/ \E w \in Worker : WorkerStep(w)
         \/ Tick
  BY DEF Next, vars, CreateCampaign, Retry, CreateDelivery, Publish, PublishLost, Redeliver,
         Unsubscribe, Toggle

LEMMA HasJobStep == TypeOK /\ WorkerHasJob /\ [Next]_vars => WorkerHasJob'
<1> SUFFICES ASSUME TypeOK, WorkerHasJob, [Next]_vars, NEW v \in Worker, pc'[v] # "idle"
             PROVE  job'[v] \in Item
  BY DEF WorkerHasJob
<1>1. CASE UNCHANGED workVars \/ Tick
  BY <1>1 DEF workVars, Tick, WorkerHasJob
<1>2. ASSUME NEW w \in Worker, NEW i \in Item, Deliver(w, i) PROVE job'[v] \in Item
  BY <1>2, DeliverShape DEF WorkerHasJob
<1>3. ASSUME NEW w \in Worker, WorkerStep(w) PROVE job'[v] \in Item
  BY <1>3, OthersStay, OwnJob DEF WorkerHasJob
<1> QED BY <1>1, <1>2, <1>3, BackendStep

(* No false success.                                                         *)

LEMMA OutcomeStep == TypeOK /\ WorkerHasJob /\ OutcomeIsTrue /\ [Next]_vars => OutcomeIsTrue'
<1> DEFINE True(v) ==
  /\ pc[v] = "mark" => job[v] \in mailed
  /\ pc[v] \in {"save", "commit"} =>
       outcome[v] \in Terminal /\ (outcome[v] = "sent" => job[v] \in mailed)
<1> SUFFICES ASSUME TypeOK, WorkerHasJob, OutcomeIsTrue, [Next]_vars, NEW v \in Worker
             PROVE  True(v)'
  BY DEF OutcomeIsTrue
<1>0. True(v)
  BY DEF OutcomeIsTrue
<1>1. CASE UNCHANGED workVars \/ Tick
  <2>1. mailed \subseteq mailed'
    BY <1>1
    DEF Next, vars, workVars, mailVars, Tick, CreateCampaign, Retry, CreateDelivery, Publish,
        PublishLost, Redeliver, Unsubscribe, Toggle, Deliver, WorkerStep, Load, CheckOptOut,
        CheckCooldown, CheckCooldownFails, Mail, Refuse, ReplyLost, Mark, MarkFails,
        SaveDelivery, Flush, Commit, RaiseMarked, RaiseUnmarked, WorkerLost, TimeLimitKill
  <2> QED BY <1>0, <1>1, <2>1 DEF workVars, Tick
<1>2. ASSUME NEW w \in Worker, NEW i \in Item, Deliver(w, i) PROVE True(v)'
  <2>1. UNCHANGED mailed
    BY <1>2 DEF Deliver, mailVars
  <2> QED BY <1>0, <1>2, <2>1, DeliverShape
<1>3. ASSUME NEW w \in Worker, WorkerStep(w) PROVE True(v)'
  <2>1. mailed \subseteq mailed'
    BY <1>3
    DEF mailVars, WorkerStep, Load, CheckOptOut, CheckCooldown, CheckCooldownFails, Mail, Refuse,
        ReplyLost, Mark, MarkFails, SaveDelivery, Flush, Commit, RaiseMarked, RaiseUnmarked,
        WorkerLost, TimeLimitKill
  <2>2. CASE v # w
    <3>1. pc'[v] = pc[v] /\ job'[v] = job[v] /\ outcome'[v] = outcome[v]
      BY <1>3, <2>2, OthersStay
    <3> QED BY <1>0, <2>1, <3>1
  <2>3. CASE v = w
    <3> WorkTypes
      BY DEF TypeOK, WorkTypes
    <3>1. CASE Mail(v)
      BY <3>1 DEF Mail, Goto, WorkTypes
    <3>2. CASE Mark(v) \/ MarkFails(v)
      BY <1>0, <3>2 DEF Mark, MarkFails, Return, WorkTypes, Terminal, mailVars
    <3>3. CASE Refuse(v) \/ ReplyLost(v) \/ CheckOptOut(v) \/ CheckCooldown(v)
      BY <3>3 DEF Refuse, ReplyLost, CheckOptOut, CheckCooldown, Return, Goto, WorkTypes, Terminal
    <3>4. CASE Flush(v)
      BY <1>0, <3>4 DEF Flush, WorkTypes, mailVars
    <3>5. CASE Load(v) \/ CheckCooldownFails(v)
      BY <3>5 DEF Load, CheckCooldownFails, Goto, Release, WorkTypes
    <3>6. CASE \/ SaveDelivery(v) \/ Commit(v) \/ RaiseMarked(v) \/ RaiseUnmarked(v)
               \/ WorkerLost(v) \/ TimeLimitKill(v)
      BY <3>6
      DEF SaveDelivery, Commit, RaiseMarked, RaiseUnmarked, WorkerLost, TimeLimitKill, Release,
          WorkTypes
    <3> QED BY <1>3, <2>3, <3>1, <3>2, <3>3, <3>4, <3>5, <3>6 DEF WorkerStep
  <2> QED BY <2>2, <2>3
<1> QED BY <1>1, <1>2, <1>3, BackendStep

\* Who writes a status and what: once a row exists it never loses an outcome,
\* and it is called sent only by a task whose mail has left.
LEMMA StatusStep ==
  ASSUME TypeOK, WorkerHasJob, OutcomeIsTrue, SentMeansMailed, [Next]_vars, NEW i \in Item
  PROVE  /\ status'[i] = "sent" => i \in mailed'
         /\ status'[i] = "none" => status[i] = "none"
         /\ (status[i] \in Terminal /\ (i \in Recipient => campaign[CampaignOf[i]] # "none"))
              => status'[i] \in Terminal
<1> DEFINE Result ==
  /\ status'[i] = "sent" => i \in mailed'
  /\ status'[i] = "none" => status[i] = "none"
  /\ (status[i] \in Terminal /\ (i \in Recipient => campaign[CampaignOf[i]] # "none"))
       => status'[i] \in Terminal
<1>0. /\ status \in [Item -> {"none", "queued"} \cup Terminal]
      /\ status[i] = "sent" => i \in mailed
  BY DEF TypeOK, SentMeansMailed
<1> HIDE DEF Result
<1>1. ASSUME status' = status, mailed \subseteq mailed' PROVE Result
  BY <1>0, <1>1 DEF Result
<1>2. ASSUME NEW k \in Campaign, CreateCampaign(k) PROVE Result
  <2>1. CampaignOf[i] = k => i \in Recipient
    BY DataAssumption DEF Recipient
  <2>2. mailed' = mailed /\ campaign[k] = "none"
    BY <1>2 DEF CreateCampaign, mailVars
  <2>3. PICK sendable \in SUBSET Members(k) :
          status' = [j \in Item |-> IF j \in sendable THEN "queued"
                                    ELSE IF j \in Members(k) THEN "skipped" ELSE status[j]]
    BY <1>2 DEF CreateCampaign
  <2>4. CASE i \in Members(k)
    BY <2>1, <2>2, <2>3, <2>4 DEF Result, Members
  <2>5. CASE i \notin Members(k)
    BY <1>0, <2>2, <2>3, <2>5 DEF Result
  <2> QED BY <2>4, <2>5
<1>3. ASSUME NEW j \in Item, CreateDelivery(j) PROVE Result
  BY <1>0, <1>3 DEF Result, CreateDelivery, mailVars, Terminal
<1>4. ASSUME NEW w \in Worker, NEW new \in Terminal, job[w] \in Item, mailed' = mailed,
             new = "sent" => job[w] \in mailed, status' = [status EXCEPT ![job[w]] = new]
      PROVE  Result
  <2>1. CASE i = job[w]
    BY <1>0, <1>4, <2>1 DEF Result, Terminal
  <2>2. CASE i # job[w]
    BY <1>0, <1>4, <2>2 DEF Result
  <2> QED BY <2>1, <2>2
<1>5. ASSUME NEW w \in Worker, SaveDelivery(w) \/ Commit(w) PROVE Result
  <2>1. /\ outcome[w] \in Terminal /\ job[w] \in Item
        /\ outcome[w] = "sent" => job[w] \in mailed
    BY <1>5 DEF SaveDelivery, Commit, OutcomeIsTrue, WorkerHasJob
  <2>2. mailed' = mailed /\ status' = [status EXCEPT ![job[w]] = outcome[w]]
    BY <1>5 DEF SaveDelivery, Commit, mailVars
  <2> QED BY <2>1, <2>2, <1>4
<1>6. ASSUME NEW w \in Worker, RaiseMarked(w) PROVE Result
  <2>1. job[w] \in Item /\ "failed" \in Terminal
    BY <1>6 DEF RaiseMarked, WorkerHasJob, Terminal
  <2>2. mailed' = mailed /\ status' = [status EXCEPT ![job[w]] = "failed"]
    BY <1>6 DEF RaiseMarked, mailVars
  <2> QED BY <2>1, <2>2, <1>4
<1> QED
  BY <1>1, <1>2, <1>3, <1>5, <1>6
  DEF Result, Next, vars, rowVars, mailVars, Retry, Publish, PublishLost, Redeliver, Unsubscribe,
      Toggle, Deliver, Tick, WorkerStep, Load, CheckOptOut, CheckCooldown, CheckCooldownFails,
      Mail, Refuse, ReplyLost, Mark, MarkFails, Flush, RaiseUnmarked, WorkerLost, TimeLimitKill

\* Only its creation and the last commit write a campaign.
LEMMA CampaignStep ==
  ASSUME TypeOK, [Next]_vars, NEW k \in Campaign
  PROVE  /\ campaign[k] # "none" => campaign'[k] # "none"
         /\ \/ campaign'[k] = campaign[k]
            \/ CreateCampaign(k)
            \/ \E w \in Worker : Commit(w) /\ last[w] /\ CampaignOf[job[w]] = k
<1> DEFINE Result ==
  /\ campaign[k] # "none" => campaign'[k] # "none"
  /\ \/ campaign'[k] = campaign[k]
     \/ CreateCampaign(k)
     \/ \E w \in Worker : Commit(w) /\ last[w] /\ CampaignOf[job[w]] = k
<1>0. campaign \in [Campaign -> {"none", "in_progress", "done"}]
  BY DEF TypeOK
<1>1. CASE UNCHANGED campaign
  BY <1>1
<1>2. ASSUME NEW c \in Campaign, CreateCampaign(c) PROVE Result
  <2>1. campaign[c] = "none"
    BY <1>2 DEF CreateCampaign
  <2>2. \A d \in Campaign : d # c => campaign'[d] = campaign[d]
    BY <1>0, <1>2 DEF CreateCampaign
  <2> QED BY <1>2, <2>1, <2>2
<1>3. ASSUME NEW w \in Worker, Commit(w) PROVE Result
  <2>1. CASE last[w] /\ CampaignOf[job[w]] = k
    <3>1. campaign'[k] = "done"
      BY <1>0, <1>3, <2>1 DEF Commit
    <3> QED BY <1>3, <2>1, <3>1
  <2>2. CASE ~(last[w] /\ CampaignOf[job[w]] = k)
    BY <1>0, <1>3, <2>2 DEF Commit
  <2> QED BY <2>1, <2>2
<1> QED
  BY <1>1, <1>2, <1>3
  DEF Next, vars, rowVars, CreateDelivery, Retry, Publish, PublishLost, Redeliver, Unsubscribe,
      Toggle, Deliver, Tick, WorkerStep, Load, CheckOptOut, CheckCooldown, CheckCooldownFails,
      Mail, Refuse, ReplyLost, Mark, MarkFails, SaveDelivery, Flush, RaiseMarked, RaiseUnmarked,
      WorkerLost, TimeLimitKill

(* Campaigns: what a task counted stays true until it commits.               *)

Basics ==
  TypeOK /\ WorkerHasJob /\ OutcomeIsTrue /\ SentMeansMailed /\ AskedIsCreated /\ CreatedHasRows

LEMMA JobIsCreated ==
  ASSUME Basics, NEW w \in Worker, pc[w] # "idle", job[w] \in Recipient
  PROVE  CampaignOf[job[w]] \in Campaign /\ campaign[CampaignOf[job[w]]] # "none"
  BY DataAssumption DEF Basics, AskedIsCreated, Asked, Recipient

LEMMA MemberIsRecipient ==
  ASSUME NEW k \in Campaign, NEW i \in Members(k)
  PROVE  i \in Recipient /\ CampaignOf[i] = k
  BY DataAssumption DEF Members, Recipient

LEMMA CreatedStep == Basics /\ [Next]_vars => CreatedHasRows'
<1> SUFFICES ASSUME Basics, [Next]_vars,
                    NEW k \in Campaign, campaign'[k] # "none", NEW i \in Members(k)
             PROVE  status'[i] # "none"
  BY DEF CreatedHasRows, Members
<1>0. i \in Item /\ CampaignOf[i] = k
  BY DEF Members
<1>1. CASE campaign[k] # "none"
  BY <1>0, <1>1, StatusStep DEF Basics, CreatedHasRows
<1>2. CASE CreateCampaign(k)
  BY <1>0, <1>2 DEF CreateCampaign
<1>3. CASE campaign[k] = "none" /\ ~CreateCampaign(k)
  <2>1. PICK w \in Worker : Commit(w) /\ CampaignOf[job[w]] = k
    BY <1>3, CampaignStep DEF Basics
  <2>2. pc[w] # "idle" /\ job[w] \in Item
    BY <2>1 DEF Commit, Basics, WorkerHasJob
  <2>3. job[w] \in Recipient
    BY <2>1, <2>2, MemberIsRecipient DEF Members
  <2> QED BY <1>3, <2>1, <2>2, <2>3, JobIsCreated
<1> QED BY <1>1, <1>2, <1>3

LEMMA AskedStep == Basics /\ [Next]_vars => AskedIsCreated'
<1> SUFFICES ASSUME Basics, [Next]_vars, NEW i \in Recipient, Asked(i)'
             PROVE  campaign'[CampaignOf[i]] # "none"
  BY DEF AskedIsCreated, Recipient
<1> DEFINE k == CampaignOf[i]
<1>0. i \in Item /\ k \in Campaign
  BY DataAssumption DEF Recipient
<1>1. CASE Asked(i)
  BY <1>0, <1>1, CampaignStep DEF Basics, AskedIsCreated
<1>2. ASSUME NEW c \in Campaign, CreateCampaign(c) PROVE campaign'[k] # "none" \/ Asked(i)
  <2>1. CASE c = k
    BY <1>0, <1>2, <2>1 DEF CreateCampaign, Basics, TypeOK
  <2>2. CASE c # k
    BY <1>2, <2>2 DEF CreateCampaign, Asked, workVars, Members
  <2> QED BY <2>1, <2>2
<1>3. ASSUME NEW c \in Campaign, Retry(c) PROVE campaign'[k] # "none" \/ Asked(i)
  BY <1>0, <1>3 DEF Retry, Asked, Members, rowVars, workVars
<1>4. ASSUME NEW j \in Item, CreateDelivery(j) PROVE Asked(i)
  BY <1>4 DEF CreateDelivery, Asked, Delivery, workVars
<1>5. ASSUME NEW j \in Item, Publish(j) \/ PublishLost(j) PROVE Asked(i)
  <2>1. UNCHANGED job /\ unpublished' \subseteq unpublished /\ j \in unpublished
    BY <1>5 DEF Publish, PublishLost, workVars
  <2>2. queue'[i] = queue[i] \/ i = j
    BY <1>0, <1>5 DEF Publish, PublishLost, Enqueue, Basics, TypeOK
  <2> QED BY <2>1, <2>2 DEF Asked
<1>6. ASSUME NEW j \in Item, Redeliver(j) PROVE Asked(i)
  <2>1. queue[j] > 0 \/ {w \in Worker : job[w] = j} # {}
    <3>1. queue[j] \in Nat /\ queue[j] + Cardinality({w \in Worker : job[w] = j}) > 0
      BY <1>6 DEF Redeliver, InFlight, Basics, TypeOK
    <3>2. ASSUME {w \in Worker : job[w] = j} = {} PROVE queue[j] > 0
      <4>1. Cardinality({w \in Worker : job[w] = j}) = 0
        BY <3>2, FS_EmptySet
      <4> QED BY <3>1, <4>1
    <3> QED BY <3>2
  <2>2. queue'[i] = queue[i] \/ i = j
    BY <1>0, <1>6 DEF Redeliver, Enqueue, Basics, TypeOK
  <2>3. UNCHANGED <<unpublished, job>>
    BY <1>6 DEF Redeliver, workVars
  <2> QED BY <2>1, <2>2, <2>3 DEF Asked
<1>7. ASSUME NEW w \in Worker, NEW j \in Item, Deliver(w, j) PROVE Asked(i)
  <2>1. unpublished' = unpublished /\ queue'[i] <= queue[i] /\ queue[j] > 0
    BY <1>0, <1>7 DEF Deliver, Basics, TypeOK
  <2>2. queue'[i] > 0 => queue[i] > 0
    BY <1>0, <1>7, <2>1 DEF Basics, TypeOK, Deliver
  <2>3. \A v \in Worker : job'[v] = i => job[v] = i \/ i = j
    BY <1>7, DeliverShape DEF Basics
  <2> QED BY <2>1, <2>2, <2>3 DEF Asked
<1>8. ASSUME NEW w \in Worker, WorkerStep(w) PROVE Asked(i)
  <2>1. unpublished' = unpublished
    BY <1>8
    DEF busVars, WorkerStep, Load, CheckOptOut, CheckCooldown, CheckCooldownFails, Mail, Refuse,
        ReplyLost, Mark, MarkFails, SaveDelivery, Flush, Commit, RaiseMarked, RaiseUnmarked,
        WorkerLost, TimeLimitKill
  <2>2. queue' = queue \/ queue' = [queue EXCEPT ![job[w]] = @ + 1]
    BY <1>8
    DEF busVars, WorkerStep, Load, CheckOptOut, CheckCooldown, CheckCooldownFails, Mail, Refuse,
        ReplyLost, Mark, MarkFails, SaveDelivery, Flush, Commit, RaiseMarked, RaiseUnmarked,
        WorkerLost, TimeLimitKill
  <2>3. queue'[i] = queue[i] \/ job[w] = i
    BY <1>0, <2>2 DEF Basics, TypeOK
  <2>4. \A v \in Worker : job'[v] = i => job[v] = i
    BY <1>0, <1>8, OwnJob, OthersStay, DataAssumption DEF Basics
  <2> QED BY <2>1, <2>3, <2>4 DEF Asked
<1>9. ASSUME UNCHANGED <<unpublished, queue, job>> PROVE Asked(i)
  BY <1>9 DEF Asked
<1> QED
  BY <1>1, <1>2, <1>3, <1>4, <1>5, <1>6, <1>7, <1>8, <1>9
  DEF Next, vars, busVars, workVars, Unsubscribe, Toggle, Tick

LEMMA LastStep == Basics /\ LastIsLast /\ [Next]_vars => LastIsLast'
<1> SUFFICES ASSUME Basics, LastIsLast, [Next]_vars, NEW v \in Worker, pc'[v] = "commit"
             PROVE  /\ job'[v] \in Recipient
                    /\ last'[v] => \A i \in Members(CampaignOf[job'[v]]) \ {job'[v]} :
                                     status'[i] \in Terminal
  BY DEF LastIsLast, Members, Recipient
<1>0. TypeOK /\ WorkerHasJob
  BY DEF Basics
<1>1. ASSUME pc[v] = "commit", job'[v] = job[v], last'[v] = last[v]
      PROVE  /\ job'[v] \in Recipient
             /\ last'[v] => \A i \in Members(CampaignOf[job'[v]]) \ {job'[v]} :
                              status'[i] \in Terminal
  <2>1. job[v] \in Recipient
    BY <1>1 DEF LastIsLast
  <2>2. SUFFICES ASSUME last[v], NEW i \in Members(CampaignOf[job[v]]), i # job[v]
                 PROVE  status'[i] \in Terminal
    BY <1>1, <2>1
  <2>3. status[i] \in Terminal
    BY <1>1, <2>2 DEF LastIsLast
  <2>4. campaign[CampaignOf[i]] # "none" /\ i \in Item
    BY <1>1, <2>1, <2>2, JobIsCreated DEF Members
  <2> QED BY <2>3, <2>4, StatusStep DEF Basics
<1>2. CASE UNCHANGED workVars \/ Tick
  BY <1>1, <1>2 DEF workVars, Tick
<1>3. ASSUME NEW w \in Worker, NEW i \in Item, Deliver(w, i)
      PROVE  pc[v] = "commit" /\ job'[v] = job[v] /\ last'[v] = last[v]
  BY <1>0, <1>3, DeliverShape
<1>4. ASSUME NEW w \in Worker, WorkerStep(w), v # w
      PROVE  pc[v] = "commit" /\ job'[v] = job[v] /\ last'[v] = last[v]
  BY <1>0, <1>4, OthersStay
<1>5. ASSUME WorkerStep(v)
      PROVE  /\ job'[v] \in Recipient
             /\ last'[v] => \A i \in Members(CampaignOf[job'[v]]) \ {job'[v]} :
                              status'[i] \in Terminal
  <2>1. Flush(v)
    BY <1>0, <1>5
    DEF TypeOK, WorkerStep, Load, CheckOptOut, CheckCooldown, CheckCooldownFails, Mail, Refuse,
        ReplyLost, Mark, MarkFails, SaveDelivery, Flush, Commit, RaiseMarked, RaiseUnmarked,
        WorkerLost, TimeLimitKill, Release, Goto, Return
  <2>2. job[v] \in Recipient /\ job'[v] = job[v] /\ status' = status /\ pc[v] = "save"
    BY <2>1 DEF Flush, rowVars
  <2>3. SUFFICES ASSUME last'[v], NEW i \in Members(CampaignOf[job[v]]), i # job[v]
                 PROVE  status[i] \in Terminal
    BY <2>2
  <2>4. Pending(CampaignOf[job[v]], job[v]) = {}
    BY <1>0, <2>1, <2>3 DEF Flush, TypeOK
  <2>5. status[i] # "queued"
    BY <2>3, <2>4 DEF Pending
  <2>6. status[i] # "none"
    BY <2>2, <2>3, JobIsCreated DEF Basics, CreatedHasRows
  <2> QED BY <1>0, <2>3, <2>5, <2>6 DEF TypeOK, Members
<1> QED BY <1>1, <1>2, <1>3, <1>4, <1>5, BackendStep

LEMMA DoneStep == Basics /\ LastIsLast /\ DoneMeansSettled /\ [Next]_vars => DoneMeansSettled'
<1> SUFFICES ASSUME Basics, LastIsLast, DoneMeansSettled, [Next]_vars,
                    NEW k \in Campaign, campaign'[k] = "done", NEW i \in Members(k)
             PROVE  status'[i] \in Terminal
  BY DEF DoneMeansSettled, Members
<1>0. i \in Item /\ CampaignOf[i] = k
  BY DEF Members
<1>1. CASE campaign[k] = "done"
  BY <1>0, <1>1, StatusStep DEF Basics, DoneMeansSettled
<1>2. CASE CreateCampaign(k)
  BY <1>0, <1>2 DEF CreateCampaign, Terminal, Basics, TypeOK
<1>3. ASSUME NEW w \in Worker, Commit(w), last[w], CampaignOf[job[w]] = k
      PROVE  status'[i] \in Terminal
  <2>1. outcome[w] \in Terminal /\ job[w] \in Item
    BY <1>3 DEF Commit, Basics, OutcomeIsTrue, WorkerHasJob
  <2>2. CASE i = job[w]
    BY <1>3, <2>1, <2>2 DEF Commit, Basics, TypeOK
  <2>3. CASE i # job[w]
    <3>1. status[i] \in Terminal
      BY <1>3, <2>3 DEF Commit, LastIsLast
    <3> QED BY <1>0, <1>3, <2>1, <2>3, <3>1 DEF Commit, Basics, TypeOK
  <2> QED BY <2>2, <2>3
<1> QED BY <1>1, <1>2, <1>3, CampaignStep DEF Basics

(* The cooldown: a mail is followed by its key.                              *)

LEMMA LapsedGrows == [Next]_vars => lapsed \subseteq lapsed'
  BY DEF Next, vars, coolVars, CreateCampaign, CreateDelivery, Retry, Publish, PublishLost,
         Redeliver, Unsubscribe, Toggle, Deliver, Tick, WorkerStep, Load, CheckOptOut,
         CheckCooldown, CheckCooldownFails, Mail, Refuse, ReplyLost, Mark, MarkFails,
         SaveDelivery, Flush, Commit, RaiseMarked, RaiseUnmarked, WorkerLost, TimeLimitKill, Forget

\* A step other than Mail, Mark and the clock leaves keys and mail ages alone.
LEMMA ClocksStay ==
  ASSUME [Next]_vars
  PROVE  \/ UNCHANGED <<key, sinceMail>>
         \/ Tick
         \/ \E w \in Worker : Mail(w) \/ Mark(w)
  BY DEF Next, vars, coolVars, mailVars, CreateCampaign, CreateDelivery, Retry, Publish,
         PublishLost, Redeliver, Unsubscribe, Toggle, Deliver, WorkerStep, Load, CheckOptOut,
         CheckCooldown, CheckCooldownFails, Refuse, ReplyLost, MarkFails,
         SaveDelivery, Flush, Commit, RaiseMarked, RaiseUnmarked, WorkerLost, TimeLimitKill

\* A task leaves "mark" by setting the key or by letting its customer lapse.
LEMMA LeavingMark ==
  ASSUME TypeOK, [Next]_vars, NEW w \in Worker, pc[w] = "mark"
  PROVE  \/ pc'[w] = "mark" /\ job'[w] = job[w]
         \/ Mark(w)
         \/ ToWhom(w) \in lapsed'
<1>1. CASE UNCHANGED workVars \/ Tick
  BY <1>1 DEF workVars, Tick
<1>2. ASSUME NEW v \in Worker, NEW i \in Item, Deliver(v, i)
      PROVE  pc'[w] = "mark" /\ job'[w] = job[w]
  <2>1. v # w
    BY <1>2 DEF Deliver
  <2> QED BY <1>2, <2>1, DeliverShape
<1>3. ASSUME NEW v \in Worker, WorkerStep(v), v # w
      PROVE  pc'[w] = "mark" /\ job'[w] = job[w]
  BY <1>3, OthersStay
<1>4. ASSUME WorkerStep(w) PROVE Mark(w) \/ ToWhom(w) \in lapsed'
  BY <1>4
  DEF WorkerStep, Load, CheckOptOut, CheckCooldown, CheckCooldownFails, Mail, Refuse, ReplyLost,
      MarkFails, SaveDelivery, Flush, Commit, RaiseMarked, RaiseUnmarked, WorkerLost,
      TimeLimitKill, Forget
<1> QED BY <1>1, <1>2, <1>3, <1>4, BackendStep

\* Only the clock and the end of a task change how long it has been busy.
LEMMA BusyStays ==
  ASSUME TypeOK, WorkerHasJob, [Next]_vars, NEW w \in Worker, pc[w] # "idle"
  PROVE  pc'[w] = "idle" \/ busy'[w] = busy[w] \/ Tick
<1>1. CASE UNCHANGED workVars
  BY <1>1 DEF workVars
<1>2. ASSUME NEW v \in Worker, NEW i \in Item, Deliver(v, i) PROVE busy'[w] = busy[w]
  BY <1>2, DeliverShape
<1>3. ASSUME NEW v \in Worker, WorkerStep(v) PROVE pc'[w] = "idle" \/ busy'[w] = busy[w]
  BY <1>3, OthersStay, OwnJob
<1> QED BY <1>1, <1>2, <1>3, BackendStep

LEMMA TickTimes ==
  ASSUME TypeOK, Tick
  PROVE  /\ \A c \in Customer :
              /\ sinceMail'[c] \in Nat /\ sinceMail'[c] <= sinceMail[c] + 1
              /\ key[c] + sinceMail[c] >= Cooldown => key'[c] + sinceMail'[c] >= Cooldown
              /\ sinceMail[c] >= Cooldown => sinceMail'[c] >= Cooldown
         /\ \A w \in Worker : pc[w] # "idle" => busy'[w] = busy[w] + 1
<1> USE CapTypes
<1>1. ASSUME NEW c \in Customer
      PROVE  /\ sinceMail'[c] \in Nat /\ sinceMail'[c] <= sinceMail[c] + 1
             /\ key[c] + sinceMail[c] >= Cooldown => key'[c] + sinceMail'[c] >= Cooldown
             /\ sinceMail[c] >= Cooldown => sinceMail'[c] >= Cooldown
  <2>1. sinceMail[c] \in 0..(Cooldown + 1) /\ key[c] \in 0..Cooldown
    BY DEF TypeOK, MailCap
  <2>2. sinceMail'[c] = IF sinceMail[c] < Cooldown + 1 THEN sinceMail[c] + 1 ELSE sinceMail[c]
    BY DEF Tick, Older, MailCap
  <2>3. key'[c] = IF key[c] > 0 THEN key[c] - 1 ELSE 0
    BY DEF Tick
  <2> QED BY <2>1, <2>2, <2>3
<1>2. ASSUME NEW w \in Worker, pc[w] # "idle" PROVE busy'[w] = busy[w] + 1
  BY <1>2 DEF Tick
<1> QED BY <1>1, <1>2

LEMMA KeyStep == TypeOK /\ WorkerHasJob /\ KeyCovers /\ [Next]_vars => KeyCovers'
<1> SUFFICES ASSUME TypeOK, WorkerHasJob, KeyCovers, [Next]_vars, NEW c \in Customer, c \notin lapsed'
             PROVE  \/ key'[c] + sinceMail'[c] >= Cooldown
                    \/ \E w \in Worker : pc'[w] = "mark" /\ ToWhom(w)' = c /\ sinceMail'[c] <= busy'[w]
  BY DEF KeyCovers
<1> DEFINE Goal ==
  \/ key'[c] + sinceMail'[c] >= Cooldown
  \/ \E w \in Worker : pc'[w] = "mark" /\ ToWhom(w)' = c /\ sinceMail'[c] <= busy'[w]
<1> USE CapTypes
<1>0. \/ key[c] + sinceMail[c] >= Cooldown
      \/ \E w \in Worker : pc[w] = "mark" /\ ToWhom(w) = c /\ sinceMail[c] <= busy[w]
  BY LapsedGrows DEF KeyCovers
<1>1. key[c] \in Nat /\ sinceMail[c] \in Nat /\ \A w \in Worker : busy[w] \in Nat
  BY DEF TypeOK, MailCap
<1>2. CASE Tick
  <2>1. CASE key[c] + sinceMail[c] >= Cooldown
    BY <1>2, <2>1, TickTimes
  <2>2. ASSUME NEW w \in Worker, pc[w] = "mark", ToWhom(w) = c, sinceMail[c] <= busy[w]
        PROVE  Goal
    <3>1. pc'[w] = "mark" /\ ToWhom(w)' = c
      BY <1>2, <2>2 DEF Tick, ToWhom
    <3>2. sinceMail'[c] <= busy'[w]
      BY <1>1, <1>2, <2>2, TickTimes
    <3> QED BY <3>1, <3>2
  <2> QED BY <1>0, <2>1, <2>2
<1>3. ASSUME NEW v \in Worker, Mail(v), ToWhom(v) = c PROVE Goal
  <2>1. pc'[v] = "mark" /\ ToWhom(v)' = c /\ busy'[v] = busy[v] /\ sinceMail'[c] = 0
    BY <1>3 DEF Mail, Goto, TypeOK, ToWhom
  <2> QED BY <1>1, <2>1
<1>4. ASSUME NEW v \in Worker, Mark(v), ToWhom(v) = c PROVE Goal
  <2>1. key'[c] = Cooldown /\ sinceMail' = sinceMail
    BY <1>4 DEF Mark, TypeOK, mailVars
  <2> QED BY <1>1, <2>1
<1>5. ASSUME ~Tick, \A v \in Worker : Mail(v) \/ Mark(v) => ToWhom(v) # c PROVE Goal
  <2>1. key'[c] = key[c] /\ sinceMail'[c] = sinceMail[c]
    <3>1. CASE UNCHANGED <<key, sinceMail>>
      BY <3>1
    <3>2. ASSUME NEW v \in Worker, Mail(v) \/ Mark(v)
          PROVE  key'[c] = key[c] /\ sinceMail'[c] = sinceMail[c]
      BY <1>5, <3>2 DEF Mail, Mark, TypeOK, mailVars, coolVars
    <3> QED BY <1>5, <3>1, <3>2, ClocksStay
  <2>2. ASSUME NEW w \in Worker, pc[w] = "mark", ToWhom(w) = c, sinceMail[c] <= busy[w]
        PROVE  Goal
    <3>1. pc'[w] = "mark" /\ job'[w] = job[w]
      BY <1>5, <2>2, LeavingMark
    <3>2. busy'[w] = busy[w]
      BY <1>5, <2>2, <3>1, BusyStays
    <3> QED BY <2>1, <2>2, <3>1, <3>2 DEF ToWhom
  <2> QED BY <1>0, <2>1, <2>2
<1> QED BY <1>2, <1>3, <1>4, <1>5

\* How a task gets to "send": it was there, or it passes the cooldown check.
LEMMA EnteringSend ==
  ASSUME TypeOK, [Next]_vars, NEW w \in Worker, pc'[w] = "send"
  PROVE  \/ pc[w] = "send" /\ job'[w] = job[w]
         \/ /\ CheckCooldown(w) \/ CheckCooldownFails(w)
            /\ pc[w] = "cooldown" /\ job'[w] = job[w] /\ busy'[w] = busy[w]
<1>1. CASE UNCHANGED workVars \/ Tick
  BY <1>1 DEF workVars, Tick
<1>2. ASSUME NEW v \in Worker, NEW i \in Item, Deliver(v, i)
      PROVE  pc[w] = "send" /\ job'[w] = job[w]
  BY <1>2, DeliverShape
<1>3. ASSUME NEW v \in Worker, WorkerStep(v), v # w
      PROVE  pc[w] = "send" /\ job'[w] = job[w]
  BY <1>3, OthersStay
<1>4. ASSUME WorkerStep(w)
      PROVE  /\ CheckCooldown(w) \/ CheckCooldownFails(w)
             /\ pc[w] = "cooldown" /\ job'[w] = job[w] /\ busy'[w] = busy[w]
  BY <1>4
  DEF TypeOK, WorkerStep, Load, CheckOptOut, CheckCooldown, CheckCooldownFails, Mail, Refuse,
      ReplyLost, Mark, MarkFails, SaveDelivery, Flush, Commit, RaiseMarked, RaiseUnmarked,
      WorkerLost, TimeLimitKill, Release, Goto, Return
<1> QED BY <1>1, <1>2, <1>3, <1>4, BackendStep

LEMMA SenderStep ==
  TypeOK /\ WorkerHasJob /\ KeyCovers /\ SenderSawNoKey /\ [Next]_vars => SenderSawNoKey'
<1> SUFFICES ASSUME TypeOK, WorkerHasJob, KeyCovers, SenderSawNoKey, [Next]_vars,
                    NEW w \in Worker, pc'[w] = "send", ToWhom(w)' \notin lapsed'
             PROVE  \/ sinceMail'[ToWhom(w)'] >= Cooldown
                    \/ sinceMail'[ToWhom(w)'] <= TimeLimit + busy'[w]
  BY DEF SenderSawNoKey
<1> DEFINE c == ToWhom(w)
<1> USE CapTypes
<1>0. /\ pc[w] # "idle" /\ job'[w] = job[w]
      /\ \/ pc[w] = "send"
         \/ pc[w] = "cooldown" /\ key[c] = 0 /\ UNCHANGED sinceMail
  <2>1. CASE pc[w] = "send" /\ job'[w] = job[w]
    BY <2>1
  <2>2. CASE CheckCooldown(w) /\ pc[w] = "cooldown" /\ job'[w] = job[w]
    <3>1. ~(key[c] > 0)
      BY <2>2 DEF CheckCooldown, Return, TypeOK
    <3>2. key[c] \in Nat
      BY <2>2, ToWhomType DEF TypeOK
    <3> QED BY <2>2, <3>1, <3>2 DEF CheckCooldown, mailVars
  <2>3. CASE CheckCooldownFails(w) /\ job'[w] = job[w]
    <3>1. c \in lapsed' /\ ToWhom(w)' = c
      BY <2>3 DEF CheckCooldownFails, ToWhom
    <3> QED BY <3>1
  <2> QED BY <2>1, <2>2, <2>3, EnteringSend
<1>1. c \in Customer /\ ToWhom(w)' = c /\ c \notin lapsed
  <2>1. ToWhom(w)' = c
    BY <1>0 DEF ToWhom
  <2> QED BY <1>0, <2>1, ToWhomType, LapsedGrows
<1>2. /\ key[c] \in Nat /\ sinceMail[c] \in Nat /\ sinceMail'[c] \in Nat
      /\ \A v \in Worker : busy[v] \in 0..TimeLimit
  BY <1>1, ClockTypesStep DEF TypeOK, MailCap
<1>3. sinceMail[c] >= Cooldown \/ sinceMail[c] <= TimeLimit + busy[w]
  <2>1. CASE pc[w] = "send"
    BY <1>1, <2>1 DEF SenderSawNoKey
  <2>2. CASE key[c] = 0
    <3>1. CASE key[c] + sinceMail[c] >= Cooldown
      BY <1>2, <2>2, <3>1
    <3>2. ASSUME NEW v \in Worker, sinceMail[c] <= busy[v]
          PROVE  sinceMail[c] <= TimeLimit + busy[w]
      BY <1>2, <3>2
    <3> QED BY <1>1, <3>1, <3>2 DEF KeyCovers
  <2> QED BY <1>0, <2>1, <2>2
<1>4. CASE Tick
  <2>1. sinceMail'[c] <= sinceMail[c] + 1 /\ busy'[w] = busy[w] + 1
    BY <1>0, <1>1, <1>4, TickTimes
  <2>2. sinceMail[c] >= Cooldown => sinceMail'[c] >= Cooldown
    BY <1>1, <1>4, TickTimes
  <2> QED BY <1>1, <1>2, <1>3, <2>1, <2>2
<1>5. CASE ~Tick
  <2>1. busy'[w] = busy[w]
    BY <1>0, <1>5, BusyStays
  <2>2. sinceMail'[c] = sinceMail[c] \/ sinceMail'[c] = 0
    <3>1. ASSUME NEW v \in Worker, Mail(v) \/ Mark(v)
          PROVE  sinceMail'[c] = sinceMail[c] \/ sinceMail'[c] = 0
      BY <1>1, <3>1 DEF Mail, Mark, mailVars, TypeOK
    <3> QED BY <1>5, <3>1, ClocksStay
  <2> QED BY <1>1, <1>2, <1>3, <2>1, <2>2
<1> QED BY <1>4, <1>5

(* The opt-out: mail may only come from a task older than the flag.          *)

\* How a task gets to "cooldown" or "send".
LEMMA PassingOptOut ==
  ASSUME TypeOK, [Next]_vars, NEW w \in Worker, pc'[w] \in {"cooldown", "send"}
  PROVE  /\ job'[w] = job[w]
         /\ \/ pc[w] \in {"cooldown", "send"}
            \/ pc[w] = "optout" /\ ToWhom(w) \notin optedOut /\ UNCHANGED optVars
<1>1. CASE UNCHANGED workVars \/ Tick
  BY <1>1 DEF workVars, Tick
<1>2. ASSUME NEW v \in Worker, NEW i \in Item, Deliver(v, i)
      PROVE  pc[w] \in {"cooldown", "send"} /\ job'[w] = job[w]
  BY <1>2, DeliverShape
<1>3. ASSUME NEW v \in Worker, WorkerStep(v), v # w
      PROVE  pc[w] \in {"cooldown", "send"} /\ job'[w] = job[w]
  BY <1>3, OthersStay
<1>4. ASSUME WorkerStep(w)
      PROVE  /\ job'[w] = job[w]
             /\ \/ pc[w] \in {"cooldown", "send"}
                \/ pc[w] = "optout" /\ ToWhom(w) \notin optedOut /\ UNCHANGED optVars
  BY <1>4
  DEF TypeOK, WorkerStep, Load, CheckOptOut, CheckCooldown, CheckCooldownFails, Mail, Refuse,
      ReplyLost, Mark, MarkFails, SaveDelivery, Flush, Commit, RaiseMarked, RaiseUnmarked,
      WorkerLost, TimeLimitKill, Release, Goto, Return
<1> QED BY <1>1, <1>2, <1>3, <1>4, BackendStep

\* A flag that is up was just raised, or was up and has aged with the clock only.
LEMMA OptOutAges ==
  ASSUME TypeOK, [Next]_vars, NEW c \in Customer, c \in optedOut'
  PROVE  \/ sinceOptOut'[c] = 0
         \/ c \in optedOut /\ sinceOptOut'[c] = sinceOptOut[c]
         \/ Tick /\ c \in optedOut /\ sinceOptOut'[c] <= sinceOptOut[c] + 1
<1>0. sinceOptOut \in [Customer -> 0..OptCap] /\ optedOut \subseteq Customer
  BY DEF TypeOK
<1>1. CASE UNCHANGED optVars
  BY <1>1 DEF optVars
<1>2. ASSUME NEW d \in Customer, Unsubscribe(d) \/ Toggle(d)
      PROVE  \/ sinceOptOut'[c] = 0
             \/ c \in optedOut /\ sinceOptOut'[c] = sinceOptOut[c]
  BY <1>0, <1>2 DEF Unsubscribe, Toggle, RaiseFlag
<1>3. CASE Tick
  <2>1. c \in optedOut /\ sinceOptOut'[c] = Older(sinceOptOut[c], OptCap)
    BY <1>3 DEF Tick
  <2> QED BY <1>0, <1>3, <2>1, OlderRange, CapTypes
<1> QED
  BY <1>1, <1>2, <1>3
  DEF Next, vars, CreateCampaign, CreateDelivery, Retry, Publish, PublishLost, Redeliver, Deliver,
      WorkerStep, Load, CheckOptOut, CheckCooldown, CheckCooldownFails, Mail, Refuse, ReplyLost,
      Mark, MarkFails, SaveDelivery, Flush, Commit, RaiseMarked, RaiseUnmarked, WorkerLost,
      TimeLimitKill

LEMMA OptOutStep == TypeOK /\ WorkerHasJob /\ OptOutIsYoung /\ [Next]_vars => OptOutIsYoung'
<1> SUFFICES ASSUME TypeOK, WorkerHasJob, OptOutIsYoung, [Next]_vars,
                    NEW w \in Worker, pc'[w] \in {"cooldown", "send"}, ToWhom(w)' \in optedOut'
             PROVE  sinceOptOut'[ToWhom(w)'] <= busy'[w]
  BY DEF OptOutIsYoung
<1> DEFINE c == ToWhom(w)
<1>1. /\ job'[w] = job[w] /\ pc[w] # "idle"
      /\ \/ pc[w] \in {"cooldown", "send"}
         \/ c \notin optedOut /\ UNCHANGED optVars
  BY PassingOptOut
<1>2. ToWhom(w)' = c /\ c \in Customer
  BY <1>1, ToWhomType DEF ToWhom
<1>3. pc[w] \in {"cooldown", "send"}
  BY <1>1, <1>2 DEF optVars
<1>4. c \in optedOut => sinceOptOut[c] <= busy[w]
  BY <1>3 DEF OptOutIsYoung
<1>5. busy[w] \in Nat /\ busy'[w] \in Nat /\ sinceOptOut[c] \in Nat /\ sinceOptOut'[c] \in Nat
  <2>1. WorkTypes /\ WorkTypes'
    BY WorkTypesStep DEF TypeOK, WorkTypes
  <2> QED BY <1>2, <2>1, ClockTypesStep, CapTypes DEF WorkTypes, TypeOK
<1>6. CASE Tick
  <2>1. busy'[w] = busy[w] + 1
    BY <1>1, <1>6, TickTimes
  <2> QED BY <1>2, <1>4, <1>5, <2>1, OptOutAges
<1>7. CASE ~Tick
  <2>1. busy'[w] = busy[w]
    BY <1>1, <1>7, BusyStays
  <2> QED BY <1>2, <1>4, <1>5, <1>7, <2>1, OptOutAges
<1> QED BY <1>6, <1>7

(* The theorems.                                                             *)

THEOREM Invariance == Spec => []IInv
<1>1. IInv /\ [Next]_vars => IInv'
  <2> SUFFICES ASSUME IInv, [Next]_vars PROVE IInv'
    OBVIOUS
  <2>1. Basics
    BY DEF IInv, Basics
  <2>2. TypeOK' /\ WorkerHasJob' /\ OutcomeIsTrue'
    BY <2>1, TypeStep, HasJobStep, OutcomeStep DEF Basics
  <2>3. SentMeansMailed'
    BY <2>1, StatusStep DEF Basics, SentMeansMailed
  <2>4. AskedIsCreated' /\ CreatedHasRows' /\ LastIsLast' /\ DoneMeansSettled'
    BY <2>1, AskedStep, CreatedStep, LastStep, DoneStep DEF IInv
  <2>5. KeyCovers' /\ SenderSawNoKey' /\ OptOutIsYoung'
    BY KeyStep, SenderStep, OptOutStep DEF IInv
  <2> QED BY <2>2, <2>3, <2>4, <2>5 DEF IInv
<1> QED BY InitIInv, <1>1, PTL DEF Spec

\* Every variable keeps its type.
THEOREM TypeCorrect == Spec => []TypeOK
<1>1. IInv => TypeOK
  BY DEF IInv
<1> QED BY <1>1, Invariance, PTL

\* No false success: what is recorded as sent has been mailed.
THEOREM NoFalseSuccess == Spec => []SentMeansMailed
<1>1. IInv => SentMeansMailed
  BY DEF IInv
<1> QED BY <1>1, Invariance, PTL

\* A campaign reported done has an outcome for each of its recipients, although
\* every task counted before it committed.
THEOREM DoneIsTrue == Spec => []DoneMeansSettled
<1>1. IInv => DoneMeansSettled
  BY DEF IInv
<1> QED BY <1>1, Invariance, PTL

\* However many tasks, campaigns and rules mail one customer, two mails within a
\* cooldown come from tasks that overlap.
THEOREM OverlapIsTheOnlyWay == Spec => DoubleMailOnlyByOverlap
<1> DEFINE Step ==
  \A w \in Worker :
    (Mails(w) /\ ToWhom(w) \notin lapsed)
    => \/ sinceMail[ToWhom(w)] >= Cooldown
       \/ sinceMail[ToWhom(w)] <= 2 * TimeLimit
<1>1. IInv /\ [Next]_vars => [Step]_vars
  <2> SUFFICES ASSUME IInv, NEW w \in Worker, pc[w] = "send", ToWhom(w) \notin lapsed
               PROVE  \/ sinceMail[ToWhom(w)] >= Cooldown
                      \/ sinceMail[ToWhom(w)] <= 2 * TimeLimit
    BY DEF Mails
  <2>1. ToWhom(w) \in Customer
    BY ToWhomType DEF IInv
  <2>2. sinceMail[ToWhom(w)] \in Nat /\ busy[w] \in 0..TimeLimit
    BY <2>1, CapTypes DEF IInv, TypeOK
  <2>3. \/ sinceMail[ToWhom(w)] >= Cooldown
        \/ sinceMail[ToWhom(w)] <= TimeLimit + busy[w]
    BY DEF IInv, SenderSawNoKey
  <2> QED BY <2>2, <2>3, CapTypes
<1> QED BY <1>1, Invariance, PTL DEF Spec, DoubleMailOnlyByOverlap

\* Within one task's lifetime of an opt-out the customer's mail has stopped.
THEOREM OptOutIsHonoured == Spec => OptOutStopsMail
<1> DEFINE Step ==
  \A w \in Worker :
    (Mails(w) /\ ToWhom(w) \in optedOut) => sinceOptOut[ToWhom(w)] <= TimeLimit
<1>1. IInv /\ [Next]_vars => [Step]_vars
  <2> SUFFICES ASSUME IInv, NEW w \in Worker, pc[w] = "send", ToWhom(w) \in optedOut
               PROVE  sinceOptOut[ToWhom(w)] <= TimeLimit
    BY DEF Mails
  <2>1. ToWhom(w) \in Customer
    BY ToWhomType DEF IInv
  <2>2. sinceOptOut[ToWhom(w)] \in Nat /\ busy[w] \in 0..TimeLimit
    BY <2>1, CapTypes DEF IInv, TypeOK
  <2>3. sinceOptOut[ToWhom(w)] <= busy[w]
    BY DEF IInv, OptOutIsYoung
  <2> QED BY <2>2, <2>3, CapTypes
<1> QED BY <1>1, Invariance, PTL DEF Spec, OptOutStopsMail

================================================================================
