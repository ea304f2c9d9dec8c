------------------------------ MODULE Outreach ------------------------------
(***************************************************************************)
(* Mail to customers: bulk campaigns and the deliveries of automation      *)
(* rules, from the row that asks for a mail to the worker that sends it,   *)
(* with the opt-out flag in the database and the cooldown key in Redis.    *)
(* One action is one round trip to the database, Redis, the broker or the  *)
(* mail provider.  Time is discrete, and ages stop at a cap above every    *)
(* threshold.                                                              *)
(***************************************************************************)
EXTENDS Integers, FiniteSets, Functions

CONSTANTS
  Item,          \* campaign recipients and automation deliveries, by row id
  Campaign,
  NoCampaign,    \* the campaign of an automation delivery
  CampaignOf,    \* CampaignOf[i]
  Customer,      \* set of [org, email]: whom a mail can go to
  CustomerOf,    \* CustomerOf[i]
  Worker, NoItem,
  TimeLimit,     \* task_time_limit, in ticks
  Cooldown,      \* OUTREACH_COOLDOWN_HOURS
  MaxInFlight    \* bound of the model: messages, waiting or being worked on

ASSUME DataAssumption ==
  /\ NoItem \notin Item
  /\ NoCampaign \notin Campaign
  /\ CampaignOf \in [Item -> Campaign \cup {NoCampaign}]
  /\ CustomerOf \in [Item -> Customer]
  /\ \A c \in Customer : c.org \in Nat

ASSUME TimeAssumption ==
  /\ {TimeLimit, Cooldown, MaxInFlight} \subseteq Nat
  /\ 2 * TimeLimit < Cooldown

VARIABLES
  status,        \* status column of the recipient or delivery
  campaign,      \* status column of the campaign
  rows,          \* customers with a health row
  optedOut,      \* outreach_opt_out column
  sinceOptOut,   \* ticks since it was raised, 0 while it is not
  refused,       \* customers whose own unsubscribe link was answered 400
  unpublished,   \* items a route or a rule is about to publish
  queue,         \* messages at the broker
  pc, job, busy, \* what each worker does, on which item, for how long
  outcome,       \* what the sender returned
  last,          \* the pending count was zero
  key,           \* ticks the cooldown key of a customer still lives
  secret,        \* the deployment has LLM_ENCRYPTION_KEY, which signs the links
  sinceMail,     \* ticks since the last mail to the customer left
  mailed,        \* items for which a mail left
  lapsed         \* customers for whom the key failed to follow a mail

rowVars  == <<status, campaign, rows>>
optVars  == <<optedOut, sinceOptOut, refused>>
busVars  == <<unpublished, queue>>
workVars == <<pc, job, busy, outcome, last>>
mailVars == <<secret, sinceMail, mailed>>
coolVars == <<key, lapsed>>
vars == <<rowVars, optVars, busVars, workVars, mailVars, coolVars>>

Terminal == {"sent", "skipped", "failed"}
Pc == {"idle", "load", "optout", "cooldown", "send", "mark", "save", "commit"}
Recipient == {i \in Item : CampaignOf[i] # NoCampaign}
Delivery  == Item \ Recipient
Members(k) == {i \in Item : CampaignOf[i] = k}
ToWhom(w) == CustomerOf[job[w]]

MailCap == Cooldown + 1
OptCap  == TimeLimit + 1
Older(n, cap) == IF n < cap THEN n + 1 ELSE n

TypeOK ==
  /\ status \in [Item -> {"none", "queued"} \cup Terminal]
  /\ campaign \in [Campaign -> {"none", "in_progress", "done"}]
  /\ rows \subseteq Customer /\ optedOut \subseteq rows /\ refused \subseteq Customer
  /\ sinceOptOut \in [Customer -> 0..OptCap]
  /\ unpublished \subseteq Item
  /\ queue \in [Item -> Nat]
  /\ pc \in [Worker -> Pc]
  /\ job \in [Worker -> Item \cup {NoItem}]
  /\ busy \in [Worker -> 0..TimeLimit]
  /\ outcome \in [Worker -> {"none"} \cup Terminal]
  /\ last \in [Worker -> BOOLEAN]
  /\ key \in [Customer -> 0..Cooldown]
  /\ secret \in BOOLEAN
  /\ sinceMail \in [Customer -> 0..MailCap]
  /\ mailed \subseteq Item
  /\ lapsed \subseteq Customer

Init ==
  /\ status = [i \in Item |-> "none"]
  /\ campaign = [k \in Campaign |-> "none"]
  /\ rows \in SUBSET Customer
  /\ optedOut = {} /\ refused = {}
  /\ sinceOptOut = [c \in Customer |-> 0]
  /\ unpublished = {}
  /\ queue = [i \in Item |-> 0]
  /\ pc = [w \in Worker |-> "idle"]
  /\ job = [w \in Worker |-> NoItem]
  /\ busy = [w \in Worker |-> 0]
  /\ outcome = [w \in Worker |-> "none"]
  /\ last = [w \in Worker |-> FALSE]
  /\ key = [c \in Customer |-> 0]
  /\ secret \in BOOLEAN
  /\ sinceMail = [c \in Customer |-> MailCap]
  /\ mailed = {} /\ lapsed = {}

------------------------------------------------------------------------------
(* Who asks for mail: bulk_outreach, retry_campaign and the rule actions.   *)

\* The cohort comes from health rows; a member who has opted out is skipped at
\* once, and so is one with a bad address or an archived one.
CreateCampaign(k) ==
  /\ campaign[k] = "none"
  /\ Members(k) # {}
  /\ \A i \in Members(k) : CustomerOf[i] \in rows
  /\ \E sendable \in SUBSET {i \in Members(k) : CustomerOf[i] \notin optedOut} :
       /\ status' = [i \in Item |-> IF i \in sendable THEN "queued"
                                    ELSE IF i \in Members(k) THEN "skipped" ELSE status[i]]
       /\ campaign' = [campaign EXCEPT ![k] = IF sendable = {} THEN "done" ELSE "in_progress"]
       /\ unpublished' = unpublished \cup sendable
  /\ UNCHANGED <<rows, queue, optVars, workVars, mailVars, coolVars>>

\* The delivery row is committed before its id is published; without a mail key
\* it is an audit row only.
CreateDelivery(i) ==
  /\ i \in Delivery
  /\ status[i] = "none"
  /\ \/ /\ status' = [status EXCEPT ![i] = "queued"]
        /\ unpublished' = unpublished \cup {i}
     \/ /\ status' = [status EXCEPT ![i] = "skipped"]
        /\ UNCHANGED unpublished
  /\ UNCHANGED <<campaign, rows, queue, optVars, workVars, mailVars, coolVars>>

\* An operator re-enqueues the recipients of a campaign that are still queued.
Retry(k) ==
  /\ campaign[k] # "none"
  /\ unpublished' = unpublished \cup {i \in Members(k) : status[i] = "queued"}
  /\ UNCHANGED <<queue, rowVars, optVars, workVars, mailVars, coolVars>>

InFlight(i) == queue[i] + Cardinality({w \in Worker : job[w] = i})
Enqueue(i)  == /\ SumFunction([j \in Item |-> InFlight(j)]) < MaxInFlight
               /\ queue' = [queue EXCEPT ![i] = @ + 1]

Publish(i) ==
  /\ i \in unpublished
  /\ unpublished' = unpublished \ {i}
  /\ Enqueue(i)
  /\ UNCHANGED <<rowVars, optVars, workVars, mailVars, coolVars>>

\* The publish fails or its process dies first: the row stays queued.
PublishLost(i) ==
  /\ i \in unpublished
  /\ unpublished' = unpublished \ {i}
  /\ UNCHANGED <<queue, rowVars, optVars, workVars, mailVars, coolVars>>

\* visibility_timeout: Redis hands out a fetched, unacknowledged message again.
Redeliver(i) ==
  /\ InFlight(i) > 0
  /\ Enqueue(i)
  /\ UNCHANGED <<unpublished, rowVars, optVars, workVars, mailVars, coolVars>>

------------------------------------------------------------------------------
(* The opt-out flag: the unsubscribe link and the operator's toggle.        *)

RaiseFlag(c) ==
  /\ rows' = rows \cup {c}
  /\ optedOut' = optedOut \cup {c}
  /\ sinceOptOut' = IF c \in optedOut THEN sinceOptOut ELSE [sinceOptOut EXCEPT ![c] = 0]

\* The customer follows the link of a mail from c.org.  The route looks the
\* address up across organizations and checks the token against the first row.
LinkSent(c) == \E i \in mailed : CustomerOf[i] = c

Unsubscribe(c) ==
  LET sameEmail == {r \in rows : r.email = c.email}
      first == CHOOSE r \in sameEmail : \A s \in sameEmail : r.org <= s.org
  IN /\ LinkSent(c)
     /\ IF sameEmail # {} /\ first # c
        THEN /\ refused' = refused \cup {c}
             /\ UNCHANGED <<rows, optedOut, sinceOptOut>>
        ELSE RaiseFlag(c) /\ UNCHANGED refused
     /\ UNCHANGED <<status, campaign, busVars, workVars, mailVars, coolVars>>

Toggle(c) ==
  /\ c \in rows
  /\ IF c \in optedOut THEN /\ optedOut' = optedOut \ {c}
                            /\ sinceOptOut' = [sinceOptOut EXCEPT ![c] = 0]
                            /\ UNCHANGED rows
     ELSE RaiseFlag(c)
  /\ UNCHANGED <<refused, status, campaign, busVars, workVars, mailVars, coolVars>>

------------------------------------------------------------------------------
(* The worker: tasks.outreach and services.outreach_sender.                 *)

Release(w) ==
  /\ pc' = [pc EXCEPT ![w] = "idle"]
  /\ job' = [job EXCEPT ![w] = NoItem]
  /\ busy' = [busy EXCEPT ![w] = 0]
  /\ outcome' = [outcome EXCEPT ![w] = "none"]
  /\ last' = [last EXCEPT ![w] = FALSE]

Goto(w, label) ==
  /\ pc' = [pc EXCEPT ![w] = label]
  /\ UNCHANGED <<job, busy, outcome, last>>

Return(w, result) ==
  /\ pc' = [pc EXCEPT ![w] = "save"]
  /\ outcome' = [outcome EXCEPT ![w] = result]
  /\ UNCHANGED <<job, busy, last>>

Deliver(w, i) ==
  /\ pc[w] = "idle"
  /\ queue[i] > 0
  /\ queue' = [queue EXCEPT ![i] = @ - 1]
  /\ pc' = [pc EXCEPT ![w] = "load"]
  /\ job' = [job EXCEPT ![w] = i]
  /\ UNCHANGED <<busy, outcome, last, unpublished, rowVars, optVars, mailVars, coolVars>>

\* A terminal row ends the task; a queued one is not claimed, only read.
Load(w) ==
  /\ pc[w] = "load"
  /\ IF status[job[w]] \in Terminal THEN Release(w) ELSE Goto(w, "optout")
  /\ UNCHANGED <<rowVars, optVars, busVars, mailVars, coolVars>>

\* Mutated form of CheckOptOut: the flag is only looked at when queueing.
CheckOptOutNever(w) ==
  /\ pc[w] = "optout"
  /\ Goto(w, "cooldown")
  /\ UNCHANGED <<rowVars, optVars, busVars, mailVars, coolVars>>

CheckOptOut(w) ==
  /\ pc[w] = "optout"
  /\ IF ToWhom(w) \in optedOut THEN Return(w, "skipped") ELSE Goto(w, "cooldown")
  /\ UNCHANGED <<rowVars, optVars, busVars, mailVars, coolVars>>

CheckCooldown(w) ==
  /\ pc[w] = "cooldown"
  /\ IF key[ToWhom(w)] > 0 THEN Return(w, "skipped") ELSE Goto(w, "send")
  /\ UNCHANGED <<rowVars, optVars, busVars, mailVars, coolVars>>

\* Redis does not answer: no cooldown.
CheckCooldownFails(w) ==
  /\ pc[w] = "cooldown"
  /\ Goto(w, "send")
  /\ lapsed' = lapsed \cup {ToWhom(w)}
  /\ UNCHANGED <<key, rowVars, optVars, busVars, mailVars>>

\* Mutated form of Refuse: an unconfigured sender is taken for a success.
RefuseAsSent(w) ==
  /\ pc[w] = "send"
  /\ Return(w, "sent")
  /\ UNCHANGED <<rowVars, optVars, busVars, mailVars, coolVars>>

\* No mail key, no connection, or an error from the provider.
Refuse(w) ==
  /\ pc[w] = "send"
  /\ Return(w, "failed")
  /\ UNCHANGED <<rowVars, optVars, busVars, mailVars, coolVars>>

Mail(w) ==
  /\ pc[w] = "send"
  /\ secret
  /\ Goto(w, "mark")
  /\ mailed' = mailed \cup {job[w]}
  /\ sinceMail' = [sinceMail EXCEPT ![ToWhom(w)] = 0]
  /\ UNCHANGED <<secret, rowVars, optVars, busVars, coolVars>>

\* The request times out after the provider took it: a failure to the sender.
ReplyLost(w) ==
  /\ pc[w] = "mark"
  /\ Return(w, "failed")
  /\ lapsed' = lapsed \cup {ToWhom(w)}
  /\ UNCHANGED <<key, rowVars, optVars, busVars, mailVars>>

\* Mutated form of Mark: the key is the bulk path's own.
MarkCampaignOnly(w) ==
  /\ pc[w] = "mark"
  /\ Return(w, "sent")
  /\ key' = IF job[w] \in Recipient THEN [key EXCEPT ![ToWhom(w)] = Cooldown] ELSE key
  /\ UNCHANGED <<lapsed, rowVars, optVars, busVars, mailVars>>

\* Mutated form of Mark: the key outlives the cooldown.
MarkTooLong(w) ==
  /\ pc[w] = "mark"
  /\ Return(w, "sent")
  /\ key' = [key EXCEPT ![ToWhom(w)] = Cooldown + 1]
  /\ UNCHANGED <<lapsed, rowVars, optVars, busVars, mailVars>>

Mark(w) ==
  /\ pc[w] = "mark"
  /\ Return(w, "sent")
  /\ key' = [key EXCEPT ![ToWhom(w)] = Cooldown]
  /\ UNCHANGED <<lapsed, rowVars, optVars, busVars, mailVars>>

MarkFails(w) ==
  /\ pc[w] = "mark"
  /\ Return(w, "sent")
  /\ lapsed' = lapsed \cup {ToWhom(w)}
  /\ UNCHANGED <<key, rowVars, optVars, busVars, mailVars>>

SaveDelivery(w) ==
  /\ pc[w] = "save"
  /\ job[w] \in Delivery
  /\ status' = [status EXCEPT ![job[w]] = outcome[w]]
  /\ Release(w)
  /\ UNCHANGED <<campaign, rows, optVars, busVars, mailVars, coolVars>>

\* Mutated form of Pending: only the recipients being worked on.
PendingInProgress(k, own) ==
  {i \in Members(k) \ {own} : \E v \in Worker : job[v] = i}

\* The rows the count sees: the others as committed, its own as flushed.
Pending(k, own) == {i \in Members(k) \ {own} : status[i] = "queued"}

\* The flushed UPDATE keeps the row locked until the commit.
Flush(w) ==
  /\ pc[w] = "save"
  /\ job[w] \in Recipient
  /\ \A v \in Worker : ~(pc[v] = "commit" /\ job[v] = job[w])
  /\ pc' = [pc EXCEPT ![w] = "commit"]
  /\ last' = [last EXCEPT ![w] = (Pending(CampaignOf[job[w]], job[w]) = {})]
  /\ UNCHANGED <<job, busy, outcome, rowVars, optVars, busVars, mailVars, coolVars>>

Commit(w) ==
  /\ pc[w] = "commit"
  /\ status' = [status EXCEPT ![job[w]] = outcome[w]]
  /\ campaign' = IF last[w] THEN [campaign EXCEPT ![CampaignOf[job[w]]] = "done"]
                            ELSE campaign
  /\ Release(w)
  /\ UNCHANGED <<rows, optVars, busVars, mailVars, coolVars>>

\* Without the secret the link cannot be made: the task marks the row it
\* once loaded as failed, and never reaches the campaign.
RaiseMarked(w) ==
  /\ pc[w] = "send"
  /\ ~secret
  /\ status' = [status EXCEPT ![job[w]] = "failed"]
  /\ Release(w)
  /\ UNCHANGED <<campaign, rows, optVars, busVars, mailVars, coolVars>>

\* A statement or the commit fails: the session is unusable, so marking the row
\* fails as well.  The message is acknowledged.
RaiseUnmarked(w) ==
  /\ pc[w] \in {"load", "optout", "save", "commit"}
  /\ Release(w)
  /\ UNCHANGED <<rowVars, optVars, busVars, mailVars, coolVars>>

\* A worker that dies between the mail and its mark leaves no key.
Forget(w) == lapsed' = IF pc[w] = "mark" THEN lapsed \cup {ToWhom(w)} ELSE lapsed

WorkerLost(w) ==
  /\ pc[w] # "idle"
  /\ queue' = [queue EXCEPT ![job[w]] = @ + 1]
  /\ Forget(w)
  /\ Release(w)
  /\ UNCHANGED <<key, unpublished, rowVars, optVars, mailVars>>

TimeLimitKill(w) ==
  /\ pc[w] # "idle"
  /\ busy[w] = TimeLimit
  /\ Forget(w)
  /\ Release(w)
  /\ UNCHANGED <<key, rowVars, optVars, busVars, mailVars>>

WorkerStep(w) ==
  \/ Load(w) \/ CheckOptOut(w) \/ CheckCooldown(w) \/ CheckCooldownFails(w)
  \/ Mail(w) \/ Refuse(w) \/ ReplyLost(w) \/ Mark(w) \/ MarkFails(w)
  \/ SaveDelivery(w) \/ Flush(w) \/ Commit(w)
  \/ RaiseMarked(w) \/ RaiseUnmarked(w) \/ WorkerLost(w) \/ TimeLimitKill(w)

Tick ==
  /\ \A w \in Worker : pc[w] # "idle" => busy[w] < TimeLimit
  /\ busy' = [w \in Worker |-> IF pc[w] # "idle" THEN busy[w] + 1 ELSE 0]
  /\ key' = [c \in Customer |-> IF key[c] > 0 THEN key[c] - 1 ELSE 0]
  /\ sinceMail' = [c \in Customer |-> Older(sinceMail[c], MailCap)]
  /\ sinceOptOut' = [c \in Customer |->
       IF c \in optedOut THEN Older(sinceOptOut[c], OptCap) ELSE sinceOptOut[c]]
  /\ UNCHANGED <<pc, job, outcome, last, optedOut, refused, secret, mailed, lapsed,
                 rowVars, busVars>>

Next ==
  \/ \E k \in Campaign : CreateCampaign(k) \/ Retry(k)
  \/ \E i \in Item : CreateDelivery(i) \/ Publish(i) \/ PublishLost(i) \/ Redeliver(i)
  \/ \E c \in Customer : Unsubscribe(c) \/ Toggle(c)
  \/ \E w \in Worker, i \in Item : Deliver(w, i)
  \/ \E w \in Worker : WorkerStep(w)
  \/ Tick

Spec == Init /\ [][Next]_vars

------------------------------------------------------------------------------
(* Properties                                                               *)

Mails(w) == pc[w] = "send" /\ pc'[w] = "mark"

\* A campaign is reported done only when each of its recipients has an outcome,
\* although the count that decides it is taken before the commit.
DoneMeansSettled ==
  \A k \in Campaign : campaign[k] = "done" => \A i \in Members(k) : status[i] \in Terminal

\* No false success: a row says sent only if a mail left for it, whatever
\* duplicates, retries and crashes wrote to it before.
SentMeansMailed == \A i \in Item : status[i] = "sent" => i \in mailed

\* The cooldown narrows double mail to overlapping tasks: unless a mail went
\* unmarked, two mails to a customer are a whole cooldown apart or no further
\* than two task lifetimes, across campaigns, retries and automation rules.
DoubleMailOnlyByOverlap ==
  [][\A w \in Worker :
       (Mails(w) /\ ToWhom(w) \notin lapsed)
       => \/ sinceMail[ToWhom(w)] >= Cooldown
          \/ sinceMail[ToWhom(w)] <= 2 * TimeLimit]_vars

\* An opt-out stops mail within one task's lifetime, whatever was queued before.
OptOutStopsMail ==
  [][\A w \in Worker :
       (Mails(w) /\ ToWhom(w) \in optedOut) => sinceOptOut[ToWhom(w)] <= TimeLimit]_vars

------------------------------------------------------------------------------
(* The inductive invariant of the proofs (module OutreachProofs).           *)

WorkerHasJob == \A w \in Worker : pc[w] # "idle" => job[w] \in Item

\* An outcome on its way to the row is a real one.
OutcomeIsTrue ==
  \A w \in Worker :
    /\ pc[w] = "mark" => job[w] \in mailed
    /\ pc[w] \in {"save", "commit"} =>
         outcome[w] \in Terminal /\ (outcome[w] = "sent" => job[w] \in mailed)

\* A recipient is only published and processed after its campaign was created.
Asked(i) == i \in unpublished \/ queue[i] > 0 \/ \E w \in Worker : job[w] = i
AskedIsCreated == \A i \in Recipient : Asked(i) => campaign[CampaignOf[i]] # "none"
CreatedHasRows ==
  \A k \in Campaign : campaign[k] # "none" => \A i \in Members(k) : status[i] # "none"

\* What a task counted before its commit is still so at its commit.
LastIsLast ==
  \A w \in Worker :
    pc[w] = "commit" =>
      /\ job[w] \in Recipient
      /\ last[w] => \A i \in Members(CampaignOf[job[w]]) \ {job[w]} : status[i] \in Terminal

\* Since a mail, its key has been there or its task is about to set it.
KeyCovers ==
  \A c \in Customer \ lapsed :
    \/ key[c] + sinceMail[c] >= Cooldown
    \/ \E w \in Worker : pc[w] = "mark" /\ ToWhom(w) = c /\ sinceMail[c] <= busy[w]

\* A task that passed the cooldown check saw no key during its own life.
SenderSawNoKey ==
  \A w \in Worker :
    (pc[w] = "send" /\ ToWhom(w) \notin lapsed) =>
      \/ sinceMail[ToWhom(w)] >= Cooldown
      \/ sinceMail[ToWhom(w)] <= TimeLimit + busy[w]

\* A task that passed the opt-out check did so before the flag was raised.
OptOutIsYoung ==
  \A w \in Worker :
    (pc[w] \in {"cooldown", "send"} /\ ToWhom(w) \in optedOut) =>
      sinceOptOut[ToWhom(w)] <= busy[w]

IInv ==
  /\ TypeOK /\ WorkerHasJob /\ OutcomeIsTrue /\ SentMeansMailed
  /\ AskedIsCreated /\ CreatedHasRows /\ LastIsLast /\ DoneMeansSettled
  /\ KeyCovers /\ SenderSawNoKey /\ OptOutIsYoung
==============================================================================
