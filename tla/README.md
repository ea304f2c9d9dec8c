# Rereflect: formal specification

TLA+ specifications of the concurrent core of Rereflect, with TLC configurations
that check them on small instances and TLAPS proofs of the theorems that matter
most. Every definition is translated from the source; `PROJECT.json` ("map")
names the lines each definition stands for.

## 1. The system

Rereflect collects customer feedback, analyses it, scores the churn risk of each
customer and acts on it. Its processes share one PostgreSQL database (READ
COMMITTED) and one Redis (database 0 is the Celery broker, 1 holds cooldown keys
and locks, 2 a cache):

* **backend-api** - FastAPI routes. A handler reads, writes and commits with one
  SQLAlchemy session, then publishes Celery tasks by name. A failed publish is
  logged and swallowed.
* **worker-service** - prefork Celery workers, `task_acks_late`,
  `task_reject_on_worker_lost`, a hard `task_time_limit` of ten minutes, and a
  Redis visibility timeout of an hour: a task is delivered at least once.
* **Celery beat** - periodic tasks (reapers, purges, sync, scoring, reports).
* **analysis-engine** - called by the worker as a library / LLM client.
* **frontend-web**, **landing-web**, **packages/ui** - Next.js user interfaces.

### Components

| component | state it keeps | operations | what makes it correct |
|---|---|---|---|
| churn playbook executions | `churn_playbook_executions` rows, broker messages | create (run, run-batch, rules), dispatch, claim, run actions, finalize, reap, purge | an execution's actions run at most once; its outcome is final; it settles; no more recent runs of one customer than workers |
| one playbook run | the run's database session, action log | one handler per action type, finalize, mark failed | what is stored before the end, and what the log shows of what was stored, refused or undone |
| outreach | campaigns, recipients, deliveries, Redis cooldown keys | dispatch, send, retry, unsubscribe | a customer is mailed at most once per window; campaigns finish |
| automation rules | rules, `automation_executions`, Redis cooldown keys | evaluate on feedback, churn probability, usage trend; activate, edit, delete | a rule fires at most once per customer and cooldown; its count follows its log; cycles end |
| webhook delivery | webhooks (`consecutive_failures`, `is_active`), deliveries | dispatch, attempt, retry chain, auto-disable | a chain is bounded; a dead endpoint is disabled |
| feedback analysis | feedback rows, locks of the sweep and of the retry | analyse on ingest, batch, sweep, retry, edit, enrich, re-analyse | a label belongs to the current text but for three known overlaps; nothing stays unanalysed; results are announced once |
| status synchronisation | links with their category, sidecar rows, workflow status, events | poll, webhook, edit by hand for Jira, Asana, Zendesk (and Intercom) | poll and webhook agree in the end; the timeline is true |
| scheduled reports | schedules, reports | beat, manual run, claim, generate, mail, edit | one report per window, of the right window |
| helpdesk import | integration cursor, feedback sources, event rows, pending items | pull (Zendesk, Intercom), webhook, ingestion core, review | no ticket is skipped, none becomes two items |
| CRM import and write-back | integration cursor, customer rows | incremental sync, write-back | upserts are idempotent |
| churn calibration, classifier training | models, label rows | train, promote | promoted model is one that was validated |
| segments, alerts, insights, anomalies, labels | computed rows | periodic recomputation | idempotent |
| accounts, teams, single sign-on | users, invites, one-time state | sign in, invite, roles | single transactions of one request |
| user interfaces, copilot, CRUD routes, live events | - | - | sequential, not modelled |

How they interact. The helpdesk import (or a route) stores a feedback item and
queues its analysis; the analysis queues the assignment, the webhooks and the
rules on feedback. A recomputed churn probability evaluates the rules on it; a
rule (or a user) asks for a playbook execution; the execution assigns, tags,
mails, notifies and may trigger another rule. The status of an item is set by
users, by playbooks and by the synchronisation. Mail and webhooks leave the
system and cannot be undone.

### Hard behaviours

At-least-once delivery with handlers that are not idempotent; commit and publish
as two steps (either may be lost); check-then-act on rows and on Redis keys by
concurrent workers; sessions that go on with rows they loaded before a slow call;
sessions left unusable by a database error; beat tasks that read, then act on what
they read; row locks taken in different orders; hard kills between an effect and
its record. `PROJECT.json` ("hazards") lists forty of them, each at its line: most with the
properties that would show it going wrong, nine with a note instead, because the
code lets them happen and the properties beside them say only what holds without.

## 2. Modules

| module | models |
|---|---|
| `PlaybookLifecycle` | abstract specification: what an execution promises its requester |
| `PlaybookExecution` | rows, broker, workers, reaper, purge, time; implements `PlaybookLifecycle` |
| `PlaybookRun` | one run after its claim: session, handlers, log, how it ends |
| `Outreach` | mail to customers: campaigns, automation deliveries, cooldown keys, opt-out |
| `WebhookDelivery` | one webhook endpoint: events, retry chains, failure counter |
| `StatusSync` | one feedback item and its links in another tool: poll, webhook handler, users |
| `ReportPeriods` | abstract specification: every report opens a window of its own |
| `ScheduledReports` | schedules, beat and manual runs, claim, row lock, calendar; implements `ReportPeriods` |
| `AutomationRules` | rules on the churn probability: sessions, cooldown keys, activation, the cycle with playbooks |
| `FeedbackAnalysis` | items, their text and label: single tasks, batches, sweep, retry, edits |
| `SourceImport` | tickets become feedback: pull and cursor, webhooks, event rows, review |
| `PlaybookExecutionProofs`, `OutreachProofs`, `ScheduledReportsProofs`, `AutomationRulesProofs`, `FeedbackAnalysisProofs`, `SourceImportProofs`, `StatusSyncProofs` | TLAPS proofs about the module they extend |
| `EffectsProofs` | TLAPS proofs about `PlaybookRun` and `WebhookDelivery` |
| `MC...` | the instance of a module for TLC |

An action is one round trip to the database, Redis, the broker or an outside
service; a definition whose comment says "mutated form" is a plausible bug, used
only to test that a property notices it (`PROJECT.json`, "mutants").

How they compose. The modules share no variables; each sees the others at its
edge. `AutomationRules` models the run of a playbook as the evaluation of the
rule its step names (which is what closes the cycle); its publish and its
delivery are `Create` and `Deliver` of `PlaybookExecution`. The mail of a rule is
a delivery of `Outreach`, the mail step of a playbook is a handler of
`PlaybookRun`. Items made by `SourceImport` arrive in `FeedbackAnalysis`
(`Create`), and a reply merged into an item is its `Enrich`. Announcements of
`FeedbackAnalysis` (`told`) are what `WebhookDelivery` dispatches.

### PlaybookExecution

`status`, `target`, `age`, `sinceStart` are the columns `status`, (`playbook_id`,
`customer_email`), `created_at` and `started_at` (as ticks elapsed, capped above
every threshold). `attempted` is a history variable: how often each action of
each execution was dispatched. `unpublished` holds rows whose creator has
committed and not yet published, `queue` the messages at the broker. A worker's
`pc` names the database round trip it makes next: `load` (read the row, skip if
not queued), `check` (rate-limit query), `cancel` or `claim` (the conditional
UPDATE of `_transition_from_queued`), `prepare` (load playbook and health), `act`
(the action loop, then `_finalize_execution`). The reaper goes through its four
database steps and then re-publishes one message at a time. Failures are steps of
their own: lost publishes, a worker process that dies (message requeued), the
time limit (message acknowledged), a commit whose answer is lost, an exception
whose handler can or cannot mark the row, and Redis redelivering a message that
stayed unacknowledged.

`Tick` advances time; a task holds it back at its time limit until the kill. This
is where `task_time_limit` <= `RUNNING_STALE_HOURS` enters, the assumption
(`TimeAssumption`) that makes the reaper safe. It needs the prefork pool the
worker is started with: a threads pool cannot enforce a time limit.

### PlaybookRun

One run from its claim to its end. `pending`, `committed`, `outside` say which
actions have effects in the session, in the database, and outside the system, and
`undone` (history) whose pending effects were rolled back; `session` is usable,
aborted (a query failed inside the transaction) or dead (a flush or commit failed
and nobody rolled back). Action types are grouped by how they use the session
(`Kind`), which is all the properties tell apart. A dashboard alert (`Alert`)
commits its notification rows in a session of its own
(`notification_dispatch.py:714`), calls the integrations after that, and may raise
there; the resolve step (`Resolve`) sets the status and publishes afterwards, so its
entry may say failed for a write that the end of the run stores; a rule
(`RuleFires`, `RuleRaises`, `RuleCommitFails`) commits the run's own session, with
all that earlier actions left pending, and may raise before, between and after its
commits.

### Outreach

`status` is the column of a `outreach_recipients` or `automation_email_deliveries`
row (an `Item`; `CampaignOf` tells which), `campaign` that of
`outreach_campaigns`, `rows` the customers with a health row, `optedOut` their
`outreach_opt_out`, `key` the remaining life of the Redis cooldown key. A route or
rule commits its rows (`CreateCampaign`, `CreateDelivery`, `Retry`) and publishes
them one at a time, or loses them. A task goes `load` (a terminal row ends it, a
queued one is only read), `optout`, `cooldown` (the key is tested), `send` (the
request to the provider), `mark` (the key is set), `save` (the row; for a
recipient the flush and the count of pending siblings) and `commit`. Redis may be
away at the test or at the mark, the provider's reply may be lost, a worker may
die anywhere. `sinceMail`, `sinceOptOut`, `mailed`, `lapsed` and `refused` are
history: `lapsed` holds the customers for whom the key failed to follow a mail
through no fault of the interleaving (Redis down, worker killed before `mark`).

Customers are records of organization and address, since `unsubscribe` looks a
customer up by address alone. Case-variant addresses are one customer to the
sender (the key is built from the lower-case address), which is how one campaign
can hold two recipients that share a cooldown key.

### WebhookDelivery

One endpoint: `active` and `mode` are its columns, `failures` is
`consecutive_failures`. The queue is a bag of (event, attempt). A task loads the
row (`row` is what it read), posts, on failure schedules the next attempt
(`HandleFailure`, before anything is committed), and commits (`Save`): the counter
it loaded plus one, or zero. An attribute assigned the value it was loaded with is
not written by the ORM, so a success that loaded zero writes no counter. `Raise`
is every way a task ends without a commit; the row may have been deleted
meanwhile. `posts`, `accepted`, `lost`, `streak`, `overlapped` are history.

### StatusSync

`link` is the category column of each link row (`status_category`,
`asana_status_category`, the Zendesk sidecar row), `remote` what the tool would say,
`status` the item's `workflow_status`, `deliveries` the webhooks under way. The poll
loads item and links (`PollStart`; `FullPoll` is one that is sure to load the item: a
Zendesk poll takes 1000 items of an organization in whatever order the database
returns them, so a `Crowded` ticket may be in none), asks the tool link by link
(`PollFetch`), decides (`PollDecide`) and writes: for a tracker the guarded update of
the item (`GuardedUpdate`, the UPDATE of `status_writer.py` that only touches a row
still at the status observed), then the links (`FlushLink`), then `Commit`. The
webhook handler (`Receive`, `HookObserve`) writes the link before the item. `lockItem`
and `lockLink` are the row locks these writes take until the commit; PostgreSQL ends a
cycle of waits by aborting one transaction (`AbortDeadlock`), so the run checks for
deadlock. `Break` is any other failure. A webhook may be lost (`Lose`), handled late
and out of order, or delivered again (`Receive`). With several links the furthest
category decides, by `Rank`. `overlapped`, `misjudged` and `behind` are history, named
in the property that excuses them.

### ReportPeriods and ScheduledReports

`row` and `lastRun` are a schedule's columns; `made` the reports, each with the
start of its window and the hour it was asked for. A worker takes the beat or a
manual message, reads the clock once (`asked`) and all rows once (`loaded`), and goes
through the schedules: `Consider` computes the start of the current window
(`Cutoff`, over a calendar given as data), `Claim` is the UPDATE conditional on
`last_run_at < cutoff`, which takes the row lock, `Commit` ends the generation and
releases it, `Mail` follows. A commit expires what the session holds, so `Mail` and
the next schedule read again, and a schedule deleted meanwhile ends the whole batch
(`ConsiderGone`). A claim that meets a lock waits. `Fail` rolls back,
`WorkerLost` and `Redeliver` are as elsewhere.

`ReportPeriods` knows only `last` and `made`: a report for a window that opens
after the latest one's request. `OneReportPerWindow` is this specification under
the mapping `last <- lastRun, made <- made`: every commit is one `Make`, every
other step a stutter.

### AutomationRules

A recompute commits the probability (`Recompute`), loads the active rules
(`LoadRules`) and looks at each in turn: `Skip`, `Check` (the key in Redis),
`Act` (the playbook run is queued), `SetKey`, `Commit`. The session keeps each
rule as loaded (`seen`) until a commit expires them all, so the next `Check` reads
again and may find the rule gone (`RuleGone`) or off. `execution_count` is what the
session held plus one (modulo `Modulus`), written in the UPDATE of the commit.
`Activate` turns a rule on in one transaction and seeds the keys of the customers
above its threshold afterwards (`SeedLoad`, `SeedOne`, `SeedEnd`). A queued run
evaluates the rule named by its playbook (`TakeRun`). `CommitRefused` is a commit
the database refuses, `WorkerLost` a kill at any step. `since` counts the ticks from
the last act or activation; `excused`, `crossed` and `logged` are history.

### FeedbackAnalysis

`text[i]` is the committed version of an item's text and `label[i]` the version its
sentiment was computed from; the value of a label is what an analysis of that
version says, which is all the properties tell apart. `stage` and `held` are what a
worker's session has of each item: still to do, done but not committed, and the
version it read. A task of a single item, a batch, the sweep and the retry share
`Read`, `Commit` and `Close`; they differ in their gate (`Take`, `SweepBegin`,
`RetryBegin`), in when they commit (a batch at its end, and early for items whose
customer is known, because the churn update commits the shared session) and in
what their failure undoes (`Fails`, `RowGone`). Only the task of a single item
announces (`Tell`). The `Requester`s edit: requests of
the API and tasks that enrich, side by side. An edit by the route loads the row
(`PatchLoad`), clears the label in the commit that changes the text (`PatchText`) and
analyses in the request (`RequestRead`, `RequestWrite`); an enrichment commits its
text (`Enrich`), loads the row again (`RequestLoad`) and clears the label in a second
commit (`RequestClear`), as the forced re-analysis of a user does (`Reanalyse`). The
ORM writes an attribute only if it differs from what the session loaded: `reqHad`
says that the row had a label then, and a clear by a session that loaded none leaves
the column alone (`Clear`). `crossed` marks items of which, when an edit cleared the
label, somebody was about to write that of an older text, or a label was left in
this way; `raced` items two analyses had at once. Both are history and are set anew
by the next edit or clearing.

### SourceImport

`event` holds the status of the event rows, keyed by external id: a pull's id is
fixed for an Intercom conversation and carries the window for a Zendesk ticket; a
webhook's id is the ticket's. A pull reads the cursor (`TakePull`), fetches what
changed since (`Fetch`), goes through it (`Scan`: skip what has a processed or
pending event, else insert) and writes rows and cursor in one commit. `draft`
holds what is flushed and invisible to others; `Refused` is the unique constraint
`uq_source_event`, which takes the whole transaction with it. Webhooks
(`TakeHook`) go through the same core. A reviewer loads a pending row (`Open`) and
writes it later, unlocked (`Approve`, `Reject`). `Edit` switches the source off and
on, changes its trigger or whether it imports by itself. `raced` and `paused` are
history.

## 3. Runs

| run | bounds | shows |
|---|---|---|
| `playbook` | 1 execution, 2 workers, 2 actions, 3 messages in flight | at-most-once, live run keeps its row, final outcomes, refinement of `PlaybookLifecycle`, every execution settles |
| `playbook_rate_limit` | 3 executions of one target, 2 workers that may be lost | never more recent runs than workers; the documented limit of one is not kept (below) |
| `playbook_run` | every sequence of 3 actions | only alerts and rules store anything before the end; what is rolled back has a failed entry after it; only three handlers leave something stored under a failed entry |
| `outreach_window` | 1 customer in a campaign and a delivery, 2 workers, 2 messages | sent means mailed; double mail needs overlapping tasks; an opt-out stops mail within a task's life |
| `outreach_campaign` | 2 recipients, 2 workers | done means every recipient has an outcome |
| `webhook_chain` | 1 event, 3 chains of 2 attempts, 2 workers | bounded POSTs, no repeat after success, chains end, disabling needs a full streak unless tasks overlap |
| `status_sync` | a ticket, one issue or two, 1 poll, 1 handler, 2 changes in the tool, 1 edit, 1 fault | once all is settled item and links agree, with the exceptions the property names; the timeline is true; links catch up, unless crowded; no deadlock |
| `report_schedules` | 2 schedules, 2 workers, 3 hours over the turn of a week and a month, 2 runs, edits or faults | refinement of `ReportPeriods`; the window is the latest; only schedules that are on; a batch leaves none out; nobody waits for ever |
| `automation_rules` | 2 rules that name each other, 1 customer, 2 workers, 1 tick, 2 recomputes, edits or faults | one act per cooldown unless evaluations overlap; the key covers the cooldown; the count follows the log; the cycle ends |
| `feedback_analysis` | 1 item or an import of 2, one of which is edited by 2 requesters, 2 workers, 3 versions, 2 edits or faults | labels are current, results are announced once, nothing stays unanalysed, with the exceptions the properties name |
| `source_import` | Zendesk or Intercom; 2 tickets and 1 worker, or 1 ticket and 2; 1 reviewer, 4 seconds, 1 edit, change or fault | the cursor passes nothing; one item per ticket unless two decided at once; every ticket is seen |
| `import_stuck` | Intercom, 2 conversations, one without text, no faults | violated: a conversation without an item at the cursor ends the import |

Bounds. Executions only meet in the rate limit and in the reaper's batch, so the
at-most-once properties need one execution and as many simultaneous deliveries as can
overtake each other: three messages, two of which are at work while one waits, cover
one that claims, one that read a stale status, and one that arrives later (the proofs
cover any number). Time thresholds are one or two ticks, enough to put each of them
before, at and after each other step; the caps `AgeCap`, `StartCap`, `MailCap` and
`OptCap` lie above every threshold they are compared with. `MaxInFlight` bounds the
messages of an execution at the broker or being worked on. In the rate-limit run it is
one: duplicates of a message do not change what the check sees. That run needs a third
execution, or two workers could not break the bound, and `TimeLimit` is 0 there: its
ticks pass between the steps of tasks. Mail to different customers shares nothing, so
one customer reached along two paths is the interesting instance; the pending count
needs two recipients, since with one there is nothing to count. In `WebhookDelivery`
the parallel chains a counter is shared by come from redelivery (`MaxLost`);
`MaxFailures` bounds how often a dead endpoint is switched on again.

In the later modules one counter bounds edits and faults together (`MaxEvents`;
`StatusSync` has one each). Two of them give every pair: two edits, an edit and a
fault, a fault and the fault of its repetition. `StatusSync` needs two links for the
furthest one to matter and two moves for webhooks to be out of order, with the ranks
and targets of Asana, whose two categories are the smallest table. `ScheduledReports`
uses days of two hours, weeks of three days and a calendar whose months have two or
three days, so that a few hours cross the end of a week and of a month, with a month
that lacks the day. `AutomationRules` has a cooldown of one tick and one tick of time,
which suffices to be inside and after it; executions are counted modulo two, and a
lost or doubled increment still shows. So the run sees one expiry of a cooldown; with
two ticks and two events TLC takes longer than the runs are meant to (with two ticks
and one event it finds no error either). The proofs cover any number of ticks for the
safety properties, while that the cycle ends (`CascadeEnds`) is checked for one expiry
only. In `FeedbackAnalysis` the sweep takes one item, so a second must wait for the
next sweep; one of the two items has a known customer, so a batch commits on the way
and at its end; only the other is edited and deleted (`Edited`), as an edit concerns
one item. Three versions of a text are what two overlapping edits make. `SourceImport`
needs four seconds for: a ticket, a pull that sees it, a later change, a pull that
lists it again. Two tickets and two workers at once are beyond TLC here, and so are
two reviewers of one pending row; the proofs cover them. In `StatusSync` a third link
is the crowded ticket.

`CHECK_DEADLOCK FALSE` is used where the system may stop: executions that are
settled and purged, a run that has ended, mail that is all sent, an endpoint that is
deleted, schedules and rules with their events used up, items that are analysed,
tickets past the last second. `status_sync` checks for deadlock: a poll can always
begin, and the row locks must never prevent that.

Symmetry is used over workers, which no property tells apart, in the `Outreach` runs
and, with executions, in the rate-limit run; never in a run that checks liveness.

### Fairness

`PlaybookExecution!Fairness` claims what the schedule of `celery_app.py`
justifies: time passes, the beat keeps starting the reaper, a task that has begun
goes on until it ends or is killed. The reaper may be lost at any step but not on
every one of its runs (strong fairness of its two deciding steps). Nothing is
claimed of the routes, the broker (deliveries may never come) or of publishes.
`WebhookDelivery!Fairness`: some worker keeps taking waiting messages, and a task
that has begun ends (the request has a timeout, the task a time limit); failing is
one of the ways to end. `Outreach` and `PlaybookRun` have no liveness property:
the code covers lost messages by a button (`Retry`).

`StatusSync`: the beat starts a poll every 15 minutes, which loads every item of an
organization below the cap and is not claimed to load a crowded one, a transaction
that has begun goes on, webhooks are served or lost; nobody has to move an issue.
`ScheduledReports` and `AutomationRules`: each worker goes on with its task and takes
messages; nothing is claimed of administrators, recomputes or time.
`FeedbackAnalysis`: workers and requests go on, Redis lets a lock expire, and the beat
comes again, to every worker that stays idle; the retry with the language model is not
needed and is given no fairness. `SourceImport`: time passes and workers go on, pulls
included; reviewers promise nothing. A failure is bounded in all of them (`MaxFaults`,
`MaxEvents`), which is the assumption under which anything is finished.

### Findings

`import_stuck` refutes what the importer says of itself:
`clients/intercom.py:121` says of the pull's `>=` that it "cannot lose one; it merely
re-fetches the boundary conversation, which FeedbackSourceEvent dedup discards".
The deduplication counts processed and pending events only (`source_events.py:418`).
A conversation at the cursor that was logged as ignored (for its text or its
trigger), or whose item a reviewer rejected, is inserted again under the same
external id; `uq_source_event` refuses the row, the transaction of the run is rolled
back with everything it had imported, and so is every later run.
`EveryTicketSeen` therefore excepts Intercom in that situation (`Blocked`).

### Noted while modelling

Facts about the code that the properties above take into account by an exception,
a history variable or a guard; they have no run of their own.

Playbooks. "Per-(playbook, customer) rate-limit: 60-minute window"
(`playbook_engine.py:55`, also `:28`) is not kept: the query and the claim are two
transactions, and `celery_app.py:94` runs four worker processes. Two executions
created together are both asked about before either is claimed, and both run.
`RecentRunBlocks` states the comment; put in the place of `BurstIsBounded` in the
rate-limit run (as a PROPERTY, without the symmetry), TLC finds that trace.
`BurstIsBounded` is what the code does keep. The limit counts from `created_at`, so a
run dispatched late does not hold back the next (`playbook_engine.py:148`). A
dashboard alert is stored at once, by a session of its own
(`notification_dispatch.py:714`), whatever becomes of the run. The log may say failed
of what is stored: a resolve whose publish raises (`playbook_engine.py:331`), an alert
whose integration raises, a rule that was deleted after its commit
(`playbook_engine.py:1024`). A `tag` or task action that fails to persist rolls back
the pending effects of earlier actions, which stay logged as ok. The reaper's message
refers to an action log that a reaped run never has (`churn_playbooks.py:37`), while
its mail and messages may be out. An exception that came from the database leaves a
session in which the task cannot mark its row failed (`churn_playbooks.py:67`,
`outreach.py:201`).

Outreach and webhooks. The cooldown key is tested before a mail and set after it,
and a queued row is not claimed: two tasks for one customer can both mail within the
window. Two tasks that process the last two recipients of a campaign each see the
other's row as pending, and nobody marks the campaign done. A duplicate task can
overwrite `sent` with `skipped` (`outreach.py:132`). An unsubscribe link is checked
against the first organization that knows the address. The failure counter of a
webhook is written from the value loaded before the request: an overlapping failure
undoes a success's reset and may disable the endpoint right after it answered.
`webhook_delivery.py:236` says that a failure of one dispatch does not affect the
others; a failing `send_task` ends the loop.

Status synchronisation. A link records the new category whether or not the guarded
update of the item wins (`zendesk_status_sync.py:315`, `jira_sync.py:214`), so a
change refused because the item moved meanwhile is not tried again by the poll that
`SELF_HOSTING.md:1839` calls the guaranteed path (`misjudged`). With two links, two
overlapping transactions may each weigh the other's link as it was (`overlapped`),
and the item may then stand behind its furthest link. The poll of Zendesk loads 1000
items with no order and no cursor (`zendesk_status_sync.py:371-381`): a backlog is not
"reconciled over several beats" (`:105-108`) unless the database happens to return
others first, and a ticket beyond the cap that lost its webhook may stay behind.

Scheduled reports. The batch reads each schedule again after a commit
(`scheduled_reports.py:249`); one that was deleted meanwhile raises outside the
handler that protects the others (`scheduled_reports.py:280`) and ends the batch.

Automation rules. Activation seeds the keys of customers above the threshold so
that "only NEW crossings fire after activation" (`automation_engine.py:1026`); the
rule is level-based, so they fire when the seeded cooldown is over. A rule is read
again after each commit of the loop: one switched off meanwhile still acts, as its
mode is only compared with `shadow` (`automation_churn_trigger.py:189`), and one
deleted meanwhile raises where the rule is named for the log, which ends the loop
("one bad rule can't block evaluation of the others", `automation_churn_trigger.py:134`).

Feedback analysis. `feedback.analyzed` is "always fired after successful analysis"
(`webhook_delivery.py:232`), but only the task of a single item dispatches it, and
that one skips an item which the sweep, or its own lost predecessor, has labelled
(`analysis.py:166`): such an item is never announced, nor assigned, nor seen by the
rules. A label may stay on a newer text in three ways (`LabelIsCurrent`): an analysis
that read the older text, in a task or in the route of an overlapping edit, commits
after the edit (`analysis.py:457`, `routes/feedback.py:104`); the edit had loaded the row
without a label, so that its `sentiment_label = None` (`routes/feedback.py:686`) is not
written over one committed since; a worker is lost between the two commits of an
enrichment (`source_events.py:127`, `:167`). Nothing looks at such a label again.

Helpdesk import. Overlapping pull and webhook can make two items of one ticket
(documented at `SELF_HOSTING.md:1815`). The webhook's comment that an ignored row
"must not permanently block a later legitimate redelivery" (`source_webhooks.py:746`)
meets the unique constraint: the redelivery has the same external id. Intercom's
`created` and `replied` webhooks share that id too, so the second one always fails. A
rejected pending item comes back with the next pull that lists its ticket.
`pending_feedback.py:132` stores the item's id in the event before the flush that
assigns it. Of a source linked by OAuth, a token that cannot be decrypted ends the
core without an event (`source_events.py:450`) while the cursor moves; the model has
one source for each organization, linked by a pasted token, where that return is not
reached.

## 4. Proofs

For each module below, TLAPS checks `Spec => []IInv` for an inductive invariant
and the listed theorems from it, for every value of the constants that satisfies the
module's assumptions. What an induction on the data would need, and liveness, is
left to TLC. Every safety and action property of a passing run is stated by a theorem here.

**`PlaybookExecutionProofs`** (`ExecAssumption`, `TimeAssumption`):

* `TypeCorrect`: `Spec => []TypeOK`
* `AtMostOnce`: `Spec => []ActionsAtMostOnce`
* `LiveRunIsNotReaped`: `Spec => []LiveRunKeepsRow`
* `OutcomeIsFinal`: `Spec => TerminalIsFinal`
* `KeepsLifecyclePromise`: `Spec => KeepsPromise`, the refinement
* `BurstBoundedByWorkers`: `Spec => []BurstIsBounded`, if the workers are finitely many

None of the safety properties is inductive alone. `IInv` adds: an idle worker and a
row not yet claimed have made no progress (`NoProgressYet`); the row of a live run is
younger than its task (`LiveRunIsYoung`), hence, by the time limit, not stale; a
holder has dispatched exactly the actions before its step (`HolderProgress`); an id
the reaper has selected as stale has no holder and never will (`StaleIdsAbandoned`),
since a claim needs a queued row. The interesting steps are `Claim` (exclusive because
it tests the status it replaces), `SelectStale` (by `LiveRunIsYoung`), `FailSelected`
(by `StaleIdsAbandoned`) and `Tick`. `OutcomeIsFinal` and the refinement are step
properties that follow from `IInv` before the step. `RecentRunBlocks` is false of two
workers, whose queries may both precede the claims; no run claims it. What is left of
the rate limit is a bound: of one playbook and customer there are never more recent
runs than workers. `Burst` counts them together with the workers that have passed the
check and may still claim (`Racers`): while a recent run is there the check lets
nobody pass, and each claim turns a racer into a run.

**`EffectsProofs`**, about `PlaybookRun` (`LengthAssumption`), for action sequences of
any length:

* `StoredMidwayByRules`: `Spec => []MidwayOnlyByRules`
* `LogShowsLosses`: `Spec => []LossShows`
* `FailedIsNotStored`: `Spec => []FailedLeavesNothing`

The strengthening is `LogTells`: as long as the session can still be committed, every
effect in it or in the database belongs to an entry of the log that says ok, but for
the three handlers that write before they can fail, and an effect rolled back has a
failed entry at or after its own. A dead session is exempt, since a rollback is all
that is left to it. `Placed` says that effects belong to entries that are logged, and
`Closed` that a conversation Intercom was told to close has its write pending, stored
or rolled back.

About `WebhookDelivery` (`WebhookAssumption`), for any events, workers, number of
retries, threshold and number of losses:

* `LossesCostOneChainEach`: `Spec => []LossCostsOneChain`
* `AcceptedEndsTheChain`: `Spec => AcceptedIsNotRepeated`
* `OnlyAStreakDisables`: `Spec => DisabledByStreak`

The first is a counting argument. A message still owes its own attempt and those
after it, a worker what it has not yet POSTed; `Waiting` and `Held` are these debts as
finite sets of pairs, one for each attempt of each copy of a message and of each
worker: their cardinality can be reasoned about without an induction over the bag.
`Bounded` says that POSTs made plus POSTs owed stay within one chain and one more per
loss: taking a message moves its debt to the worker, a POST turns one unit of debt
into a POST, a failure hands the rest on, and only a loss or a repeated message adds
to it, at most one chain. The second uses `OneCarrier`: unless something of an
event was lost or repeated, one message or one worker carries it, and none once it
is accepted. The third uses `Alone`: until two deliveries overlap, the counter a
worker loaded is the counter of the row, and the streak is that counter up to the
threshold, through every toggle, crash and lost worker. (The two modules share a proof
module, and no variable: `RunInit`, `RunNext` and `RunSpec` are those of `PlaybookRun`.)

**`OutreachProofs`** (`DataAssumption`, `TimeAssumption`):

* `TypeCorrect`: `Spec => []TypeOK`
* `NoFalseSuccess`: `Spec => []SentMeansMailed`
* `DoneIsTrue`: `Spec => []DoneMeansSettled`
* `OverlapIsTheOnlyWay`: `Spec => DoubleMailOnlyByOverlap`
* `OptOutIsHonoured`: `Spec => OptOutStopsMail`

`IInv` (at the end of `Outreach`) adds four ideas. An outcome on its
way to the row is a true one (`OutcomeIsTrue`). Nobody processes a recipient before
its campaign exists, and then all its rows exist (`AskedIsCreated`,
`CreatedHasRows`), so that an outcome, once written, is only ever replaced by
another and what a task counted before its commit still holds at the commit
(`LastIsLast`). Since a mail, either its key is there or the task that sent it is
about to set it (`KeyCovers`); hence a task that found no key found a mail that is
a cooldown old or younger than an overlapping task (`SenderSawNoKey`). A task
past the opt-out check with the flag up is older than the flag (`OptOutIsYoung`).

**`ScheduledReportsProofs`** (`ActorAssumption`, `CalendarAssumption`,
`BoundAssumption`):

* `TypeCorrect`: `Spec => []TypeOK`
* `ReportsAreWanted`: `Spec => OnlyForEnabled`
* `OneWindowOneReport`: `Spec => OneReportPerWindow`, the refinement of `ReportPeriods`
* `LatestWindow`: `Spec => []WindowIsLatest`
* `BatchesServeAll`: `Spec => BatchServesAll`

The invariant says that a row lock is held exactly by the worker that generates
that schedule's report. While it is held nobody else writes the row, so what made
the claim possible (the schedule is on, its last run is before the cutoff) still
holds at the commit; a lemma about the calendar says that a cutoff is never later
than the hour it was computed for.

The other two need the arithmetic of the window. A day of a week is found by a
remainder; a day of a month because day numbers count up by one from the first of
each month, so that the last day before today with a given number is a subtraction
away (`SameWeekday`, `SameMonthDay`, `WindowDay`). The statements about all days between
are proved from a least counterexample (`LeastElement`, from the well-foundedness of
the natural numbers), as an induction rule cannot be cited here. Two clauses of
`CalendarAssumption` are needed for them: the calendar starts on the first of a month,
and the day of a plan is within its week, or at least 1, which the request schema
enforces (`report_schedules.py:87`). `BInv` then says that the window in hand is
that of the plan the session holds (`Windowed`), and, as long as nothing is edited and
nothing fails, that a session's rows are current (`Fresh`) and that a batch drops
only schedules that are not due or have the report of their window (`BatchOK`),
be it the report of another batch.

**`AutomationRulesProofs`** (`ConstantAssumption`):

* `TypeCorrect`: `Spec => []TypeOK`
* `KeyCoversCooldown`: `Spec => []HeldBack`
* `ActsOncePerCooldown`: `Spec => NoEarlyFire`
* `CountCorrect`: `Spec => []CountIsLog`

`Held` strengthens `HeldBack`: where the key does not cover the cooldown, some
worker has acted and stands right before setting it, or an activation has not
seeded it yet. `Together` says that a worker which has looked at the key is excused
as soon as such another one exists, and `Waited` that otherwise it found a cooldown
that was over and still is. `Counts` relates the column to the committed executions
and to what the sessions that hold the rule will write.

**`FeedbackAnalysisProofs`** (`ConstantAssumption`):

* `TypeCorrect`: `Spec => []TypeOK`
* `LabelsAreCurrent`: `Spec => []LabelIsCurrent`
* `NeverAnnouncedTwice`: `Spec => []AnnouncedOnce`

`Fresh`: unless the item is marked as crossed or an enrichment stands between its
commits, whoever is about to write its label, a worker or a request, holds the current
text. Then a label that is written is current; a text that changes either finds nobody
with the older one and takes its label with it, or marks the item. `Alone`: as long as
no two analyses raced, at most one session that has read an item is concerned with it,
and one that has still to announce it finds it unannounced and labelled; a sweep that
has not read its item yet disturbs nobody (`Peeks`), which is what lets the invariant
survive the sweep's late second look. One lemma (`WorkerTruth`) states what a step of
a worker must respect, another (`RouteTruth`) what a step of a route must; each action
is then a short proof.

**`SourceImportProofs`** (`SetupAssumption`, `TicketAssumption`, `BoundAssumption`,
`SentinelAssumption`):

* `TypeCorrect`: `Spec => []TypeOK`
* `NoTicketPassedOver`: `Spec => []CursorLosesNothing`
* `ImportedOnce`: `Spec => []OnceUnlessOverlap`

The cursor property is strengthened to what a task under way will have committed:
what lies before the cursor it is about to write has an event in the database or in
its own draft. The other counts, per ticket, the items, the committed events that
say processed and the drafts: without a race at most one of them is there.

**`StatusSyncProofs`** (`ActorAssumption`, `DataAssumption`, `BoundAssumption`):

* `TimelineIsTrue`: `Spec => SyncEventIsTrue`
* `ItemFollowsLinks`: `Spec => []Agrees`
* `SettledInSync`: `Spec => []SettledMeansInSync`
* `TypeCorrect`: `Spec => []TypeOK`

A transaction that has changed the item holds its lock, and the item stands where
the transaction saw it (`Owns`); for a tracker's handler this needs that it has
written its links before it turns to the item (`LinksFirst`).

`Agrees` is stronger than the property of the run: unless excused, item and links agree
in every state, not only in a settled one, since a transaction commits both. What
makes it inductive is what a session knows: as long as no transaction has committed
beside it, the rows it loaded are the stored ones and, once it weighs them, so is the
status of the item (`Informed`); and it writes exactly the links it found new or changed
(`Orderly`). With a single link a commit rewrites all that the item is weighed
against, which is why a ticket, or one issue, agrees even after overlapping
transactions.

`TypeOK` says that the item always has a status, though a category may map to none: who
has moved the item aims at one (`MoversAim`), because `most_advanced` returns the furthest
of the categories and finitely many links have a furthest one (`MostAdvancedIsFurthest`,
from the well-foundedness of the natural numbers).

Every inductive invariant was model-checked on the instances of section 3 before
it was proved.

Model-checked only: liveness under fairness (`EveryExecutionSettles`,
`EventsComeToRest`, `LinksCatchUp`, `ComesToRest`, `CascadeEnds`,
`AnalysedInTheEnd`, `EveryTicketSeen`), which is out of the provers' reach. The `TypeOK`
of `WebhookDelivery` is listed in no run and not proved as it stands: its bound on `lost`
follows from a sum over the events, which takes an induction over data. The proofs about
that module use a type invariant of their own (`Types`), with natural numbers in place of
the bounds.

## 5. Plan

Done, in this order: `PlaybookExecution` with `PlaybookLifecycle`, `PlaybookRun`,
`Outreach`, `WebhookDelivery`, `StatusSync`, `ReportPeriods` and `ScheduledReports`,
`AutomationRules`, `FeedbackAnalysis`, `SourceImport`, and the proofs of section 4.

Next:

1. `AutomationRules`: the triggers on feedback and on the usage trend, which check
   and set the key differently; a composition with `FeedbackAnalysis` that follows an
   item from its arrival to the playbook run it causes.
2. Proofs: the same for the modules that this list adds.
3. Churn calibration: the promotion of a model as a state machine.
4. The CRM cursors, which share the structure of `SourceImport` without events.

## 6. Not modelled

The components marked `not_modelled` in `PROJECT.json`, with the reason there. Most
of the repository's hundred thousand lines are user interfaces, CRUD routes, prompt
construction, field mappings, analytics queries and models: one request, one
transaction, no step that another actor could come between. They are outside the
map on purpose, which is why it covers a small share of the lines. Within the
modelled components the `note` of each names what is left out: mostly formatting,
filters, administration and the decoding of a tool's answers.
