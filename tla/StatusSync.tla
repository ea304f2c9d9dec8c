----------------------------- MODULE StatusSync -----------------------------
(***************************************************************************)
(* One feedback item whose workflow status follows the issues it is linked *)
(* to in another tool.  Two writers keep it in step: the poll of the       *)
(* worker, every 15 minutes, and the webhook handler of the API.  Each is  *)
(* one READ COMMITTED transaction made of several round trips; a user may  *)
(* move the item by hand at any time.                                      *)
(*                                                                         *)
(* A "tracker" (Jira, Asana) may have several links, and the furthest one  *)
(* decides; a "ticket" (Zendesk) has a single one, kept in a sidecar row.  *)
(* One action is one statement of a transaction, or one call to the tool.  *)
(***************************************************************************)
EXTENDS Integers, FiniteSets

CONSTANTS
  Link,          \* issues, tasks or tickets
  Crowded,       \* tickets among more than _PER_RUN_FEEDBACK_CAP of one organization
  Category,      \* what the tool may report of a link
  Rank,          \* CATEGORY_RANK
  Status,        \* VALID_STATUSES
  Target,        \* Target[c]: the status a category maps to, or Nothing
  Nothing,
  Setup,         \* set of [tool, links]: what the item may be linked to
  Poll, Hook,
  Nobody,
  MaxMoves,      \* bounds of the model: changes in the tool,
  MaxEdits,      \*   by hand,
  MaxFaults      \*   webhooks delivered again and transactions that break

ASSUME DataAssumption ==
  /\ IsFiniteSet(Link)
  /\ Nothing \notin Category \cup Status \cup Link
  /\ Rank \in [Category -> Nat]
  /\ Target \in [Category -> Status \cup {Nothing}]
  /\ Setup \subseteq [tool : {"tracker", "ticket"}, links : SUBSET Link \ {{}}]
  /\ \A s \in Setup : s.tool = "ticket" => Cardinality(s.links) = 1
  /\ Crowded \subseteq Link
  /\ \A s \in Setup : s.tool = "tracker" => s.links \cap Crowded = {}

ASSUME ActorAssumption ==
  /\ Poll \cap Hook = {}
  /\ Nobody \notin Poll \cup Hook

ASSUME BoundAssumption == {MaxMoves, MaxEdits, MaxFaults} \subseteq Nat

VARIABLES
  tool, linked,  \* the kind of tool, and the links of the item
  remote,        \* category of each link in the tool
  link,          \* committed category column of each link, Nothing if never seen
  status,        \* committed workflow_status of the item
  deliveries,    \* webhooks under way: pairs of a link and a category
  pc,            \* what each poll and each webhook handler does next
  seen,          \* categories its session has loaded (Nothing where it has not)
  got,           \* categories it learned from the tool
  old,           \* the status it observed
  moved,         \* its transaction has changed the status, not yet committed
  flushed,       \* links its transaction has updated, not yet committed
  lockItem, lockLink,       \* holders of the row locks
  moves, edits, faults,
  overlapped,    \* a sync transaction committed while another was open
  misjudged,     \* it recorded a change of a link, but the item had left `old`
  behind         \* a link was first seen further than the item was

db      == <<link, status>>
locks   == <<lockItem, lockLink>>
session == <<pc, seen, got, old, moved, flushed>>
bounds  == <<moves, edits, faults>>
ghosts  == <<overlapped, misjudged, behind>>
vars == <<tool, linked, remote, db, deliveries, session, locks, bounds, ghosts>>

Sync == Poll \cup Hook
Pc == {"idle", "fetch", "decide", "observe", "apply", "flush", "commit"}
Unseen == [l \in linked |-> Nothing]

\* most_advanced: the furthest of the known categories.
MostAdvanced(cats) ==
  LET known == {cats[l] : l \in linked} \cap Category
  IN IF known = {} THEN Nothing
     ELSE CHOOSE c \in known : \A d \in known : Rank[d] <= Rank[c]
TargetOf(cats) ==
  IF MostAdvanced(cats) = Nothing THEN Nothing ELSE Target[MostAdvanced(cats)]

\* decide_link_update, for the links the tool answered about.
Heard(p)   == {l \in linked : got[p][l] # Nothing}
Seeded(p)  == {l \in Heard(p) : seen[p][l] = Nothing}
Changed(p) == {l \in Heard(p) : seen[p][l] # Nothing /\ seen[p][l] # got[p][l]}
Pending(p) == Seeded(p) \cup Changed(p)
\* The links as the session sees them after its own assignments.
Live(p) == [l \in linked |-> IF l \in Pending(p) THEN got[p][l] ELSE seen[p][l]]

TypeOK ==
  /\ tool \in {"tracker", "ticket"} /\ linked \subseteq Link
  /\ remote \in [linked -> Category]
  /\ link \in [linked -> Category \cup {Nothing}]
  /\ status \in Status
  /\ deliveries \subseteq linked \X Category
  /\ pc \in [Sync -> Pc]
  /\ seen \in [Sync -> [linked -> Category \cup {Nothing}]]
  /\ got \in [Sync -> [linked -> Category \cup {Nothing}]]
  /\ old \in [Sync -> Status \cup {Nothing}]
  /\ moved \in [Sync -> BOOLEAN]
  /\ flushed \in [Sync -> SUBSET linked]
  /\ lockItem \in Sync \cup {Nobody}
  /\ lockLink \in [linked -> Sync \cup {Nobody}]
  /\ moves \in 0..MaxMoves /\ edits \in 0..MaxEdits /\ faults \in 0..MaxFaults
  /\ {overlapped, misjudged, behind} \subseteq BOOLEAN
  /\ \A p \in Sync : moved[p] <=> lockItem = p
  /\ \A p \in Sync, l \in linked : l \in flushed[p] <=> lockLink[l] = p

Init ==
  /\ \E s \in Setup : tool = s.tool /\ linked = s.links
  /\ \E c \in Category :
       /\ Target[c] # Nothing
       /\ remote = [l \in linked |-> c]
       /\ status = Target[c]
       /\ link \in [linked -> {Nothing, c}]
  /\ deliveries = {}
  /\ pc = [p \in Sync |-> "idle"]
  /\ seen = [p \in Sync |-> Unseen]
  /\ got = [p \in Sync |-> Unseen]
  /\ old = [p \in Sync |-> Nothing]
  /\ moved = [p \in Sync |-> FALSE]
  /\ flushed = [p \in Sync |-> {}]
  /\ lockItem = Nobody
  /\ lockLink = [l \in linked |-> Nobody]
  /\ moves = 0 /\ edits = 0 /\ faults = 0
  /\ overlapped = FALSE /\ misjudged = FALSE /\ behind = FALSE

-----------------------------------------------------------------------------
(* The tool, and the way of a webhook.                                     *)

\* Somebody moves an issue; the tool sends a webhook.
Move(l, c) ==
  /\ moves < MaxMoves /\ c # remote[l]
  /\ remote' = [remote EXCEPT ![l] = c]
  /\ deliveries' = deliveries \cup {<<l, c>>}
  /\ moves' = moves + 1
  /\ UNCHANGED <<tool, linked, db, session, locks, edits, faults, ghosts>>

Lose(d) ==
  /\ d \in deliveries
  /\ deliveries' = deliveries \ {d}
  /\ UNCHANGED <<tool, linked, remote, db, session, locks, bounds, ghosts>>

-----------------------------------------------------------------------------
(* Transactions.                                                           *)

\* The transaction ends, by commit or rollback: its locks go, and its session.
Close(p) ==
  /\ pc' = [pc EXCEPT ![p] = "idle"]
  /\ seen' = [seen EXCEPT ![p] = Unseen]
  /\ got' = [got EXCEPT ![p] = Unseen]
  /\ old' = [old EXCEPT ![p] = Nothing]
  /\ moved' = [moved EXCEPT ![p] = FALSE]
  /\ flushed' = [flushed EXCEPT ![p] = {}]
  /\ lockItem' = IF lockItem = p THEN Nobody ELSE lockItem
  /\ lockLink' = [l \in linked |-> IF lockLink[l] = p THEN Nobody ELSE lockLink[l]]

\* The poll loads its rows: the links of a tracker, the item of a ticket.  Of
\* tickets it loads a limited number, in no order and from no cursor, so a poll
\* may run without a crowded one; see Fairness.
PollStart(p) ==
  /\ pc[p] = "idle"
  /\ pc' = [pc EXCEPT ![p] = "fetch"]
  /\ IF tool = "tracker"
     THEN seen' = [seen EXCEPT ![p] = link] /\ UNCHANGED old
     ELSE old' = [old EXCEPT ![p] = status] /\ UNCHANGED seen
  /\ UNCHANGED <<tool, linked, remote, db, deliveries, got, moved, flushed, locks,
                 bounds, ghosts>>

\* Jira answers for a chunk of issues, Asana for one task, Zendesk for a chunk of
\* tickets: the links are fetched one by one.
PollFetch(p, l) ==
  /\ pc[p] = "fetch" /\ got[p][l] = Nothing
  /\ got' = [got EXCEPT ![p][l] = remote[l]]
  /\ pc' = [pc EXCEPT ![p] = IF Heard(p) \cup {l} = linked THEN "decide" ELSE "fetch"]
  /\ UNCHANGED <<tool, linked, remote, db, deliveries, seen, old, moved, flushed, locks,
                 bounds, ghosts>>

\* A tracker's poll loads the item; a ticket's poll loads the sidecar row.
PollDecide(p) ==
  /\ pc[p] = "decide"
  /\ IF tool = "tracker"
     THEN old' = [old EXCEPT ![p] = status] /\ UNCHANGED seen
     ELSE seen' = [seen EXCEPT ![p] = link] /\ UNCHANGED old
  /\ pc' = [pc EXCEPT ![p] = "apply"]
  /\ UNCHANGED <<tool, linked, remote, db, deliveries, got, moved, flushed, locks,
                 bounds, ghosts>>

\* A webhook reaches the handler, which loads the row of its link (and, for a
\* ticket, the item), and is done if it has seen that category.  A delivery may come
\* again.
Receive(h, d) ==
  /\ pc[h] = "idle" /\ d \in deliveries
  /\ \/ deliveries' = deliveries \ {d} /\ UNCHANGED faults
     \/ faults < MaxFaults /\ faults' = faults + 1 /\ UNCHANGED deliveries
  /\ IF link[d[1]] = d[2] THEN UNCHANGED session
     ELSE /\ got' = [got EXCEPT ![h][d[1]] = d[2]]
          /\ seen' = [seen EXCEPT ![h][d[1]] = link[d[1]]]
          /\ old' = IF tool = "tracker" THEN old ELSE [old EXCEPT ![h] = status]
          /\ pc' = [pc EXCEPT ![h] = IF tool = "tracker" THEN "flush" ELSE "apply"]
          /\ UNCHANGED <<moved, flushed>>
  /\ UNCHANGED <<tool, linked, remote, db, locks, moves, edits, ghosts>>

\* Mutated form of HookObserve: only the link of the webhook is weighed.
HookObserveOwn(h) ==
  /\ pc[h] = "observe"
  /\ old' = [old EXCEPT ![h] = status]
  /\ pc' = [pc EXCEPT ![h] = "apply"]
  /\ UNCHANGED <<tool, linked, remote, db, deliveries, seen, got, moved, flushed, locks,
                 bounds, ghosts>>

\* reconcile_issue, after its flush: if a link changed, load the item and all its
\* links.  Its own link is in the session already.
HookObserve(h) ==
  /\ pc[h] = "observe"
  /\ old' = [old EXCEPT ![h] = status]
  /\ seen' = [seen EXCEPT ![h] =
                [l \in linked |-> IF l \in Heard(h) THEN seen[h][l] ELSE link[l]]]
  /\ pc' = [pc EXCEPT ![h] = "apply"]
  /\ UNCHANGED <<tool, linked, remote, db, deliveries, got, moved, flushed, locks,
                 bounds, ghosts>>

\* What follows the status update: the poll and the ticket handler still have the
\* link rows to write, a tracker's handler has written its own.
AfterApply(p) == IF Pending(p) \subseteq flushed[p] THEN "commit" ELSE "flush"

\* No status update: nothing changed, no target, or the item is there already.
Wants(p) == Changed(p) # {} /\ TargetOf(Live(p)) \notin {Nothing, old[p]}

SkipApply(p) ==
  /\ pc[p] = "apply" /\ ~Wants(p)
  /\ pc' = [pc EXCEPT ![p] = AfterApply(p)]
  /\ UNCHANGED <<tool, linked, remote, db, deliveries, seen, got, old, moved, flushed,
                 locks, bounds, ghosts>>

\* Mutated form of GuardedUpdate: compared and written in Python, as before the guard.
GuardedUpdateInMemory(p) ==
  /\ pc[p] = "apply" /\ Wants(p)
  /\ moved' = [moved EXCEPT ![p] = (status = old[p])]
  /\ pc' = [pc EXCEPT ![p] = AfterApply(p)]
  /\ UNCHANGED <<tool, linked, remote, db, deliveries, seen, got, old, flushed, locks,
                 bounds, ghosts>>

\* UPDATE ... WHERE workflow_status = old: takes the row lock, or matches no row.
GuardedUpdate(p) ==
  /\ pc[p] = "apply" /\ Wants(p)
  /\ \/ /\ status = old[p] /\ lockItem = Nobody
        /\ lockItem' = p
        /\ moved' = [moved EXCEPT ![p] = TRUE]
     \/ status # old[p] /\ UNCHANGED <<lockItem, moved>>
  /\ pc' = [pc EXCEPT ![p] = AfterApply(p)]
  /\ UNCHANGED <<tool, linked, remote, db, deliveries, seen, got, old, flushed, lockLink,
                 bounds, ghosts>>

\* The link rows are written at a flush, each under its lock.  After its flush,
\* reconcile_issue goes on only if a link changed.
FlushLink(p, l) ==
  /\ pc[p] = "flush"
  /\ l \in Pending(p) \ flushed[p] /\ lockLink[l] = Nobody
  /\ lockLink' = [lockLink EXCEPT ![l] = p]
  /\ flushed' = [flushed EXCEPT ![p] = @ \cup {l}]
  /\ pc' = [pc EXCEPT ![p] =
              IF Pending(p) \ flushed[p] # {l} THEN "flush"
              ELSE IF tool = "tracker" /\ p \in Hook /\ Changed(p) # {} THEN "observe"
              ELSE "commit"]
  /\ UNCHANGED <<tool, linked, remote, db, deliveries, seen, got, old, moved, lockItem,
                 bounds, ghosts>>

\* Mutated form of Written: a change is recorded only with a status update.
WrittenIfMoved(p, l) == l \in flushed[p] /\ (l \in Seeded(p) \/ moved[p])

\* The sidecar INSERT of a first observation gives way to a row that is there.
Written(p, l) ==
  /\ l \in flushed[p]
  /\ ~(tool = "ticket" /\ l \in Seeded(p) /\ link[l] # Nothing)

Commit(p) ==
  /\ pc[p] = "commit"
  /\ link' = [l \in linked |-> IF Written(p, l) THEN got[p][l] ELSE link[l]]
  /\ status' = IF moved[p] THEN TargetOf(Live(p)) ELSE status
  /\ overlapped' = (overlapped \/ \E q \in Sync \ {p} : pc[q] # "idle")
  /\ behind' = (~moved[p] /\ (behind \/ (Seeded(p) # {} /\ TargetOf(link') # status)))
  /\ misjudged' = (misjudged \/ (Changed(p) # {} /\ ~moved[p]
                                   /\ (Wants(p) \/ status # old[p])))
  /\ Close(p)
  /\ UNCHANGED <<tool, linked, remote, deliveries, bounds>>

\* The tool does not answer, a process dies, the database refuses: rollback.
Break(p) ==
  /\ pc[p] # "idle" /\ faults < MaxFaults
  /\ faults' = faults + 1
  /\ Close(p)
  /\ UNCHANGED <<tool, linked, remote, db, deliveries, moves, edits, ghosts>>

\* Two transactions wait for each other's row: the database aborts one of them.
WaitsForItem(p, q) ==
  /\ pc[p] = "apply" /\ Wants(p) /\ status = old[p] /\ lockItem = q
WaitsForLink(p, q) ==
  /\ pc[p] = "flush" /\ \E l \in Pending(p) \ flushed[p] : lockLink[l] = q
WaitsFor(p, q) == WaitsForItem(p, q) \/ WaitsForLink(p, q)

AbortDeadlock(p, q) ==
  /\ p # q /\ WaitsFor(p, q) /\ WaitsFor(q, p)
  /\ Close(p)
  /\ UNCHANGED <<tool, linked, remote, db, deliveries, bounds, ghosts>>

-----------------------------------------------------------------------------
(* A user moves the item: a plain UPDATE at the commit of the request, which  *)
(* asks nothing of the old status but waits for the row lock.                 *)

Edit(s) ==
  /\ edits < MaxEdits /\ lockItem = Nobody /\ s # status
  /\ status' = s
  /\ edits' = edits + 1
  /\ UNCHANGED <<tool, linked, remote, link, deliveries, session, locks, moves, faults,
                 ghosts>>

-----------------------------------------------------------------------------
Step(p) ==
  \/ PollDecide(p) \/ HookObserve(p) \/ SkipApply(p) \/ GuardedUpdate(p)
  \/ Commit(p)
  \/ \E l \in linked : PollFetch(p, l) \/ FlushLink(p, l)
  \/ \E q \in Sync : AbortDeadlock(p, q)
HookTurn == \E d \in linked \X Category : Lose(d) \/ \E h \in Hook : Receive(h, d)

Next ==
  \/ \E l \in linked, c \in Category : Move(l, c)
  \/ HookTurn
  \/ \E p \in Poll : PollStart(p)
  \/ \E p \in Sync : Step(p) \/ Break(p)
  \/ \E s \in Status : Edit(s)

\* A poll that loads every item of its organization, whatever the database
\* returns first.
FullPoll(p) == linked \cap Crowded = {} /\ PollStart(p)

\* The beat starts a poll every 15 minutes, and a task that runs goes on; requests
\* are served or lost.  Nobody has to move an issue or edit an item, and nothing
\* makes a poll take up a crowded ticket: the same others may come first each time.
Fairness ==
  /\ \A p \in Poll : WF_vars(FullPoll(p))
  /\ \A p \in Sync : WF_vars(Step(p))
  /\ WF_vars(HookTurn)

Spec == Init /\ [][Next]_vars /\ Fairness

-----------------------------------------------------------------------------
\* Nothing is under way, and every link shows what the tool shows.
Settled ==
  /\ deliveries = {} /\ \A p \in Sync : pc[p] = "idle"
  /\ link = remote

InSync == TargetOf(link) \in {Nothing, status}

\* Once everything is settled, the item stands where its furthest link stands,
\* however poll and webhooks interleaved: unless a user moved it, a first
\* observation found the link ahead (never applied, by design), a transaction
\* recorded a change of a link while the item was no longer where it had seen it, or,
\* with several links, two transactions overlapped and one weighed stale links.
\* From a settled state no poll looks again: every link is a noop.
SettledMeansInSync ==
  Settled /\ edits = 0 /\ ~behind /\ ~misjudged /\ (Cardinality(linked) = 1 \/ ~overlapped)
    => InSync

\* The timeline tells the truth: when a sync event "from old to new" is committed,
\* the item did stand at old until that moment, even with users who overwrite it
\* unguarded and with the other writer at work (status_writer.py: "the guard is
\* meaningful").
SyncEventIsTrue ==
  [][\A p \in Sync : moved[p] /\ pc[p] = "commit" /\ pc'[p] = "idle" /\ faults' = faults
       => status = old[p] /\ status' # status]_vars

\* The poll is the guaranteed path for what the tool shows, as long as it loads
\* every item: whatever webhooks are lost, repeated or late, and whatever
\* transactions break, in the end every link holds the category of the tool.  A
\* crowded ticket that lost its webhook may stay behind for ever.
LinksCatchUp == linked \cap Crowded = {} => <>[](link = remote)
=============================================================================
