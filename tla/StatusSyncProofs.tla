--------------------------- MODULE StatusSyncProofs ---------------------------
(* Machine-checked proofs about StatusSync, for any links, categories, polls *)
(* and handlers.                                                             *)
EXTENDS StatusSync, FiniteSetTheorems, WellFoundedInduction, TLAPS

(* The inductive invariant.                                                  *)

Domains ==
  /\ DOMAIN pc = Sync /\ DOMAIN seen = Sync /\ DOMAIN got = Sync /\ DOMAIN old = Sync
  /\ moved \in [Sync -> BOOLEAN]
  /\ DOMAIN flushed = Sync
  /\ faults \in Nat

\* A handler of a tracker has written its links when it turns to the item.
LinksFirst ==
  \A p \in Hook :
    /\ pc[p] \notin {"fetch", "decide"}
    /\ tool = "tracker" /\ pc[p] \in {"observe", "apply"} => Pending(p) \subseteq flushed[p]

\* Who has changed the item, in its transaction, has locked it: it stands where the
\* transaction saw it, and is about to go somewhere else.
Owns(p) ==
  /\ lockItem = p /\ status = old[p] /\ TargetOf(Live(p)) # old[p]
  /\ pc[p] \in {"flush", "commit"}
  /\ tool = "tracker" /\ p \in Hook => pc[p] = "commit"
MoversOwn == \A p \in Sync : moved[p] => Owns(p)

IInv == Domains /\ LinksFirst /\ MoversOwn

LEMMA InitIInv == Init => IInv
<1> SUFFICES ASSUME Init PROVE IInv
  OBVIOUS
<1>1. \A p \in Sync : pc[p] = "idle" /\ ~moved[p]
  BY DEF Init
<1>2. Domains
  BY DEF Init, Domains
<1> QED BY <1>1, <1>2 DEF IInv, LinksFirst, MoversOwn, Sync

-----------------------------------------------------------------------------
\* Another session's view of its links.
LEMMA SameView ==
  ASSUME NEW p \in Sync, UNCHANGED linked, seen'[p] = seen[p], got'[p] = got[p]
  PROVE  /\ Pending(p)' = Pending(p) /\ Changed(p)' = Changed(p)
         /\ TargetOf(Live(p))' = TargetOf(Live(p))
<1>1. Heard(p)' = Heard(p)
  BY DEF Heard
<1>2. Seeded(p)' = Seeded(p) /\ Changed(p)' = Changed(p)
  BY <1>1 DEF Seeded, Changed
<1>3. Pending(p)' = Pending(p)
  BY <1>2 DEF Pending
<1>4. Live(p)' = Live(p)
  BY <1>3 DEF Live
<1> QED BY <1>2, <1>3, <1>4 DEF TargetOf, MostAdvanced

\* A session that others leave alone keeps what it has, while nobody else moves the
\* item or takes its lock.
Apart(p) ==
  \A q \in Sync \ {p} : /\ pc'[q] = pc[q] /\ seen'[q] = seen[q] /\ got'[q] = got[q]
                        /\ old'[q] = old[q] /\ moved'[q] = moved[q] /\ flushed'[q] = flushed[q]

LEMMA OthersKeep ==
  ASSUME IInv, NEW p \in Sync, Apart(p), UNCHANGED <<tool, linked>>, Domains',
         \A q \in Sync \ {p} : moved[q] => lockItem' = lockItem /\ status' = status,
         moved'[p] => Owns(p)',
         p \in Hook => pc'[p] \notin {"fetch", "decide"},
         p \in Hook /\ tool = "tracker" /\ pc'[p] \in {"observe", "apply"} =>
           Pending(p)' \subseteq flushed'[p]
  PROVE  IInv'
<1>1. \A q \in Sync \ {p} : /\ Pending(q)' = Pending(q)
                            /\ TargetOf(Live(q))' = TargetOf(Live(q))
  BY SameView DEF Apart
<1>2. LinksFirst'
  BY <1>1 DEF IInv, LinksFirst, Apart, Sync
<1>3. MoversOwn'
  <2> SUFFICES ASSUME NEW q \in Sync \ {p}, moved'[q] PROVE Owns(q)'
    BY DEF MoversOwn
  <2>1. moved[q] /\ Owns(q)
    BY DEF Apart, IInv, MoversOwn
  <2> QED BY <1>1, <2>1 DEF Owns, Apart
<1> QED BY <1>2, <1>3 DEF IInv

LEMMA CloseFacts ==
  ASSUME IInv, NEW p \in Sync, Close(p), faults' \in Nat
  PROVE  /\ Domains' /\ Apart(p) /\ pc'[p] = "idle" /\ ~moved'[p]
         /\ \A q \in Sync \ {p} : moved[q] => lockItem' = lockItem
<1>1. Domains' /\ Apart(p) /\ pc'[p] = "idle" /\ ~moved'[p]
  BY DEF Close, IInv, Domains, Apart
<1> QED BY <1>1 DEF Close, IInv, MoversOwn, Owns

\* The end of a transaction that leaves the item as it is.
LEMMA CloseKeeps ==
  ASSUME IInv, NEW p \in Sync, Close(p), faults' \in Nat, UNCHANGED <<tool, linked>>,
         \A q \in Sync \ {p} : moved[q] => status' = status
  PROVE  IInv'
  BY CloseFacts, OthersKeep

LEMMA CommitKeeps == ASSUME IInv, NEW p \in Sync, Commit(p) PROVE IInv'
<1>1. \A q \in Sync \ {p} : moved[q] => status' = status
  BY DEF Commit, IInv, MoversOwn, Owns
<1> QED BY <1>1, CloseKeeps DEF Commit, bounds, IInv, Domains

LEMMA BreakKeeps == ASSUME IInv, NEW p \in Sync, Break(p) PROVE IInv'
  BY CloseKeeps DEF Break, db, IInv, Domains

LEMMA AbortKeeps == ASSUME IInv, NEW p \in Sync, NEW q \in Sync, AbortDeadlock(p, q) PROVE IInv'
  BY CloseKeeps DEF AbortDeadlock, db, bounds, IInv, Domains

\* The steps before the item is written: the session has not moved it.
LEMMA NotYet ==
  ASSUME IInv, NEW p \in Sync, pc[p] \in {"idle", "fetch", "decide", "observe", "apply"}
  PROVE  ~moved[p]
  BY DEF IInv, MoversOwn, Owns

LEMMA PollStartKeeps == ASSUME IInv, NEW p \in Poll, PollStart(p) PROVE IInv'
<1>1. p \in Sync /\ ~moved[p]
  BY NotYet DEF PollStart, Sync
<1>2. Domains' /\ Apart(p) /\ pc'[p] = "fetch" /\ ~moved'[p]
  BY <1>1 DEF PollStart, IInv, Domains, Apart, bounds
<1> QED BY <1>1, <1>2, ActorAssumption, OthersKeep DEF PollStart, db, locks

LEMMA PollFetchKeeps ==
  ASSUME IInv, NEW p \in Sync, NEW l \in linked, PollFetch(p, l)
  PROVE  IInv'
<1>1. ~moved[p] /\ p \notin Hook
  BY NotYet DEF PollFetch, IInv, LinksFirst
<1>2. Domains' /\ Apart(p) /\ ~moved'[p]
  BY <1>1 DEF PollFetch, IInv, Domains, Apart, bounds
<1> QED BY <1>1, <1>2, OthersKeep DEF PollFetch, db, locks

LEMMA PollDecideKeeps == ASSUME IInv, NEW p \in Sync, PollDecide(p) PROVE IInv'
<1>1. ~moved[p] /\ p \notin Hook
  BY NotYet DEF PollDecide, IInv, LinksFirst
<1>2. Domains' /\ Apart(p) /\ ~moved'[p]
  BY <1>1 DEF PollDecide, IInv, Domains, Apart, bounds
<1> QED BY <1>1, <1>2, OthersKeep DEF PollDecide, db, locks

LEMMA ReceiveKeeps ==
  ASSUME IInv, NEW h \in Hook, NEW d \in linked \X Category, Receive(h, d)
  PROVE  IInv'
<1>1. h \in Sync /\ ~moved[h] /\ pc[h] = "idle"
  BY NotYet DEF Receive, Sync
<1>2. faults' \in Nat
  BY DEF Receive, IInv, Domains
<1>3. Domains' /\ Apart(h) /\ ~moved'[h] /\ pc'[h] \in {"idle", "flush", "apply"}
      /\ (tool = "tracker" => pc'[h] # "apply")
  <2>1. CASE UNCHANGED session
    BY <1>1, <1>2, <2>1 DEF session, IInv, Domains, Apart
  <2>2. CASE ~UNCHANGED session
    BY <1>1, <1>2, <2>2 DEF Receive, IInv, Domains, Apart
  <2> QED BY <2>1, <2>2
<1> QED BY <1>1, <1>3, OthersKeep DEF Receive, db, locks

LEMMA HookObserveKeeps == ASSUME IInv, NEW p \in Sync, HookObserve(p) PROVE IInv'
<1>1. ~moved[p] /\ pc[p] = "observe" /\ UNCHANGED <<tool, linked, got, flushed>>
  BY NotYet DEF HookObserve
<1>2. Domains' /\ Apart(p) /\ ~moved'[p] /\ pc'[p] = "apply"
  BY <1>1 DEF HookObserve, IInv, Domains, Apart, bounds
<1>3. Pending(p)' = Pending(p)
  <2>1. Heard(p)' = Heard(p)
    BY <1>1 DEF Heard
  <2>2. \A l \in Heard(p) : seen'[p][l] = seen[p][l]
    BY DEF HookObserve, IInv, Domains, Heard
  <2> QED BY <1>1, <2>1, <2>2 DEF Pending, Seeded, Changed
<1>4. p \in Hook /\ tool = "tracker" => Pending(p)' \subseteq flushed'[p]
  BY <1>1, <1>3 DEF IInv, LinksFirst
<1> QED BY <1>1, <1>2, <1>4, OthersKeep DEF HookObserve, db, locks

LEMMA SkipApplyKeeps == ASSUME IInv, NEW p \in Sync, SkipApply(p) PROVE IInv'
<1>1. ~moved[p]
  BY NotYet DEF SkipApply
<1>2. Domains' /\ Apart(p) /\ ~moved'[p] /\ pc'[p] \in {"commit", "flush"}
  BY <1>1 DEF SkipApply, AfterApply, IInv, Domains, Apart, bounds
<1> QED BY <1>2, OthersKeep DEF SkipApply, db, locks

LEMMA GuardedUpdateKeeps == ASSUME IInv, NEW p \in Sync, GuardedUpdate(p) PROVE IInv'
<1>1. ~moved[p] /\ pc[p] = "apply" /\ UNCHANGED <<tool, linked, seen, got, old, flushed, status>>
  BY NotYet DEF GuardedUpdate, db
<1>2. Domains' /\ Apart(p) /\ pc'[p] = AfterApply(p)
  BY <1>1 DEF GuardedUpdate, IInv, Domains, Apart, bounds
<1>3. AfterApply(p) \in {"commit", "flush"}
      /\ (tool = "tracker" /\ p \in Hook => AfterApply(p) = "commit")
  BY <1>1 DEF AfterApply, IInv, LinksFirst
<1>4. moved'[p] => status = old[p] /\ lockItem = Nobody /\ lockItem' = p
  BY <1>1 DEF GuardedUpdate, IInv, Domains
<1>5. TargetOf(Live(p))' = TargetOf(Live(p)) /\ TargetOf(Live(p)) # old[p]
  BY <1>1, SameView DEF GuardedUpdate, Wants
<1>6. moved'[p] => Owns(p)'
  BY <1>1, <1>2, <1>3, <1>4, <1>5 DEF Owns
<1>7. \A q \in Sync \ {p} : moved[q] => lockItem' = lockItem
  BY ActorAssumption DEF GuardedUpdate, IInv, MoversOwn, Owns, Sync
<1> QED BY <1>1, <1>2, <1>3, <1>6, <1>7, OthersKeep

LEMMA FlushLinkKeeps ==
  ASSUME IInv, NEW p \in Sync, NEW l \in linked, FlushLink(p, l)
  PROVE  IInv'
<1>1. /\ pc[p] = "flush" /\ UNCHANGED <<tool, linked, seen, got, old, status, moved, lockItem>>
      /\ l \in Pending(p) \ flushed[p]
  BY DEF FlushLink, db
<1>2. Domains' /\ Apart(p) /\ flushed'[p] = flushed[p] \cup {l}
  BY <1>1 DEF FlushLink, IInv, Domains, Apart, bounds
<1>3. /\ pc'[p] \in {"flush", "observe", "commit"}
      /\ pc'[p] = "observe" => tool = "tracker" /\ p \in Hook /\ Pending(p) \ flushed[p] = {l}
  BY <1>1 DEF FlushLink, IInv, Domains
<1>4. Pending(p)' = Pending(p) /\ TargetOf(Live(p))' = TargetOf(Live(p))
  BY <1>1, SameView
<1>5. moved'[p] => Owns(p)'
  BY <1>1, <1>3, <1>4 DEF IInv, MoversOwn, Owns
<1>6. pc'[p] = "observe" => Pending(p)' \subseteq flushed'[p]
  BY <1>2, <1>3, <1>4
<1> QED BY <1>1, <1>2, <1>3, <1>5, <1>6, OthersKeep

\* The tool, a webhook that is lost, and a user who edits the item.
LEMMA OutsideKeeps ==
  ASSUME IInv, UNCHANGED <<tool, linked, session, lockItem>>, faults' \in Nat,
         status' = status \/ lockItem = Nobody
  PROVE  IInv'
<1>1. \A q \in Sync : /\ Pending(q)' = Pending(q)
                      /\ TargetOf(Live(q))' = TargetOf(Live(q))
  BY SameView DEF session
<1>2. Domains' /\ LinksFirst'
  BY <1>1 DEF session, IInv, Domains, LinksFirst, Sync
<1>3. MoversOwn'
  BY <1>1, ActorAssumption DEF session, IInv, MoversOwn, Owns, Sync
<1> QED BY <1>2, <1>3 DEF IInv

LEMMA NextKeeps == ASSUME IInv, [Next]_vars PROVE IInv'
<1>1. CASE (\E l \in linked, c \in Category : Move(l, c)) \/ (\E d \in linked \X Category : Lose(d))
           \/ (\E s \in Status : Edit(s)) \/ UNCHANGED vars
  BY <1>1, OutsideKeeps DEF Move, Lose, Edit, vars, db, locks, bounds, IInv, Domains
<1>2. CASE \E h \in Hook, d \in linked \X Category : Receive(h, d)
  BY <1>2, ReceiveKeeps
<1>3. CASE \E p \in Poll : PollStart(p)
  BY <1>3, PollStartKeeps
<1>4. CASE \E p \in Sync : Step(p) \/ Break(p)
  BY <1>4, PollDecideKeeps, HookObserveKeeps, SkipApplyKeeps, GuardedUpdateKeeps, CommitKeeps,
     PollFetchKeeps, FlushLinkKeeps, AbortKeeps, BreakKeeps DEF Step
<1> QED BY <1>1, <1>2, <1>3, <1>4 DEF Next, HookTurn

-----------------------------------------------------------------------------
(* The theorem.                                                              *)

\* A session at its commit ends by the commit, or by a fault.
LEMMA EndsByCommit ==
  ASSUME IInv, [Next]_vars, NEW p \in Sync,
         pc[p] = "commit", pc'[p] = "idle", faults' = faults
  PROVE  Commit(p)
<1>1. faults + 1 # faults
  BY DEF IInv, Domains
<1>2. ASSUME NEW q \in Sync, Step(q) \/ Break(q) PROVE Commit(p)
  <2>1. CASE Break(q)
    BY <1>1, <2>1 DEF Break
  <2>2. CASE AbortDeadlock(q, p) \/ \E r \in Sync : AbortDeadlock(q, r)
    <3>1. PICK r \in Sync : AbortDeadlock(q, r)
      BY <2>2
    <3>2. q # p
      BY <3>1 DEF AbortDeadlock, WaitsFor, WaitsForItem, WaitsForLink
    <3> QED BY <3>1, <3>2 DEF AbortDeadlock, Close, IInv, Domains
  <2>3. CASE Commit(q)
    BY <2>3 DEF Commit, Close, IInv, Domains
  <2>4. CASE PollDecide(q) \/ HookObserve(q) \/ SkipApply(q) \/ GuardedUpdate(q)
             \/ \E l \in linked : PollFetch(q, l) \/ FlushLink(q, l)
    <3>1. pc[q] # "commit"
      BY <2>4 DEF PollDecide, HookObserve, SkipApply, GuardedUpdate, PollFetch, FlushLink
    <3>2. pc' = [pc EXCEPT ![q] = pc'[q]]
      BY <2>4 DEF PollDecide, HookObserve, SkipApply, GuardedUpdate, PollFetch, FlushLink,
                  IInv, Domains
    <3> QED BY <3>1, <3>2 DEF IInv, Domains
  <2> QED BY <1>2, <2>1, <2>2, <2>3, <2>4 DEF Step
<1>3. CASE (\E l \in linked, c \in Category : Move(l, c)) \/ (\E d \in linked \X Category : Lose(d))
           \/ (\E s \in Status : Edit(s)) \/ UNCHANGED vars
  BY <1>3 DEF Move, Lose, Edit, vars, session
<1>4. CASE \E h \in Hook, d \in linked \X Category : Receive(h, d)
  BY <1>4 DEF Receive, session, IInv, Domains
<1>5. CASE \E q \in Poll : PollStart(q)
  BY <1>5 DEF PollStart, IInv, Domains
<1> QED BY <1>2, <1>3, <1>4, <1>5 DEF Next, HookTurn

THEOREM Invariance == Spec => []IInv
  BY InitIInv, NextKeeps, PTL DEF Spec

\* A committed sync event names the status that the item really left, and left by it:
\* no user and no other writer came in between.
THEOREM TimelineIsTrue == Spec => SyncEventIsTrue
<1>1. ASSUME IInv, [Next]_vars
      PROVE  [\A p \in Sync :
                moved[p] /\ pc[p] = "commit" /\ pc'[p] = "idle" /\ faults' = faults
                  => status = old[p] /\ status' # status]_vars
  <2> SUFFICES ASSUME NEW p \in Sync, moved[p], pc[p] = "commit", pc'[p] = "idle",
                      faults' = faults
               PROVE  status = old[p] /\ status' # status
    OBVIOUS
  <2>1. Commit(p)
    BY <1>1, EndsByCommit
  <2>2. status = old[p] /\ TargetOf(Live(p)) # old[p]
    BY <1>1 DEF IInv, MoversOwn, Owns
  <2> QED BY <2>1, <2>2 DEF Commit
<1> QED BY <1>1, Invariance, PTL DEF Spec, SyncEventIsTrue

-----------------------------------------------------------------------------
(* Item and links agree.  The invariant says what a session knows of the     *)
(* rows it weighs, as long as no transaction has committed beside it.        *)

Single == Cardinality(linked) = 1
Setting ==
  /\ linked \subseteq Link /\ link = [l \in linked |-> link[l]]
  /\ tool \in {"tracker", "ticket"} /\ (tool = "ticket" => Single)
  /\ edits \in Nat

\* A session writes what it found changed or new, no more and, at its commit, no less.
Orderly(p) ==
  /\ pc[p] = "idle" => seen[p] = Unseen /\ got[p] = Unseen
  /\ pc[p] \in {"idle", "fetch", "decide"} => flushed[p] = {}
  /\ pc[p] = "observe" => p \in Hook /\ tool = "tracker"
  /\ pc[p] = "commit" => Pending(p) \subseteq flushed[p]
  /\ flushed[p] \subseteq Pending(p)
  /\ moved[p] => Changed(p) # {}

\* The session is about to decide on the item, or has decided.
Weighed(p) ==
  \/ pc[p] = "apply"
  \/ p \in Poll /\ pc[p] \in {"flush", "commit"}
  \/ pc[p] = "commit" /\ Changed(p) # {}

\* What a tracker's session has loaded is what is stored.
Informed(p) ==
  tool = "tracker" /\ ~overlapped =>
    /\ p \in Poll /\ pc[p] # "idle" => seen[p] = link
    /\ p \in Hook /\ pc[p] # "idle" => \A l \in Heard(p) : seen[p][l] = link[l]
    /\ Weighed(p) => seen[p] = link /\ (edits = 0 => old[p] = status)

Excused == edits # 0 \/ behind \/ misjudged \/ (overlapped /\ ~Single)
Agrees == ~Excused => InSync

SInv == Setting /\ (\A p \in Sync : Orderly(p) /\ Informed(p)) /\ Agrees

LEMMA SingleLink ==
  ASSUME linked \subseteq Link
  PROVE  Single <=> \E l : linked = {l}
<1>1. IsFiniteSet(linked)
  BY DataAssumption, FS_Subset
<1> QED BY <1>1, FS_Singleton DEF Single

LEMMA InitSInv == Init => SInv
<1> SUFFICES ASSUME Init PROVE SInv
  OBVIOUS
<1>1. Setting
  <2>1. PICK s \in Setup : tool = s.tool /\ linked = s.links
    BY DEF Init
  <2>2. /\ s.links \subseteq Link
        /\ s.tool \in {"tracker", "ticket"}
        /\ s.tool = "ticket" => Cardinality(s.links) = 1
    BY DataAssumption
  <2>3. link = [l \in linked |-> link[l]]
    BY DEF Init
  <2> QED BY <2>1, <2>2, <2>3 DEF Setting, Single, Init
<1>2. ASSUME NEW p \in Sync PROVE Orderly(p) /\ Informed(p)
  BY DEF Init, Orderly, Informed, Weighed
<1>3. InSync
  <2>1. PICK c \in Category :
          status = Target[c] /\ link \in [linked -> {Nothing, c}]
    BY DEF Init
  <2> DEFINE known == {link[l] : l \in linked} \cap Category
  <2>2. CASE known = {}
    BY <2>2 DEF InSync, TargetOf, MostAdvanced
  <2>3. CASE known # {}
    <3>1. known = {c} /\ Nothing \notin Category
      BY <2>1, <2>3, DataAssumption
    <3>2. Rank[c] <= Rank[c]
      BY DataAssumption
    <3>3. (CHOOSE b \in {c} : \A d \in {c} : Rank[d] <= Rank[b]) = c
      BY <3>2
    <3>4. MostAdvanced(link) = c
      BY <3>1, <3>3 DEF MostAdvanced
    <3> QED BY <2>1, <3>4 DEF InSync, TargetOf
  <2> QED BY <2>2, <2>3
<1> QED BY <1>1, <1>2, <1>3 DEF SInv, Agrees

\* A session nobody touches, while the rows it loaded stay.
LEMMA StillOrderly ==
  ASSUME NEW q \in Sync, UNCHANGED <<tool, linked>>, Orderly(q),
         pc'[q] = pc[q], seen'[q] = seen[q], got'[q] = got[q], old'[q] = old[q],
         moved'[q] = moved[q], flushed'[q] = flushed[q]
  PROVE  Orderly(q)'
<1>1. Pending(q)' = Pending(q) /\ Changed(q)' = Changed(q)
  BY SameView
<1> QED BY <1>1 DEF Orderly, Unseen

LEMMA StillInformed ==
  ASSUME NEW q \in Sync, UNCHANGED <<tool, linked>>, Informed(q),
         pc'[q] = pc[q], seen'[q] = seen[q], got'[q] = got[q], old'[q] = old[q],
         overlapped' = overlapped, link' = link,
         edits' = 0 => edits = 0 /\ status' = status
  PROVE  Informed(q)'
<1>1. Pending(q)' = Pending(q) /\ Changed(q)' = Changed(q) /\ Heard(q)' = Heard(q)
  BY SameView DEF Heard
<1> QED BY <1>1 DEF Informed, Weighed

\* A step of one session that leaves the rows alone.
Rows == <<tool, linked, link, status, edits, overlapped, behind, misjudged>>
LEMMA SessionStep ==
  ASSUME SInv, NEW p \in Sync, Apart(p), UNCHANGED Rows, Orderly(p)', Informed(p)'
  PROVE  SInv'
<1>1. \A q \in Sync : Orderly(q)' /\ Informed(q)'
  BY StillOrderly, StillInformed DEF SInv, Apart, Rows
<1>2. Setting' /\ Agrees'
  BY DEF SInv, Setting, Single, Agrees, Excused, InSync, TargetOf, MostAdvanced, Rows
<1> QED BY <1>1, <1>2 DEF SInv

\* A transaction that has ended has nothing to answer for.
LEMMA CloseOrderly ==
  ASSUME IInv, NEW p \in Sync, Close(p), UNCHANGED linked
  PROVE  Orderly(p)' /\ Informed(p)'
<1>1. /\ pc'[p] = "idle" /\ seen'[p] = Unseen /\ got'[p] = Unseen /\ flushed'[p] = {}
      /\ moved'[p] = FALSE
  BY DEF Close, IInv, Domains
<1>2. Unseen' = Unseen
  BY DEF Unseen
<1> QED BY <1>1, <1>2 DEF Orderly, Informed, Weighed

LEMMA RollbackAgrees ==
  ASSUME SInv, IInv, NEW p \in Sync, Break(p) \/ \E q \in Sync : AbortDeadlock(p, q)
  PROVE  SInv'
<1>1. Close(p) /\ UNCHANGED Rows /\ faults' \in Nat
  BY DEF Break, AbortDeadlock, Rows, db, bounds, ghosts, IInv, Domains
<1>2. Apart(p)
  BY <1>1, CloseFacts
<1>3. Orderly(p)' /\ Informed(p)'
  BY <1>1, CloseOrderly DEF Rows
<1> QED BY <1>1, <1>2, <1>3, SessionStep

LEMMA PollAgrees ==
  ASSUME SInv, IInv, NEW p \in Sync,
         \/ p \in Poll /\ PollStart(p)
         \/ \E l \in linked : PollFetch(p, l)
         \/ PollDecide(p)
  PROVE  SInv'
<1>1. pc[p] \in {"idle", "fetch", "decide"} /\ flushed[p] = {} /\ ~moved[p]
  BY NotYet DEF PollStart, PollFetch, PollDecide, SInv, Orderly
<1>2. p \in Poll /\ p \notin Hook
  BY ActorAssumption DEF PollFetch, PollDecide, IInv, LinksFirst, Sync
<1>3. UNCHANGED Rows /\ flushed' = flushed /\ moved' = moved
  BY DEF PollStart, PollFetch, PollDecide, Rows, db, bounds, ghosts
<1>4. Apart(p)
  BY DEF PollStart, PollFetch, PollDecide, IInv, Domains, Apart
<1>5. pc'[p] \in {"fetch", "decide", "apply"}
  BY DEF PollStart, PollFetch, PollDecide, IInv, Domains
<1>6. Orderly(p)'
  BY <1>1, <1>3, <1>5 DEF Orderly
<1>7. Informed(p)'
  <2> SUFFICES ASSUME tool = "tracker", ~overlapped
               PROVE  seen'[p] = link /\ (pc'[p] = "apply" => old'[p] = status)
    BY <1>2, <1>3, <1>5 DEF Informed, Weighed, Rows
  <2>1. CASE PollStart(p)
    BY <2>1 DEF PollStart, IInv, Domains
  <2>2. CASE \E l \in linked : PollFetch(p, l)
    BY <1>2, <2>2 DEF PollFetch, IInv, Domains, SInv, Informed
  <2>3. CASE PollDecide(p)
    BY <1>2, <2>3 DEF PollDecide, IInv, Domains, SInv, Informed
  <2> QED BY <2>1, <2>2, <2>3
<1> QED BY <1>3, <1>4, <1>6, <1>7, SessionStep

LEMMA ReceiveAgrees ==
  ASSUME SInv, IInv, NEW h \in Hook, NEW d \in linked \X Category, Receive(h, d)
  PROVE  SInv'
<1>1. h \in Sync /\ h \notin Poll /\ pc[h] = "idle" /\ UNCHANGED Rows
  BY ActorAssumption DEF Receive, Sync, Rows, db, ghosts
<1>2. CASE UNCHANGED session
  <2>1. Apart(h)
    BY <1>2 DEF session, Apart
  <2>2. Orderly(h) /\ Informed(h)
    BY <1>1 DEF SInv
  <2>3. Orderly(h)' /\ Informed(h)'
    BY <1>1, <1>2, <2>2, StillOrderly, StillInformed DEF session, Rows
  <2> QED BY <1>1, <2>1, <2>3, SessionStep
<1>3. CASE ~UNCHANGED session
  <2>1. seen[h] = Unseen /\ got[h] = Unseen /\ flushed[h] = {} /\ ~moved[h]
    BY <1>1, NotYet DEF SInv, Orderly
  <2>2. /\ got' = [got EXCEPT ![h][d[1]] = d[2]]
        /\ seen' = [seen EXCEPT ![h][d[1]] = link[d[1]]]
        /\ pc' = [pc EXCEPT ![h] = IF tool = "tracker" THEN "flush" ELSE "apply"]
        /\ UNCHANGED <<moved, flushed>>
        /\ old' = IF tool = "tracker" THEN old ELSE [old EXCEPT ![h] = status]
    BY <1>3 DEF Receive
  <2>3. Apart(h)
    BY <2>2 DEF Apart, IInv, Domains
  <2>4. pc'[h] = (IF tool = "tracker" THEN "flush" ELSE "apply")
    BY <1>1, <2>2 DEF IInv, Domains
  <2>5. Orderly(h)'
    BY <2>1, <2>2, <2>4 DEF Orderly
  <2>6. ASSUME NEW l \in Heard(h)' PROVE seen'[h][l] = link[l]
    <3>1. l \in linked /\ got'[h][l] # Nothing /\ d[1] \in linked
      BY <1>1, <2>6 DEF Heard, Rows
    <3>2. got'[h] = [got[h] EXCEPT ![d[1]] = d[2]] /\ seen'[h] = [seen[h] EXCEPT ![d[1]] = link[d[1]]]
      BY <1>1, <2>2 DEF IInv, Domains
    <3>3. l = d[1]
      BY <2>1, <3>1, <3>2 DEF Unseen
    <3> QED BY <2>1, <3>1, <3>2, <3>3 DEF Unseen
  <2>7. Informed(h)'
    BY <1>1, <2>4, <2>6 DEF Informed, Weighed, Rows
  <2> QED BY <1>1, <2>3, <2>5, <2>7, SessionStep
<1> QED BY <1>2, <1>3

LEMMA HookObserveAgrees ==
  ASSUME SInv, IInv, NEW p \in Sync, HookObserve(p)
  PROVE  SInv'
<1>1. /\ p \in Hook /\ tool = "tracker" /\ ~moved[p] /\ UNCHANGED Rows
      /\ pc[p] = "observe" /\ UNCHANGED <<got, flushed, moved>>
  BY NotYet DEF HookObserve, SInv, Orderly, Rows, db, bounds, ghosts
<1>2. /\ Apart(p) /\ pc'[p] = "apply" /\ old'[p] = status
      /\ seen'[p] = [l \in linked |-> IF l \in Heard(p) THEN seen[p][l] ELSE link[l]]
  BY DEF HookObserve, IInv, Domains, Apart
<1>3. Pending(p)' = Pending(p)
  <2>1. Heard(p)' = Heard(p)
    BY <1>1 DEF Heard, Rows
  <2>2. \A l \in Heard(p) : seen'[p][l] = seen[p][l]
    BY <1>2 DEF Heard
  <2> QED BY <1>1, <2>1, <2>2 DEF Pending, Seeded, Changed
<1>4. Orderly(p)'
  BY <1>1, <1>2, <1>3 DEF Orderly, SInv
<1>5. Informed(p)'
  <2> SUFFICES ASSUME ~overlapped PROVE seen'[p] = link /\ old'[p] = status
    BY <1>1 DEF Informed, Rows
  <2>1. \A l \in Heard(p) : seen[p][l] = link[l]
    BY <1>1 DEF SInv, Informed
  <2>2. link = [l \in linked |-> link[l]]
    BY DEF SInv, Setting
  <2> QED BY <1>2, <2>1, <2>2
<1> QED BY <1>1, <1>2, <1>4, <1>5, SessionStep

LEMMA ApplyAgrees ==
  ASSUME SInv, IInv, NEW p \in Sync, SkipApply(p) \/ GuardedUpdate(p)
  PROVE  SInv'
<1>1. /\ pc[p] = "apply" /\ UNCHANGED Rows /\ UNCHANGED <<seen, got, old, flushed>>
      /\ ~moved[p]
  BY NotYet DEF SkipApply, GuardedUpdate, Rows, db, bounds, ghosts
<1>2. /\ Apart(p) /\ pc'[p] = AfterApply(p)
      /\ moved'[p] => Wants(p)
  BY <1>1 DEF SkipApply, GuardedUpdate, IInv, Domains, Apart
<1>3. Pending(p)' = Pending(p) /\ Changed(p)' = Changed(p) /\ Heard(p)' = Heard(p)
  BY <1>1, SameView DEF Rows, Heard
<1>4. Orderly(p)'
  BY <1>1, <1>2, <1>3 DEF Orderly, SInv, AfterApply, Wants
<1>5. Informed(p)'
  BY <1>1, <1>2, <1>3 DEF Informed, Weighed, SInv, AfterApply, Rows
<1> QED BY <1>1, <1>2, <1>4, <1>5, SessionStep

LEMMA FlushAgrees ==
  ASSUME SInv, IInv, NEW p \in Sync, NEW l \in linked, FlushLink(p, l)
  PROVE  SInv'
<1>1. /\ pc[p] = "flush" /\ UNCHANGED Rows /\ UNCHANGED <<seen, got, old, moved>>
      /\ l \in Pending(p)
  BY DEF FlushLink, Rows, db, bounds, ghosts
<1>2. /\ Apart(p) /\ flushed'[p] = flushed[p] \cup {l}
      /\ pc'[p] = IF Pending(p) \ flushed[p] # {l} THEN "flush"
                  ELSE IF tool = "tracker" /\ p \in Hook /\ Changed(p) # {} THEN "observe"
                  ELSE "commit"
  BY DEF FlushLink, IInv, Domains, Apart
<1>3. Pending(p)' = Pending(p) /\ Changed(p)' = Changed(p) /\ Heard(p)' = Heard(p)
  BY <1>1, SameView DEF Rows, Heard
<1>4. Orderly(p)'
  BY <1>1, <1>2, <1>3 DEF Orderly, SInv, Rows
<1>5. Informed(p)'
  BY <1>1, <1>2, <1>3 DEF Informed, Weighed, SInv, Rows, Sync
<1> QED BY <1>1, <1>2, <1>4, <1>5, SessionStep

\* A transaction that has changed a link leaves all links as its session saw them:
\* with a single link by what it wrote, with several if it was alone.
LEMMA CommitLands ==
  ASSUME SInv, IInv, NEW p \in Sync, Commit(p), Changed(p) # {}, Single \/ ~overlapped
  PROVE  link' = Live(p)
<1>1. /\ link' = [l \in linked |-> IF Written(p, l) THEN got[p][l] ELSE link[l]]
      /\ flushed[p] = Pending(p) /\ Changed(p) \subseteq Pending(p) /\ Changed(p) \subseteq linked
  BY DEF Commit, SInv, Orderly, Pending, Changed, Heard
<1>2. Live(p) = [l \in linked |-> IF l \in Pending(p) THEN got[p][l] ELSE seen[p][l]]
  BY DEF Live
<1>3. ASSUME NEW l \in linked, l \in Pending(p) PROVE Written(p, l)
  <2> SUFFICES ASSUME tool = "ticket", l \in Seeded(p) PROVE FALSE
    BY <1>1, <1>3 DEF Written
  <2>1. PICK m : linked = {m}
    BY SingleLink DEF SInv, Setting
  <2>2. l \in Changed(p)
    BY <1>1, <2>1
  <2> QED BY <2>2 DEF Changed, Seeded
<1>4. ASSUME NEW l \in linked, l \notin Pending(p) PROVE ~Written(p, l) /\ link[l] = seen[p][l]
  <2>1. ~Single
    BY <1>1, <1>4, SingleLink DEF SInv, Setting
  <2>2. tool = "tracker" /\ Weighed(p)
    BY <2>1 DEF SInv, Setting, Weighed, Commit
  <2>3. seen[p] = link
    BY <2>1, <2>2 DEF SInv, Informed
  <2> QED BY <1>1, <1>4, <2>3 DEF Written
<1> QED BY <1>1, <1>2, <1>3, <1>4

LEMMA CommitAgrees ==
  ASSUME SInv, IInv, NEW p \in Sync, Commit(p)
  PROVE  SInv'
<1>1. Close(p) /\ faults' \in Nat /\ UNCHANGED <<tool, linked, edits>>
  BY DEF Commit, bounds, IInv, Domains
<1>2. Apart(p)
  BY <1>1, CloseFacts
<1>3. Setting'
  BY <1>1 DEF Commit, SInv, Setting, Single
<1>4. ASSUME NEW q \in Sync PROVE Orderly(q)' /\ Informed(q)'
  <2>1. CASE q = p
    BY <1>1, <2>1, CloseOrderly
  <2>2. CASE q # p
    <3>1. Orderly(q)'
      BY <1>1, <1>2, <2>2, StillOrderly DEF SInv, Apart
    <3>2. ~overlapped' => pc'[q] = "idle"
      BY <1>2, <2>2 DEF Commit, Apart
    <3> QED BY <3>1, <3>2 DEF Informed, Weighed
  <2> QED BY <2>1, <2>2
<1>5. ASSUME ~Excused' PROVE InSync'
  <2>1. /\ edits = 0 /\ ~behind' /\ ~misjudged' /\ (Single \/ ~overlapped)
        /\ ~misjudged /\ (~moved[p] => ~behind)
    BY <1>1, <1>5 DEF Excused, Commit, Single
  <2>2. TargetOf(link)' = TargetOf(link')
    BY <1>1 DEF TargetOf, MostAdvanced
  <2> SUFFICES TargetOf(link') \in {Nothing, status'}
    BY <2>2 DEF InSync
  <2>3. CASE Changed(p) # {} /\ moved[p]
    BY <2>1, <2>3, CommitLands DEF Commit
  <2>4. CASE Changed(p) # {} /\ ~moved[p]
    <3>1. status' = status /\ ~Wants(p) /\ status = old[p]
      BY <2>1, <2>4 DEF Commit
    <3> QED BY <2>1, <2>4, <3>1, CommitLands DEF Wants
  <2>5. CASE Changed(p) = {}
    <3>1. ~moved[p] /\ status' = status
      BY <2>5 DEF SInv, Orderly, Commit
    <3>2. CASE Seeded(p) # {}
      BY <2>1, <3>1, <3>2 DEF Commit
    <3>3. CASE Seeded(p) = {}
      <4>1. flushed[p] = {}
        BY <2>5, <3>3 DEF SInv, Orderly, Pending
      <4>2. link' = link
        BY <4>1 DEF Commit, Written, SInv, Setting
      <4>3. InSync
        BY <2>1, <3>1 DEF SInv, Agrees, Excused
      <4> QED BY <3>1, <4>2, <4>3 DEF InSync
    <3> QED BY <3>2, <3>3
  <2> QED BY <2>3, <2>4, <2>5
<1> QED BY <1>3, <1>4, <1>5 DEF SInv, Agrees

\* The tool, a webhook that is lost, and a user: an edit excuses what follows.
LEMMA OutsideAgrees ==
  ASSUME SInv, UNCHANGED <<tool, linked, session, link, ghosts>>,
         (edits' = edits /\ status' = status) \/ edits' = edits + 1
  PROVE  SInv'
<1>1. edits' \in Nat /\ (edits' = 0 => edits = 0 /\ status' = status)
  BY DEF SInv, Setting
<1>2. ASSUME NEW q \in Sync PROVE Orderly(q)' /\ Informed(q)'
  BY <1>1, StillOrderly, StillInformed DEF SInv, session, ghosts
<1>3. Setting' /\ Agrees'
  BY <1>1 DEF SInv, Setting, Single, Agrees, Excused, InSync, TargetOf, MostAdvanced, ghosts
<1> QED BY <1>2, <1>3 DEF SInv

LEMMA NextAgrees == ASSUME SInv, IInv, [Next]_vars PROVE SInv'
<1>1. CASE (\E l \in linked, c \in Category : Move(l, c)) \/ (\E d \in linked \X Category : Lose(d))
           \/ (\E s \in Status : Edit(s)) \/ UNCHANGED vars
  BY <1>1, OutsideAgrees DEF Move, Lose, Edit, vars, db, bounds
<1>2. CASE \E h \in Hook, d \in linked \X Category : Receive(h, d)
  BY <1>2, ReceiveAgrees
<1>3. CASE \E p \in Poll : PollStart(p)
  BY <1>3, PollAgrees DEF Sync
<1>4. CASE \E p \in Sync : Step(p) \/ Break(p)
  BY <1>4, PollAgrees, HookObserveAgrees, ApplyAgrees, FlushAgrees, CommitAgrees, RollbackAgrees
     DEF Step
<1> QED BY <1>1, <1>2, <1>3, <1>4 DEF Next, HookTurn

\* The item stands where its furthest link stands, at every moment: unless a user moved
\* it, a first observation found the link ahead, a transaction recorded a change while
\* the item was elsewhere, or two transactions overlapped over several links.
THEOREM ItemFollowsLinks == Spec => []Agrees
<1>1. Init => SInv
  BY InitSInv
<1>2. IInv /\ SInv /\ [Next]_vars => SInv'
  BY NextAgrees
<1>3. SInv => Agrees
  BY DEF SInv
<1> QED BY <1>1, <1>2, <1>3, Invariance, PTL DEF Spec

\* In particular once everything is settled, when no poll would look again.
THEOREM SettledInSync == Spec => []SettledMeansInSync
<1>1. Agrees => SettledMeansInSync
  BY DEF Agrees, Excused, Single, SettledMeansInSync
<1> QED BY <1>1, ItemFollowsLinks, PTL

-----------------------------------------------------------------------------
(* Types.  The status a commit writes is the target of a furthest category,  *)
(* and a finite set of links has one.                                        *)

\* A non-empty set of numbers has a least one.
LEMMA LeastNumber ==
  ASSUME NEW T, T \subseteq Nat, T # {}
  PROVE  \E x \in T : \A y \in T : x <= y
<1>1. PICK x \in T : \A y \in T : <<y, x>> \notin OpToRel(<, Nat)
  BY NatLessThanWellFounded, WFMin
<1>2. \A y \in T : ~(y < x)
  BY <1>1, Zenon DEF OpToRel
<1> QED BY <1>2

\* Of finitely many ranked things one is ranked highest: otherwise take the first number
\* of them that has no highest.
LEMMA HighestExists ==
  ASSUME NEW S, IsFiniteSet(S), S # {}, NEW g, \A x \in S : g[x] \in Nat
  PROVE  \E x \in S : \A y \in S : g[y] <= g[x]
<1> DEFINE n == Cardinality(S)
<1>1. n \in Nat /\ n # 0
  BY FS_CardinalityType, FS_EmptySet
<1>2. PICK f : f \in Bijection(1..n, S)
  BY FS_CardinalityType DEF ExistsBijection
<1> HIDE DEF n
<1>3. (\A i \in 1..n : f[i] \in S) /\ (\A x \in S : \E i \in 1..n : f[i] = x)
  BY <1>2 DEF Bijection, Injection, Surjection
<1> DEFINE Bad == {k \in 1..n : ~\E i \in 1..k : \A j \in 1..k : g[f[j]] <= g[f[i]]}
<1>4. Bad = {}
  <2> SUFFICES ASSUME Bad # {} PROVE FALSE
    OBVIOUS
  <2>1. PICK k \in Bad : \A m \in Bad : k <= m
    <3>1. Bad \subseteq Nat
      BY <1>1
    <3> HIDE DEF Bad
    <3> QED BY <3>1, LeastNumber
  <2>2. k \in 1..n /\ ~\E i \in 1..k : \A j \in 1..k : g[f[j]] <= g[f[i]]
    BY <2>1
  <2>3. k \in Nat \ {0} /\ \A i \in 1..k : g[f[i]] \in Nat
    BY <1>1, <1>3, <2>2
  <2>4. k # 1
    BY <2>2, <2>3
  <2>5. k - 1 \in 1..n /\ k - 1 \notin Bad
    <3>1. k - 1 \in 1..n /\ ~(k <= k - 1)
      BY <1>1, <2>2, <2>4
    <3> QED BY <2>1, <3>1
  <2>6. PICK i \in 1..(k - 1) : \A j \in 1..(k - 1) : g[f[j]] <= g[f[i]]
    BY <2>5
  <2>7. CASE g[f[k]] <= g[f[i]]
    <3>1. \A j \in 1..k : j = k \/ j \in 1..(k - 1)
      BY ONLY <2>3
    <3>2. \A j \in 1..k : g[f[j]] <= g[f[i]]
      BY <2>6, <2>7, <3>1
    <3> QED BY <2>2, <2>6, <3>2
  <2>8. CASE ~(g[f[k]] <= g[f[i]])
    <3>1. /\ \A j \in 1..k : j = k \/ j \in 1..(k - 1)
          /\ k \in 1..k /\ i \in 1..k
      BY ONLY <2>3, i \in 1..(k - 1)
    <3>2. ASSUME NEW j \in 1..k PROVE g[f[j]] <= g[f[k]]
      <4>1. g[f[j]] \in Nat /\ g[f[i]] \in Nat /\ g[f[k]] \in Nat
        BY <2>3, <3>1
      <4>2. j = k \/ g[f[j]] <= g[f[i]]
        BY <2>6, <3>1
      <4> QED BY <2>8, <4>1, <4>2
    <3> QED BY <2>2, <3>1, <3>2
  <2> QED BY <2>7, <2>8
<1>5. PICK i \in 1..n : \A j \in 1..n : g[f[j]] <= g[f[i]]
  <2>1. n \in 1..n
    BY <1>1
  <2> QED BY <1>4, <2>1
<1> QED BY <1>3, <1>5

\* most_advanced returns the furthest of the known categories, if one is known.
LEMMA MostAdvancedIsFurthest ==
  ASSUME linked \subseteq Link, NEW cats, NEW l \in linked, cats[l] \in Category
  PROVE  /\ \E k \in linked : cats[k] \in Category /\ MostAdvanced(cats) = cats[k]
         /\ \A k \in linked : cats[k] \in Category => Rank[cats[k]] <= Rank[MostAdvanced(cats)]
<1> DEFINE S == {k \in linked : cats[k] \in Category}
           g == [k \in S |-> Rank[cats[k]]]
           known == {cats[k] : k \in linked} \cap Category
<1>1. IsFiniteSet(S) /\ S # {}
  <2>1. IsFiniteSet(Link) /\ S \subseteq Link
    BY DataAssumption
  <2> QED BY <2>1, FS_Subset
<1>2. \A k \in S : g[k] \in Nat
  BY DataAssumption
<1>3. PICK k \in S : \A j \in S : g[j] <= g[k]
  <2> HIDE DEF S, g
  <2> QED BY <1>1, <1>2, HighestExists
<1>4. cats[k] \in known /\ \A d \in known : Rank[d] <= Rank[cats[k]]
  BY <1>3
<1>5. MostAdvanced(cats) = CHOOSE c \in known : \A d \in known : Rank[d] <= Rank[c]
  BY <1>4 DEF MostAdvanced
<1>6. MostAdvanced(cats) \in known /\ \A d \in known : Rank[d] <= Rank[MostAdvanced(cats)]
  <2> HIDE DEF known
  <2> QED BY <1>4, <1>5
<1> QED BY <1>6

LEMMA TargetType ==
  ASSUME linked \subseteq Link, NEW cats
  PROVE  TargetOf(cats) \in Status \cup {Nothing}
<1>1. CASE \E l \in linked : cats[l] \in Category
  <2>1. MostAdvanced(cats) \in Category
    BY <1>1, MostAdvancedIsFurthest
  <2> QED BY <2>1, DataAssumption DEF TargetOf
<1>2. CASE ~\E l \in linked : cats[l] \in Category
  <2>1. {cats[l] : l \in linked} \cap Category = {}
    BY <1>2
  <2> QED BY <2>1 DEF TargetOf, MostAdvanced
<1> QED BY <1>1, <1>2

\* Who has moved the item moves it to a status.
MoversAim == \A p \in Sync : moved[p] => TargetOf(Live(p)) # Nothing

LEMMA InitTypes == Init => TypeOK /\ MoversAim
<1> SUFFICES ASSUME Init PROVE TypeOK /\ MoversAim
  OBVIOUS
<1>1. PICK s \in Setup : tool = s.tool /\ linked = s.links
  BY DEF Init
<1>2. tool \in {"tracker", "ticket"} /\ linked \subseteq Link
  BY <1>1, DataAssumption
<1>3. PICK c \in Category : /\ Target[c] # Nothing /\ remote = [l \in linked |-> c]
                            /\ status = Target[c] /\ link \in [linked -> {Nothing, c}]
  BY DEF Init
<1>4. status \in Status /\ remote \in [linked -> Category]
      /\ link \in [linked -> Category \cup {Nothing}]
  BY <1>3, DataAssumption
<1>5. /\ pc \in [Sync -> Pc]
      /\ seen \in [Sync -> [linked -> Category \cup {Nothing}]]
      /\ got \in [Sync -> [linked -> Category \cup {Nothing}]]
      /\ old \in [Sync -> Status \cup {Nothing}]
      /\ moved \in [Sync -> BOOLEAN]
      /\ flushed \in [Sync -> SUBSET linked]
      /\ deliveries \subseteq linked \X Category
  BY DEF Init, Unseen, Pc
<1>6. /\ lockItem \in Sync \cup {Nobody} /\ lockLink \in [linked -> Sync \cup {Nobody}]
      /\ {overlapped, misjudged, behind} \subseteq BOOLEAN
  BY DEF Init
<1>7. moves \in 0..MaxMoves /\ edits \in 0..MaxEdits /\ faults \in 0..MaxFaults
  <2>1. MaxMoves \in Nat /\ MaxEdits \in Nat /\ MaxFaults \in Nat
    BY BoundAssumption
  <2> QED BY <2>1 DEF Init
<1>8. /\ \A p \in Sync : moved[p] <=> lockItem = p
      /\ \A p \in Sync, l \in linked : l \in flushed[p] <=> lockLink[l] = p
  BY ActorAssumption DEF Init, Sync
<1>9. TypeOK
  BY <1>2, <1>4, <1>5, <1>6, <1>7, <1>8 DEF TypeOK
<1> QED BY <1>9 DEF MoversAim, Init

\* The end of a transaction.
LEMMA CloseTypes ==
  ASSUME TypeOK, MoversAim, NEW p \in Sync, Close(p),
         UNCHANGED <<tool, linked, remote, deliveries, moves, edits>>,
         link' \in [linked -> Category \cup {Nothing}], status' \in Status,
         faults' \in 0..MaxFaults, {overlapped', misjudged', behind'} \subseteq BOOLEAN
  PROVE  TypeOK' /\ MoversAim'
<1>1. /\ pc' \in [Sync -> Pc]
      /\ seen' \in [Sync -> [linked -> Category \cup {Nothing}]]
      /\ got' \in [Sync -> [linked -> Category \cup {Nothing}]]
      /\ old' \in [Sync -> Status \cup {Nothing}]
      /\ moved' \in [Sync -> BOOLEAN]
      /\ flushed' \in [Sync -> SUBSET linked]
  BY DEF TypeOK, Close, Unseen, Pc
<1>2. /\ lockItem' \in Sync \cup {Nobody}
      /\ lockLink' \in [linked -> Sync \cup {Nobody}]
  BY DEF TypeOK, Close
<1>3. \A q \in Sync : moved'[q] <=> lockItem' = q
  BY ActorAssumption DEF TypeOK, Close, Sync
<1>4. \A q \in Sync, l \in linked : l \in flushed'[q] <=> lockLink'[l] = q
  BY ActorAssumption DEF TypeOK, Close, Sync
<1>5. TypeOK'
  BY <1>1, <1>2, <1>3, <1>4 DEF TypeOK
<1>6. ASSUME NEW q \in Sync, moved'[q] PROVE TargetOf(Live(q))' # Nothing
  <2>1. q # p /\ moved[q] /\ seen'[q] = seen[q] /\ got'[q] = got[q]
    BY <1>6 DEF Close, TypeOK
  <2> QED BY <2>1, SameView DEF MoversAim
<1> QED BY <1>5, <1>6 DEF MoversAim

\* A step of a session that has not moved the item, and takes no lock.
LEMMA ReadTypes ==
  ASSUME TypeOK, MoversAim, NEW p \in Sync,
         UNCHANGED <<tool, linked, remote, link, status, moved, flushed, locks, moves, edits, ghosts>>,
         deliveries' \subseteq deliveries, faults' \in 0..MaxFaults,
         pc' = [pc EXCEPT ![p] = pc'[p]], seen' = [seen EXCEPT ![p] = seen'[p]],
         got' = [got EXCEPT ![p] = got'[p]], old' = [old EXCEPT ![p] = old'[p]],
         pc'[p] \in Pc, seen'[p] \in [linked -> Category \cup {Nothing}],
         got'[p] \in [linked -> Category \cup {Nothing}], old'[p] \in Status \cup {Nothing},
         ~moved[p] \/ (seen' = seen /\ got' = got)
  PROVE  TypeOK' /\ MoversAim'
<1>1. /\ pc' \in [Sync -> Pc]
      /\ seen' \in [Sync -> [linked -> Category \cup {Nothing}]]
      /\ got' \in [Sync -> [linked -> Category \cup {Nothing}]]
      /\ old' \in [Sync -> Status \cup {Nothing}]
  <2>1. pc' \in [Sync -> Pc] /\ old' \in [Sync -> Status \cup {Nothing}]
    BY DEF TypeOK
  <2>2. seen' \in [Sync -> [linked -> Category \cup {Nothing}]]
    BY DEF TypeOK
  <2>3. got' \in [Sync -> [linked -> Category \cup {Nothing}]]
    BY DEF TypeOK
  <2> QED BY <2>1, <2>2, <2>3
<1>2. TypeOK'
  BY <1>1 DEF TypeOK, locks, ghosts
<1>3. ASSUME NEW q \in Sync, moved'[q] PROVE TargetOf(Live(q))' # Nothing
  <2>1. moved[q] /\ seen'[q] = seen[q] /\ got'[q] = got[q]
    <3>1. moved[q]
      BY <1>3
    <3>2. seen'[q] = seen[q] /\ got'[q] = got[q]
      BY <3>1 DEF TypeOK
    <3> QED BY <3>1, <3>2
  <2> QED BY <2>1, SameView DEF MoversAim
<1> QED BY <1>2, <1>3 DEF MoversAim

\* What the types say of one session.
LEMMA SessionTypes ==
  ASSUME TypeOK, NEW p \in Sync
  PROVE  /\ pc[p] \in Pc /\ seen[p] \in [linked -> Category \cup {Nothing}]
         /\ got[p] \in [linked -> Category \cup {Nothing}] /\ old[p] \in Status \cup {Nothing}
         /\ pc = [pc EXCEPT ![p] = pc[p]] /\ seen = [seen EXCEPT ![p] = seen[p]]
         /\ got = [got EXCEPT ![p] = got[p]] /\ old = [old EXCEPT ![p] = old[p]]
         /\ link \in [linked -> Category \cup {Nothing}] /\ remote \in [linked -> Category]
         /\ status \in Status /\ faults \in 0..MaxFaults
<1>1. seen = [seen EXCEPT ![p] = seen[p]] /\ got = [got EXCEPT ![p] = got[p]]
  BY DEF TypeOK
<1>2. pc = [pc EXCEPT ![p] = pc[p]] /\ old = [old EXCEPT ![p] = old[p]]
  BY DEF TypeOK
<1> QED BY <1>1, <1>2 DEF TypeOK

LEMMA PollTypes ==
  ASSUME IInv, TypeOK, MoversAim, NEW p \in Sync,
         PollStart(p) \/ PollDecide(p) \/ \E l \in linked : PollFetch(p, l)
  PROVE  TypeOK' /\ MoversAim'
<1>1. ~moved[p]
  BY NotYet DEF PollStart, PollDecide, PollFetch
<1>2. CASE PollStart(p)
  <2>1. /\ pc' = [pc EXCEPT ![p] = pc'[p]] /\ pc'[p] = "fetch" /\ got' = got
        /\ seen' \in {seen, [seen EXCEPT ![p] = link]}
        /\ old' \in {old, [old EXCEPT ![p] = status]}
    BY <1>2 DEF PollStart, TypeOK
  <2>2. seen' = [seen EXCEPT ![p] = seen'[p]] /\ seen'[p] \in {seen[p], link}
    BY <2>1, SessionTypes
  <2>3. old' = [old EXCEPT ![p] = old'[p]] /\ old'[p] \in {old[p], status}
    BY <2>1, SessionTypes
  <2>4. /\ UNCHANGED <<tool, linked, remote, link, status, moved, flushed, locks, moves, edits, ghosts>>
        /\ deliveries' \subseteq deliveries /\ faults' \in 0..MaxFaults
    BY <1>2 DEF PollStart, db, bounds, TypeOK
  <2>5. /\ pc'[p] \in Pc /\ old'[p] \in Status \cup {Nothing}
        /\ seen'[p] \in [linked -> Category \cup {Nothing}]
        /\ got' = [got EXCEPT ![p] = got'[p]] /\ got'[p] \in [linked -> Category \cup {Nothing}]
    BY <2>1, <2>2, <2>3, SessionTypes DEF Pc
  <2> QED BY <1>1, <2>1, <2>2, <2>3, <2>4, <2>5, ReadTypes
<1>3. CASE PollDecide(p)
  <2>1. /\ pc' = [pc EXCEPT ![p] = pc'[p]] /\ pc'[p] = "apply" /\ got' = got
        /\ seen' \in {seen, [seen EXCEPT ![p] = link]}
        /\ old' \in {old, [old EXCEPT ![p] = status]}
    BY <1>3 DEF PollDecide, TypeOK
  <2>2. seen' = [seen EXCEPT ![p] = seen'[p]] /\ seen'[p] \in {seen[p], link}
    BY <2>1, SessionTypes
  <2>3. old' = [old EXCEPT ![p] = old'[p]] /\ old'[p] \in {old[p], status}
    BY <2>1, SessionTypes
  <2>4. /\ UNCHANGED <<tool, linked, remote, link, status, moved, flushed, locks, moves, edits, ghosts>>
        /\ deliveries' \subseteq deliveries /\ faults' \in 0..MaxFaults
    BY <1>3 DEF PollDecide, db, bounds, TypeOK
  <2>5. /\ pc'[p] \in Pc /\ old'[p] \in Status \cup {Nothing}
        /\ seen'[p] \in [linked -> Category \cup {Nothing}]
        /\ got' = [got EXCEPT ![p] = got'[p]] /\ got'[p] \in [linked -> Category \cup {Nothing}]
    BY <2>1, <2>2, <2>3, SessionTypes DEF Pc
  <2> QED BY <1>1, <2>1, <2>2, <2>3, <2>4, <2>5, ReadTypes
<1>4. ASSUME NEW l \in linked, PollFetch(p, l) PROVE TypeOK' /\ MoversAim'
  <2>1. pc' = [pc EXCEPT ![p] = pc'[p]] /\ pc'[p] \in {"fetch", "decide"} /\ UNCHANGED <<seen, old>>
    BY <1>4 DEF PollFetch, TypeOK
  <2>2. /\ got' = [got EXCEPT ![p] = got'[p]]
        /\ got'[p] = [got[p] EXCEPT ![l] = remote[l]]
    BY <1>4 DEF PollFetch, TypeOK
  <2>3. got'[p] \in [linked -> Category \cup {Nothing}]
    BY <2>2, SessionTypes
  <2> QED BY <1>1, <1>4, <2>1, <2>2, <2>3, SessionTypes, ReadTypes DEF PollFetch, db, bounds, Pc
<1> QED BY <1>2, <1>3, <1>4

LEMMA HookTypes ==
  ASSUME IInv, TypeOK, MoversAim, NEW p \in Sync,
         HookObserve(p) \/ SkipApply(p) \/ \E d \in linked \X Category : Receive(p, d)
  PROVE  TypeOK' /\ MoversAim'
<1>1. ~moved[p]
  BY NotYet DEF HookObserve, SkipApply, Receive
<1>2. CASE HookObserve(p)
  <2>1. /\ pc' = [pc EXCEPT ![p] = pc'[p]] /\ pc'[p] = "apply" /\ got' = got
        /\ old' = [old EXCEPT ![p] = old'[p]] /\ old'[p] = status
    BY <1>2 DEF HookObserve, TypeOK
  <2>2. /\ seen' = [seen EXCEPT ![p] = seen'[p]]
        /\ seen'[p] = [l \in linked |-> IF l \in Heard(p) THEN seen[p][l] ELSE link[l]]
    BY <1>2 DEF HookObserve, TypeOK
  <2>3. seen'[p] \in [linked -> Category \cup {Nothing}]
    BY <2>2, SessionTypes
  <2>4. /\ UNCHANGED <<tool, linked, remote, link, status, moved, flushed, locks, moves, edits, ghosts>>
        /\ deliveries' \subseteq deliveries /\ faults' \in 0..MaxFaults
    BY <1>2 DEF HookObserve, db, bounds, TypeOK
  <2>5. /\ pc'[p] \in Pc /\ old'[p] \in Status \cup {Nothing}
        /\ got' = [got EXCEPT ![p] = got'[p]] /\ got'[p] \in [linked -> Category \cup {Nothing}]
    BY <2>1, SessionTypes DEF Pc
  <2> QED BY <1>1, <2>1, <2>2, <2>3, <2>4, <2>5, ReadTypes
<1>3. CASE SkipApply(p)
  <2>1. /\ pc' = [pc EXCEPT ![p] = pc'[p]] /\ pc'[p] \in {"commit", "flush"}
    BY <1>3 DEF SkipApply, AfterApply, TypeOK
  <2> QED BY <1>1, <1>3, <2>1, SessionTypes, ReadTypes DEF SkipApply, db, bounds, Pc
<1>4. ASSUME NEW d \in linked \X Category, Receive(p, d) PROVE TypeOK' /\ MoversAim'
  <2>1. d[1] \in linked /\ d[2] \in Category
    OBVIOUS
  <2>2. deliveries' \subseteq deliveries /\ faults' \in 0..MaxFaults
    BY <1>4, BoundAssumption DEF Receive, TypeOK
  <2>3. CASE UNCHANGED session
    BY <1>1, <1>4, <2>2, <2>3, SessionTypes, ReadTypes DEF Receive, db, session
  <2>4. CASE link[d[1]] # d[2]
    <3>1. /\ pc' = [pc EXCEPT ![p] = pc'[p]] /\ pc'[p] \in {"apply", "flush"}
          /\ UNCHANGED <<moved, flushed>>
      BY <1>4, <2>4 DEF Receive, TypeOK
    <3>2. old' = [old EXCEPT ![p] = old'[p]] /\ old'[p] \in {old[p], status}
      <4>1. old' \in {old, [old EXCEPT ![p] = status]}
        BY <1>4, <2>4 DEF Receive
      <4> QED BY <4>1, SessionTypes
    <3>3. /\ got' = [got EXCEPT ![p] = got'[p]]
          /\ got'[p] = [got[p] EXCEPT ![d[1]] = d[2]]
      BY <1>4, <2>4 DEF Receive, TypeOK
    <3>4. got'[p] \in [linked -> Category \cup {Nothing}]
      BY <2>1, <3>3, SessionTypes
    <3>5. /\ seen' = [seen EXCEPT ![p] = seen'[p]]
          /\ seen'[p] = [seen[p] EXCEPT ![d[1]] = link[d[1]]]
      BY <1>4, <2>4 DEF Receive, TypeOK
    <3>6. seen'[p] \in [linked -> Category \cup {Nothing}]
      BY <2>1, <3>5, SessionTypes
    <3> QED BY <1>1, <1>4, <2>2, <3>1, <3>2, <3>3, <3>4, <3>5, <3>6, SessionTypes, ReadTypes
            DEF Receive, db, Pc
  <2> QED BY <1>4, <2>3, <2>4 DEF Receive
<1> QED BY <1>2, <1>3, <1>4

LEMMA GuardedUpdateTypes ==
  ASSUME IInv, TypeOK, MoversAim, NEW p \in Sync, GuardedUpdate(p)
  PROVE  TypeOK' /\ MoversAim'
<1>1. ~moved[p] /\ TargetOf(Live(p)) # Nothing
  BY NotYet DEF GuardedUpdate, Wants
<1>2. /\ UNCHANGED <<tool, linked, remote, link, status, deliveries, seen, got, old, flushed,
                     lockLink, moves, edits, faults, ghosts>>
      /\ pc' \in [Sync -> Pc]
  BY DEF GuardedUpdate, db, bounds, TypeOK, AfterApply, Pc
<1>3. /\ moved' \in [Sync -> BOOLEAN] /\ lockItem' \in Sync \cup {Nobody}
      /\ \A q \in Sync : moved'[q] <=> lockItem' = q
      /\ \A q \in Sync \ {p} : moved'[q] = moved[q]
  <2>1. CASE lockItem = Nobody /\ lockItem' = p /\ moved' = [moved EXCEPT ![p] = TRUE]
    BY <2>1, ActorAssumption DEF TypeOK, Sync
  <2>2. CASE UNCHANGED <<lockItem, moved>>
    BY <2>2 DEF TypeOK
  <2> QED BY <2>1, <2>2 DEF GuardedUpdate
<1>4. TypeOK'
  BY <1>2, <1>3 DEF TypeOK, ghosts
<1>5. ASSUME NEW q \in Sync, moved'[q] PROVE TargetOf(Live(q))' # Nothing
  <2>1. TargetOf(Live(q)) # Nothing
    BY <1>1, <1>3, <1>5 DEF MoversAim
  <2> QED BY <1>2, <2>1, SameView
<1> QED BY <1>4, <1>5 DEF MoversAim

LEMMA FlushLinkTypes ==
  ASSUME TypeOK, MoversAim, NEW p \in Sync, NEW l \in linked, FlushLink(p, l)
  PROVE  TypeOK' /\ MoversAim'
<1>1. UNCHANGED <<tool, linked, remote, link, status, deliveries, seen, got, old, moved,
                  lockItem, moves, edits, faults, ghosts>>
  BY DEF FlushLink, db, bounds
<1>2. pc' \in [Sync -> Pc]
  BY DEF FlushLink, TypeOK, Pc
<1>3. /\ flushed' \in [Sync -> SUBSET linked]
      /\ lockLink' \in [linked -> Sync \cup {Nobody}]
  BY DEF FlushLink, TypeOK
<1>4. \A q \in Sync, m \in linked : m \in flushed'[q] <=> lockLink'[m] = q
  <2> SUFFICES ASSUME NEW q \in Sync, NEW m \in linked
               PROVE  m \in flushed'[q] <=> lockLink'[m] = q
    OBVIOUS
  <2>1. m \in flushed[q] <=> lockLink[m] = q
    BY DEF TypeOK
  <2>2. lockLink[l] = Nobody /\ Nobody # p /\ Nobody # q
    BY ActorAssumption DEF FlushLink, Sync
  <2>3. lockLink'[m] = IF m = l THEN p ELSE lockLink[m]
    BY DEF FlushLink, TypeOK
  <2>4. flushed'[q] = IF q = p THEN flushed[p] \cup {l} ELSE flushed[q]
    BY DEF FlushLink, TypeOK
  <2> QED BY <2>1, <2>2, <2>3, <2>4
<1>5. TypeOK'
  BY <1>1, <1>2, <1>3, <1>4 DEF TypeOK, ghosts
<1>6. ASSUME NEW q \in Sync, moved'[q] PROVE TargetOf(Live(q))' # Nothing
  BY <1>1, <1>6, SameView DEF MoversAim
<1> QED BY <1>5, <1>6 DEF MoversAim

LEMMA EndTypes ==
  ASSUME TypeOK, MoversAim, NEW p \in Sync,
         Commit(p) \/ Break(p) \/ \E q \in Sync : AbortDeadlock(p, q)
  PROVE  TypeOK' /\ MoversAim'
<1>1. CASE Commit(p)
  <2>1. /\ Close(p)
        /\ UNCHANGED <<tool, linked, remote, deliveries, moves, edits, faults>>
    BY <1>1 DEF Commit, bounds
  <2>2. link' \in [linked -> Category \cup {Nothing}]
    BY <1>1 DEF Commit, TypeOK
  <2>3. status' \in Status
    <3>1. TargetOf(Live(p)) \in Status \cup {Nothing}
      BY TargetType DEF TypeOK
    <3>2. moved[p] => TargetOf(Live(p)) # Nothing
      BY DEF MoversAim
    <3> QED BY <1>1, <3>1, <3>2 DEF Commit, TypeOK
  <2>4. {overlapped', misjudged', behind'} \subseteq BOOLEAN
    BY <1>1 DEF Commit, TypeOK
  <2> QED BY <2>1, <2>2, <2>3, <2>4, CloseTypes DEF TypeOK
<1>2. CASE Break(p)
  <2>1. faults' \in 0..MaxFaults
    BY <1>2, BoundAssumption DEF Break, TypeOK
  <2>2. /\ Close(p)
        /\ UNCHANGED <<tool, linked, remote, link, status, deliveries, moves, edits,
                       overlapped, misjudged, behind>>
    BY <1>2 DEF Break, db, ghosts
  <2> QED BY <2>1, <2>2, CloseTypes DEF TypeOK
<1>3. ASSUME NEW q \in Sync, AbortDeadlock(p, q) PROVE TypeOK' /\ MoversAim'
  <2>1. /\ Close(p)
        /\ UNCHANGED <<tool, linked, remote, link, status, deliveries, moves, edits, faults,
                       overlapped, misjudged, behind>>
    BY <1>3 DEF AbortDeadlock, db, bounds, ghosts
  <2> QED BY <2>1, CloseTypes DEF TypeOK
<1> QED BY <1>1, <1>2, <1>3

\* What happens in the tool, on the way of a webhook and by hand leaves the sessions alone.
LEMMA OutsideTypes ==
  ASSUME TypeOK, MoversAim, UNCHANGED <<tool, linked, link, session, locks, ghosts>>,
         remote' \in [linked -> Category], deliveries' \subseteq linked \X Category,
         status' \in Status,
         moves' \in 0..MaxMoves, edits' \in 0..MaxEdits, faults' \in 0..MaxFaults
  PROVE  TypeOK' /\ MoversAim'
<1>1. TypeOK'
  BY DEF TypeOK, session, locks, ghosts
<1>2. ASSUME NEW q \in Sync, moved'[q] PROVE TargetOf(Live(q))' # Nothing
  BY <1>2, SameView DEF MoversAim, session
<1> QED BY <1>1, <1>2 DEF MoversAim

LEMMA NextTypes ==
  ASSUME IInv, TypeOK, MoversAim, [Next]_vars
  PROVE  TypeOK' /\ MoversAim'
<1>1. ASSUME NEW l \in linked, NEW c \in Category, Move(l, c) PROVE TypeOK' /\ MoversAim'
  <2>1. /\ remote' \in [linked -> Category] /\ deliveries' \subseteq linked \X Category
        /\ moves' \in 0..MaxMoves
    BY <1>1, BoundAssumption DEF Move, TypeOK
  <2> QED BY <1>1, <2>1, OutsideTypes DEF Move, db, TypeOK
<1>2. ASSUME NEW d, Lose(d) PROVE TypeOK' /\ MoversAim'
  BY <1>2, OutsideTypes DEF Lose, db, bounds, TypeOK
<1>3. ASSUME NEW s \in Status, Edit(s) PROVE TypeOK' /\ MoversAim'
  <2>1. edits' \in 0..MaxEdits
    BY <1>3, BoundAssumption DEF Edit, TypeOK
  <2> QED BY <1>3, <2>1, OutsideTypes DEF Edit, TypeOK
<1>4. CASE HookTurn
  BY <1>2, <1>4, HookTypes DEF HookTurn, Sync
<1>5. ASSUME NEW p \in Poll, PollStart(p) PROVE TypeOK' /\ MoversAim'
  BY <1>5, PollTypes DEF Sync
<1>6. ASSUME NEW p \in Sync, Step(p) PROVE TypeOK' /\ MoversAim'
  BY <1>6, PollTypes, HookTypes, GuardedUpdateTypes, FlushLinkTypes, EndTypes DEF Step
<1>7. ASSUME NEW p \in Sync, Break(p) PROVE TypeOK' /\ MoversAim'
  BY <1>7, EndTypes
<1>8. CASE UNCHANGED vars
  BY <1>8, OutsideTypes DEF vars, db, bounds, TypeOK
<1> QED BY <1>1, <1>3, <1>4, <1>5, <1>6, <1>7, <1>8 DEF Next

\* Types: in particular the status a commit writes is one the item may have, although
\* the furthest of its links may map to none.
THEOREM TypeCorrect == Spec => []TypeOK
<1>1. Init => TypeOK /\ MoversAim
  BY InitTypes
<1>2. IInv /\ TypeOK /\ MoversAim /\ [Next]_vars => (TypeOK /\ MoversAim)'
  BY NextTypes
<1> QED BY <1>1, <1>2, Invariance, PTL DEF Spec
=============================================================================
