----------------------------- MODULE PlaybookRun -----------------------------
(***************************************************************************)
(* One run of playbook_engine.execute after its claim, seen from its       *)
(* database session: which effects of which handlers are pending in the    *)
(* session, committed, or already outside (mail, webhook, broker), what    *)
(* the action log will say of them, and how the run ends.                  *)
(***************************************************************************)
EXTENDS Integers, Sequences

CONSTANT Length      \* length of the action_sequence

ASSUME LengthAssumption == Length \in Nat

\* What tells the handlers apart is how they use the session:
\*   write    assign, change_status, draft_response: leave a pending write
\*   resolve  change_status to resolved on an Intercom item: a pending write and a publish
\*   notice   send_notification: pending inserts, one per configured user
\*   flush    tag, create_task, schedule_task: flush, and roll back if it fails
\*   send     send_email, notify to an integration: leaves the process at once
\*   alert    notify on the dashboard: rows committed by a session of its own, and
\*            messages to the integrations after that
\*   rule     trigger_automation: commits the session when the rule fires
\*   broken   an entry of the sequence that is no JSON object
Kind == {"write", "resolve", "notice", "flush", "send", "alert", "rule", "broken"}

VARIABLES
  seq,          \* the playbook's action_sequence
  log,          \* outcomes appended so far, TRUE for ok
  savedLog,     \* action_log column
  pending,      \* actions with effects in the session, flushed or not
  committed,    \* actions whose database effects are committed
  outside,      \* actions with effects outside the database
  undone,       \* actions whose pending effects were rolled back
  poisoned,     \* pending holds an insert the database will refuse
  session,      \* usable, aborted (transaction failed), dead (flush failed)
  status,       \* status column
  ending        \* how the task ended

runVars == <<seq, log, savedLog, pending, committed, outside, undone, poisoned,
             session, status, ending>>

RunTypeOK ==
  /\ seq \in [1..Length -> Kind]
  /\ log \in Seq(BOOLEAN) /\ Len(log) <= Length
  /\ savedLog \in Seq(BOOLEAN)
  /\ pending \subseteq 1..Length
  /\ committed \subseteq 1..Length
  /\ outside \subseteq 1..Length
  /\ undone \subseteq 1..Length
  /\ poisoned \in BOOLEAN
  /\ session \in {"usable", "aborted", "dead"}
  /\ status \in {"running", "done", "failed"}
  /\ ending \in {"none", "finalized", "marked", "raised", "lost", "killed", "reaped"}

RunInit ==
  /\ seq \in [1..Length -> Kind]
  /\ log = <<>> /\ savedLog = <<>>
  /\ pending = {} /\ committed = {} /\ outside = {} /\ undone = {}
  /\ poisoned = FALSE
  /\ session = "usable"
  /\ status = "running"
  /\ ending = "none"

\* The action the loop is at, while the run goes on.
At(i) == ending = "none" /\ i = Len(log) + 1 /\ i <= Length

Logged(ok) == log' = Append(log, ok)
RunUnchanged == UNCHANGED <<seq, savedLog, status, ending>>

Discard == pending' = {} /\ poisoned' = FALSE /\ undone' = undone \cup pending

\* A handler whose query the database refuses raises; the loop logs it, and
\* nothing rolls the transaction back.
QueryFails(i) ==
  /\ At(i) /\ seq[i] # "broken"
  /\ session' = IF session = "dead" THEN "dead" ELSE "aborted"
  /\ Logged(FALSE)
  /\ UNCHANGED <<pending, committed, outside, undone, poisoned>>
  /\ RunUnchanged

\* Bad configuration, no feedback, a skipped or refused send: no effect at all.
Refused(i) ==
  /\ At(i) /\ seq[i] # "broken" /\ session = "usable"
  /\ Logged(FALSE)
  /\ UNCHANGED <<pending, committed, outside, undone, poisoned, session>>
  /\ RunUnchanged

\* Nobody to assign or to tell, a tag the customer has, a rule below its
\* threshold or in cooldown: the step is ok and did nothing.  Some of these need
\* no query, so an aborted transaction does not stop them.
Quiet(i) ==
  /\ At(i) /\ seq[i] \notin {"send", "broken"}
  /\ \/ session = "usable"
     \/ session = "aborted" /\ seq[i] \in {"notice", "flush", "alert"}
  /\ Logged(TRUE)
  /\ UNCHANGED <<pending, committed, outside, undone, poisoned, session>>
  /\ RunUnchanged

\* assign, change_status and draft_response add to the session and return.
Write(i) ==
  /\ At(i) /\ seq[i] = "write" /\ session = "usable"
  /\ pending' = pending \cup {i}
  /\ Logged(TRUE)
  /\ UNCHANGED <<committed, outside, undone, poisoned, session>>
  /\ RunUnchanged

\* The status is set first: when the publish after it raises, the loop logs a
\* failure and the write stays in the session.
Resolve(i) ==
  /\ At(i) /\ seq[i] = "resolve" /\ session = "usable"
  /\ pending' = pending \cup {i}
  /\ \/ /\ outside' = outside \cup {i}
        /\ \E ok \in BOOLEAN : Logged(ok)
     \/ /\ UNCHANGED outside
        /\ Logged(FALSE)
  /\ UNCHANGED <<committed, undone, poisoned, session>>
  /\ RunUnchanged

\* send_notification makes no query for a "user:{id}" recipient: the insert of
\* one who does not exist violates the foreign key at the next flush.
Notice(i) ==
  /\ At(i) /\ seq[i] = "notice" /\ session # "dead"
  /\ pending' = pending \cup {i}
  /\ \E unknownUser \in BOOLEAN : poisoned' = (poisoned \/ unknownUser)
  /\ Logged(TRUE)
  /\ UNCHANGED <<committed, outside, undone, session>>
  /\ RunUnchanged

\* Mutated form of Flush: the handler commits what it wrote.
FlushCommits(i) ==
  /\ At(i) /\ seq[i] = "flush" /\ session = "usable"
  /\ ~poisoned
  /\ pending' = {}
  /\ committed' = committed \cup pending \cup {i}
  /\ Logged(TRUE)
  /\ UNCHANGED <<outside, undone, poisoned, session>>
  /\ RunUnchanged

\* tag and the task actions send the whole session to the database.
Flush(i) ==
  /\ At(i) /\ seq[i] = "flush" /\ session = "usable"
  /\ ~poisoned
  /\ pending' = pending \cup {i}
  /\ Logged(TRUE)
  /\ UNCHANGED <<committed, outside, undone, poisoned, session>>
  /\ RunUnchanged

\* Mutated form of FlushFails: no rollback, the refused write stays pending.
FlushFailsKeeping(i) ==
  /\ At(i) /\ seq[i] = "flush" /\ session # "dead"
  /\ pending' = pending \cup {i}
  /\ session' = "usable"
  /\ Logged(FALSE)
  /\ UNCHANGED <<committed, outside, undone, poisoned>>
  /\ RunUnchanged

\* Mutated form of FlushFails: the handler rolls back and goes on as if ok.
FlushFailsUnsaid(i) ==
  /\ At(i) /\ seq[i] = "flush" /\ session # "dead"
  /\ Discard
  /\ session' = "usable"
  /\ Logged(TRUE)
  /\ UNCHANGED <<committed, outside>>
  /\ RunUnchanged

\* When the flush fails they roll back, which discards what every earlier
\* handler left pending and makes an aborted transaction usable again.
FlushFails(i) ==
  /\ At(i) /\ seq[i] = "flush" /\ session # "dead"
  /\ Discard
  /\ session' = "usable"
  /\ Logged(FALSE)
  /\ UNCHANGED <<committed, outside>>
  /\ RunUnchanged

\* Mail to the customer, or one message per integration: with several, some
\* may have gone out although the entry is logged as failed.
Send(i) ==
  /\ At(i) /\ seq[i] = "send" /\ session = "usable"
  /\ outside' = outside \cup {i}
  /\ \E ok \in BOOLEAN : Logged(ok)
  /\ UNCHANGED <<pending, committed, undone, poisoned, session>>
  /\ RunUnchanged

\* dispatch_alert commits its notifications in a session of its own and then
\* calls the integrations, any of which may raise; the run's own session has no
\* part in it, so an aborted transaction does not stop it.
Alert(i) ==
  /\ At(i) /\ seq[i] = "alert" /\ session # "dead"
  /\ committed' = committed \cup {i}
  /\ outside' \in {outside, outside \cup {i}}
  /\ \E ok \in BOOLEAN : Logged(ok)
  /\ UNCHANGED <<pending, undone, poisoned, session>>
  /\ RunUnchanged

\* The rule evaluation commits the session, everything pending included, after
\* each playbook run it requests and at its end: `stored` says that a commit has
\* succeeded.  Mail and publishes of its actions may be out by then.
RuleLeaves(i, stored) ==
  /\ At(i) /\ seq[i] = "rule" /\ session = "usable"
  /\ stored => ~poisoned
  /\ committed' = IF stored THEN committed \cup pending \cup {i} ELSE committed
  /\ outside' \in {outside, outside \cup {i}}
  /\ RunUnchanged

\* The rule is read again after its last commit, which raises when it has been
\* deleted meanwhile: then the entry says failed.
RuleFires(i) ==
  /\ RuleLeaves(i, TRUE)
  /\ pending' = {}
  /\ \E ok \in BOOLEAN : Logged(ok)
  /\ UNCHANGED <<undone, poisoned, session>>

\* The evaluation raises between its commits; the handler catches it, and what
\* the rule added stays in the session.
RuleRaises(i) ==
  /\ \E stored \in BOOLEAN :
       /\ RuleLeaves(i, stored)
       /\ pending' = {i} \cup (IF stored THEN {} ELSE pending)
  /\ session' \in {"usable", "aborted"}
  /\ Logged(FALSE)
  /\ UNCHANGED <<undone, poisoned>>

\* One of its commits is refused; the handler returns without a rollback.
RuleCommitFails(i) ==
  /\ \E stored \in BOOLEAN :
       /\ RuleLeaves(i, stored)
       /\ undone' = IF stored THEN undone ELSE undone \cup pending
  /\ pending' = {} /\ poisoned' = FALSE
  /\ session' = "dead"
  /\ Logged(FALSE)

AllRun == ending = "none" /\ Len(log) = Length
AnyOk(entries) == \E i \in DOMAIN entries : entries[i]

Outcome(entries) == IF AnyOk(entries) THEN "done" ELSE "failed"

\* _finalize_execution: status and log with everything still pending, one commit.
Finalize ==
  /\ AllRun /\ session = "usable" /\ ~poisoned
  /\ status' = Outcome(log)
  /\ savedLog' = log
  /\ committed' = committed \cup pending
  /\ pending' = {}
  /\ ending' = "finalized"
  /\ UNCHANGED <<seq, log, outside, undone, poisoned, session>>

\* The entry is no object: its .get raises outside the loop's try, and the task
\* marks the row failed in the same session, committing what was pending.
BrokenEntry(i) ==
  /\ At(i) /\ seq[i] = "broken" /\ session = "usable" /\ ~poisoned
  /\ status' = "failed"
  /\ committed' = committed \cup pending
  /\ pending' = {}
  /\ ending' = "marked"
  /\ UNCHANGED <<seq, log, savedLog, outside, undone, poisoned, session>>

\* What remains of a run is one commit: the final one, or the one that marks
\* the row failed because the next entry is broken.
AtLastCommit == AllRun \/ \E i \in 1..Length : At(i) /\ seq[i] = "broken"

\* The database refuses the commit.  The session still holds the failed
\* transaction, so the task's attempt to mark the row failed raises as well.
CommitRefused ==
  /\ AtLastCommit
  /\ poisoned \/ session # "usable"
  /\ Discard
  /\ session' = "dead"
  /\ ending' = "raised"
  /\ UNCHANGED <<seq, log, savedLog, committed, outside, status>>

\* The database is gone at the last commit: nobody could mark the row.
DatabaseLost ==
  /\ AtLastCommit
  /\ Discard
  /\ session' = "dead"
  /\ ending' = "lost"
  /\ UNCHANGED <<seq, log, savedLog, committed, outside, status>>

\* The worker process is lost or meets the time limit: the transaction is gone.
Killed ==
  /\ ending = "none"
  /\ Discard
  /\ ending' = "killed"
  /\ UNCHANGED <<seq, log, savedLog, committed, outside, session, status>>

\* reap_stale_executions, an hour later, with STALE_RUNNING_MESSAGE.
Reaped ==
  /\ ending \in {"raised", "lost", "killed"}
  /\ status = "running"
  /\ status' = "failed"
  /\ ending' = "reaped"
  /\ UNCHANGED <<seq, log, savedLog, pending, committed, outside, undone, poisoned,
                 session>>

RunAction ==
  \E i \in 1..Length :
    \/ QueryFails(i) \/ Refused(i) \/ Quiet(i) \/ Write(i) \/ Resolve(i) \/ Notice(i)
    \/ Flush(i) \/ FlushFails(i) \/ Send(i) \/ Alert(i)
    \/ RuleFires(i) \/ RuleRaises(i) \/ RuleCommitFails(i) \/ BrokenEntry(i)

RunNext == RunAction \/ Finalize \/ CommitRefused \/ DatabaseLost \/ Killed \/ Reaped

RunSpec == RunInit /\ [][RunNext]_runVars

------------------------------------------------------------------------------
(* Properties                                                               *)

\* Until a run has recorded its outcome, what the database holds of it are the
\* alerts, which have a session of their own, and what an automation rule
\* committed midway; and such a commit leaves nothing older behind in the session,
\* which a later rollback or a killed worker could still take away.
MidwayOnlyByRules ==
  status = "running" =>
    /\ \A i \in committed :
         seq[i] = "alert" \/ \E j \in committed : seq[j] = "rule" /\ i <= j
    /\ \A i \in pending, j \in committed : seq[j] = "rule" => j <= i

\* One handler's rollback discards what its siblings wrote, after their entries
\* were logged as ok.  The log of a recorded run does show that: a work undone, or
\* a conversation Intercom was told to close whose row stayed open, has a failed
\* entry at or after its own.
LossShows ==
  ending = "finalized" =>
    \A i \in undone \cup {j \in outside : seq[j] = "resolve" /\ j \notin committed} :
      \E j \in DOMAIN savedLog : i <= j /\ ~savedLog[j]

\* What a recorded run logs as failed is not stored, but for the three handlers
\* that write before they can fail: the resolve step's publish, the dashboard's
\* integrations and a rule.
FailedLeavesNothing ==
  ending = "finalized" =>
    \A i \in committed : savedLog[i] \/ seq[i] \in {"resolve", "alert", "rule"}

==============================================================================
