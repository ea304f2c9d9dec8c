----------------------------- MODULE EffectsProofs -----------------------------
(* Machine-checked proofs about the two components whose effects leave the   *)
(* process one at a time: PlaybookRun, for action sequences of any length,   *)
(* and WebhookDelivery, for any number of events, workers, retries and       *)
(* losses, and any threshold.                                                *)
EXTENDS PlaybookRun, WebhookDelivery, FiniteSetTheorems, TLAPS

--------------------------------------------------------------------------------
(* One playbook run: the inductive invariant.                                *)

\* While the run goes on, whatever it did belongs to an entry of the log.
Placed ==
  ending = "none" => \A i \in pending \cup committed \cup undone : i <= Len(log)

\* As long as the session can still be committed, an effect that is in it or in the
\* database belongs to an entry that says ok, but for the handlers that fail late,
\* and an effect rolled back has a failed entry at or after its own.
FailsLate(i) == seq[i] \in {"resolve", "alert", "rule"}
LogTells ==
  ending = "none" /\ session # "dead" =>
    /\ \A i \in pending \cup committed : log[i] \/ FailsLate(i)
    /\ \A i \in undone : \E j \in i..Len(log) : ~log[j]

\* A conversation told to close has its write pending, stored or rolled back.
Closed == \A i \in outside : seq[i] = "resolve" => i \in pending \cup committed \cup undone

RunInv ==
  RunTypeOK /\ Placed /\ LogTells /\ Closed /\ MidwayOnlyByRules /\ LossShows
    /\ FailedLeavesNothing

\* An unfinished run has no recorded log to be right or wrong.
LEMMA Unfinished ==
  ASSUME ending' # "finalized" PROVE LossShows' /\ FailedLeavesNothing'
  BY DEF LossShows, FailedLeavesNothing

LEMMA InitRunInv == RunInit => RunInv
<1> SUFFICES ASSUME RunInit PROVE RunInv
  OBVIOUS
<1>1. RunTypeOK
  <2>1. log = << >> /\ savedLog = << >> /\ << >> \in Seq(BOOLEAN) /\ Len(<< >>) = 0
    BY DEF RunInit
  <2>2. log \in Seq(BOOLEAN) /\ Len(log) <= Length /\ savedLog \in Seq(BOOLEAN)
    BY <2>1, LengthAssumption
  <2>3. poisoned \in BOOLEAN /\ seq \in [1..Length -> Kind]
    BY DEF RunInit
  <2> QED BY <2>2, <2>3 DEF RunInit, RunTypeOK
<1>2. Placed /\ LogTells /\ Closed /\ MidwayOnlyByRules /\ LossShows /\ FailedLeavesNothing
  <2>1. pending = {} /\ committed = {} /\ undone = {} /\ outside = {} /\ ending = "none"
    BY DEF RunInit
  <2> QED BY <2>1 DEF Placed, LogTells, Closed, MidwayOnlyByRules, LossShows, FailedLeavesNothing
<1> QED BY <1>1, <1>2 DEF RunInv

\* What appending an outcome does to the log.
LEMMA AppendedLog ==
  ASSUME RunTypeOK, NEW i \in 1..Length, At(i), NEW ok \in BOOLEAN, Logged(ok)
  PROVE  /\ log' \in Seq(BOOLEAN) /\ Len(log') = Len(log) + 1 /\ Len(log') <= Length
         /\ i = Len(log) + 1 /\ Len(log) \in Nat
         /\ log'[i] = ok
         /\ \A j \in 1..Len(log) : log'[j] = log[j]
  BY LengthAssumption DEF RunTypeOK, At, Logged

\* A step that logs an outcome and says nothing about how the run ends.
LEMMA LoggedStepTypes ==
  ASSUME RunTypeOK, NEW i \in 1..Length, At(i), NEW ok \in BOOLEAN, Logged(ok), RunUnchanged,
         pending' \subseteq 1..Length, committed' \subseteq 1..Length, undone' \subseteq 1..Length,
         outside' \subseteq 1..Length, poisoned' \in BOOLEAN,
         session' \in {"usable", "aborted", "dead"}
  PROVE  RunTypeOK'
<1>1. log' \in Seq(BOOLEAN) /\ Len(log') <= Length
  BY AppendedLog
<1> QED BY <1>1 DEF RunTypeOK, RunUnchanged

\* What a handler may do: add itself to the effects, if it logs ok or fails late; move
\* pending effects to the stored ones, when it is a rule; or roll them back and fail.
Handled(i, ok) ==
  /\ At(i) /\ Logged(ok) /\ RunUnchanged
  /\ session' \in {"usable", "aborted", "dead"} /\ poisoned' \in BOOLEAN
  /\ pending' \subseteq pending \cup {i}
  /\ committed \subseteq committed' /\ committed' \subseteq committed \cup pending \cup {i}
  /\ undone \subseteq undone' /\ undone' \subseteq undone \cup pending
  /\ outside' \subseteq outside \cup {i}
  /\ pending \subseteq pending' \cup committed' \cup undone'
  /\ undone' # undone => ~ok
  /\ session = "dead" => session' = "dead" /\ UNCHANGED <<pending, committed, undone>>
  /\ i \in pending' \cup committed' => ok \/ FailsLate(i)
  /\ i \in outside' /\ seq[i] = "resolve" => i \in pending' \cup committed'
  /\ committed' \in {committed, committed \cup {i}} \/ pending' \subseteq {i}
  /\ committed' # committed /\ seq[i] # "alert" => seq[i] = "rule" /\ i \in committed'
       /\ pending' \subseteq {i}
  /\ seq[i] = "alert" => committed' \subseteq committed \cup {i}

LEMMA HandledStep ==
  ASSUME RunInv, NEW i \in 1..Length, NEW ok \in BOOLEAN, Handled(i, ok)
  PROVE  RunInv'
<1>0. RunTypeOK /\ Placed /\ LogTells /\ Closed /\ MidwayOnlyByRules
  BY DEF RunInv
<1>1. /\ At(i) /\ Logged(ok) /\ ending = "none" /\ ending' = "none" /\ UNCHANGED <<seq, savedLog, status>>
      /\ Len(log') = Len(log) + 1 /\ i = Len(log) + 1 /\ Len(log) \in Nat
      /\ log'[i] = ok /\ \A j \in 1..Len(log) : log'[j] = log[j]
  BY <1>0, AppendedLog DEF Handled, RunUnchanged, At
<1>2. RunTypeOK'
  <2>1. /\ pending' \subseteq 1..Length /\ committed' \subseteq 1..Length
        /\ undone' \subseteq 1..Length /\ outside' \subseteq 1..Length
    <3>1. /\ pending \subseteq 1..Length /\ committed \subseteq 1..Length
          /\ undone \subseteq 1..Length /\ outside \subseteq 1..Length
      BY <1>0 DEF RunTypeOK
    <3> QED BY <3>1 DEF Handled
  <2>2. RunUnchanged /\ poisoned' \in BOOLEAN /\ session' \in {"usable", "aborted", "dead"}
    BY DEF Handled
  <2> QED BY <1>0, <1>1, <2>1, <2>2, LoggedStepTypes
<1>3. \A j \in pending \cup committed \cup undone : j \in 1..Len(log)
  <2>1. \A j \in pending \cup committed \cup undone : j \in 1..Length
    BY <1>0 DEF RunTypeOK
  <2> QED BY <1>0, <1>1, <2>1, LengthAssumption DEF Placed
<1>4. Placed'
  BY <1>1, <1>3 DEF Placed, Handled
<1>5. LogTells'
  <2> SUFFICES ASSUME session' # "dead"
               PROVE  /\ \A j \in pending' \cup committed' : log'[j] \/ FailsLate(j)'
                      /\ \A j \in undone' : \E k \in j..Len(log') : ~log'[k]
    BY DEF LogTells
  <2>1. session # "dead"
    BY DEF Handled
  <2>2. ASSUME NEW j \in pending' \cup committed' PROVE log'[j] \/ FailsLate(j)'
    <3>1. CASE j \in pending \cup committed
      <4>1. log[j] \/ FailsLate(j)
        BY <1>0, <1>1, <2>1, <3>1 DEF LogTells
      <4>2. log'[j] = log[j]
        BY <1>1, <1>3, <3>1
      <4> QED BY <1>1, <4>1, <4>2 DEF FailsLate
    <3>2. CASE j = i
      <4>1. ok \/ FailsLate(i)
        BY <2>2, <3>2 DEF Handled
      <4> QED BY <1>1, <3>2, <4>1 DEF FailsLate
    <3> QED BY <2>2, <3>1, <3>2 DEF Handled
  <2>3. ASSUME NEW j \in undone' PROVE \E k \in j..Len(log') : ~log'[k]
    <3>1. CASE j \in undone
      <4>1. PICK k \in j..Len(log) : ~log[k]
        BY <1>0, <1>1, <2>1, <3>1 DEF LogTells
      <4>2. k \in 1..Len(log) /\ k \in j..Len(log')
        BY <1>1, <1>3, <3>1, <4>1
      <4>3. ~log'[k]
        BY <1>1, <4>1, <4>2
      <4> QED BY <4>2, <4>3
    <3>2. CASE j \notin undone
      <4>1. j \in pending /\ ~ok
        BY <2>3, <3>2 DEF Handled
      <4>2. i \in j..Len(log')
        BY <1>1, <1>3, <4>1
      <4>3. ~log'[i]
        BY <1>1, <4>1
      <4> QED BY <4>2, <4>3
    <3> QED BY <3>1, <3>2
  <2> QED BY <2>2, <2>3
<1>6. Closed'
  BY <1>0, <1>1 DEF Closed, Handled
<1>7. MidwayOnlyByRules'
  <2> SUFFICES ASSUME status = "running" PROVE
        /\ \A j \in committed' : seq[j] = "alert" \/ \E k \in committed' : seq[k] = "rule" /\ j <= k
        /\ \A j \in pending', k \in committed' : seq[k] = "rule" => k <= j
    BY <1>1 DEF MidwayOnlyByRules
  <2>1. ASSUME NEW j \in committed'
        PROVE  seq[j] = "alert" \/ \E k \in committed' : seq[k] = "rule" /\ j <= k
    <3>1. CASE j \in committed
      BY <1>0, <3>1 DEF MidwayOnlyByRules, Handled
    <3>2. CASE j \notin committed /\ seq[i] = "alert"
      BY <2>1, <3>2 DEF Handled
    <3>3. CASE j \notin committed /\ seq[i] # "alert"
      <4>1. seq[i] = "rule" /\ i \in committed' /\ j \in pending \cup {i}
        BY <2>1, <3>3 DEF Handled
      <4>2. j <= i
        BY <1>1, <1>3, <4>1
      <4> QED BY <4>1, <4>2
    <3> QED BY <3>1, <3>2, <3>3
  <2>2. ASSUME NEW j \in pending', NEW k \in committed', seq[k] = "rule" PROVE k <= j
    <3>1. k \in 1..Len(log) \cup {i}
      BY <1>3, <2>2 DEF Handled
    <3>2. CASE j = i
      BY <1>1, <3>1, <3>2
    <3>3. CASE j # i
      <4>1. j \in pending /\ k \in committed
        BY <2>2, <3>3 DEF Handled
      <4> QED BY <1>0, <2>2, <4>1 DEF MidwayOnlyByRules
    <3> QED BY <3>2, <3>3
  <2> QED BY <2>1, <2>2
<1> QED BY <1>1, <1>2, <1>4, <1>5, <1>6, <1>7, Unfinished DEF RunInv

LEMMA ActionStep ==
  ASSUME RunInv, NEW i \in 1..Length,
         \/ QueryFails(i) \/ Refused(i) \/ Quiet(i) \/ Write(i) \/ Resolve(i) \/ Notice(i)
         \/ Flush(i) \/ FlushFails(i) \/ Send(i) \/ Alert(i)
         \/ RuleFires(i) \/ RuleRaises(i) \/ RuleCommitFails(i)
  PROVE  RunInv'
<1> SUFFICES \E ok \in BOOLEAN : Handled(i, ok)
  BY HandledStep
<1>0. poisoned \in BOOLEAN /\ session \in {"usable", "aborted", "dead"}
  BY DEF RunInv, RunTypeOK
<1>1. At(i) => /\ i \notin pending \cup committed \cup undone
               /\ ~(i \in outside /\ seq[i] = "resolve")
  <2>1. RunTypeOK /\ Placed /\ Closed
    BY DEF RunInv
  <2>2. ASSUME At(i) PROVE i \notin pending \cup committed \cup undone
    BY <2>1, <2>2 DEF RunTypeOK, Placed, At
  <2> QED BY <2>1, <2>2 DEF Closed
<1>2. CASE QueryFails(i)
  <2>1. At(i) /\ Logged(FALSE) /\ RunUnchanged
    BY <1>2 DEF QueryFails
  <2>2. /\ UNCHANGED <<pending, committed, outside, undone, poisoned>>
        /\ session' \in {"usable", "aborted", "dead"} /\ (session = "dead" => session' = "dead")
    BY <1>2, <1>0 DEF QueryFails
  <2>4. Handled(i, FALSE)
    BY <2>1, <2>2, <1>0, <1>1 DEF Handled
  <2> QED BY <2>4
<1>3. CASE Refused(i)
  <2>1. At(i) /\ Logged(FALSE) /\ RunUnchanged
    BY <1>3 DEF Refused
  <2>2. UNCHANGED <<pending, committed, outside, undone, poisoned, session>>
    BY <1>3, <1>0 DEF Refused
  <2>4. Handled(i, FALSE)
    BY <2>1, <2>2, <1>0, <1>1 DEF Handled
  <2> QED BY <2>4
<1>4. CASE Quiet(i)
  <2>1. At(i) /\ Logged(TRUE) /\ RunUnchanged
    BY <1>4 DEF Quiet
  <2>2. UNCHANGED <<pending, committed, outside, undone, poisoned, session>>
    BY <1>4, <1>0 DEF Quiet
  <2>4. Handled(i, TRUE)
    BY <2>1, <2>2, <1>0, <1>1 DEF Handled
  <2> QED BY <2>4
<1>5. CASE Write(i)
  <2>1. At(i) /\ Logged(TRUE) /\ RunUnchanged
    BY <1>5 DEF Write
  <2>2. /\ pending' = pending \cup {i} /\ session # "dead"
        /\ UNCHANGED <<committed, outside, undone, poisoned, session>>
    BY <1>5, <1>0 DEF Write
  <2>4. Handled(i, TRUE)
    BY <2>1, <2>2, <1>0, <1>1 DEF Handled
  <2> QED BY <2>4
<1>6. CASE Notice(i)
  <2>1. At(i) /\ Logged(TRUE) /\ RunUnchanged
    BY <1>6 DEF Notice
  <2>2. /\ pending' = pending \cup {i} /\ session # "dead"
        /\ UNCHANGED <<committed, outside, undone, session>> /\ poisoned' \in BOOLEAN
    BY <1>6, <1>0 DEF Notice
  <2>4. Handled(i, TRUE)
    BY <2>1, <2>2, <1>0, <1>1 DEF Handled
  <2> QED BY <2>4
<1>7. CASE Flush(i)
  <2>1. At(i) /\ Logged(TRUE) /\ RunUnchanged
    BY <1>7 DEF Flush
  <2>2. /\ pending' = pending \cup {i} /\ session # "dead"
        /\ UNCHANGED <<committed, outside, undone, poisoned, session>>
    BY <1>7, <1>0 DEF Flush
  <2>4. Handled(i, TRUE)
    BY <2>1, <2>2, <1>0, <1>1 DEF Handled
  <2> QED BY <2>4
<1>8. CASE FlushFails(i)
  <2>1. At(i) /\ Logged(FALSE) /\ RunUnchanged
    BY <1>8 DEF FlushFails, Discard
  <2>2. /\ pending' = {} /\ poisoned' = FALSE /\ undone' = undone \cup pending
        /\ session # "dead" /\ session' = "usable" /\ UNCHANGED <<committed, outside>>
    BY <1>8, <1>0 DEF FlushFails, Discard
  <2>4. Handled(i, FALSE)
    BY <2>1, <2>2, <1>0, <1>1 DEF Handled
  <2> QED BY <2>4
<1>9. CASE Resolve(i)
  <2>0. PICK ok \in BOOLEAN : Logged(ok)
    BY <1>9 DEF Resolve
  <2>1. At(i) /\ Logged(ok) /\ RunUnchanged
    BY <2>0, <1>9 DEF Resolve
  <2>2. /\ pending' = pending \cup {i} /\ session # "dead"
        /\ outside' \subseteq outside \cup {i}
        /\ UNCHANGED <<committed, undone, poisoned, session>>
    BY <1>9, <1>0 DEF Resolve
  <2>3. FailsLate(i)
    BY <1>9 DEF Resolve, FailsLate
  <2>4. Handled(i, ok)
    BY <2>1, <2>2, <2>3, <1>0, <1>1 DEF Handled
  <2> QED BY <2>4
<1>10. CASE Send(i)
  <2>0. PICK ok \in BOOLEAN : Logged(ok)
    BY <1>10 DEF Send
  <2>1. At(i) /\ Logged(ok) /\ RunUnchanged
    BY <2>0, <1>10 DEF Send
  <2>2. /\ outside' = outside \cup {i} /\ seq[i] # "resolve"
        /\ UNCHANGED <<pending, committed, undone, poisoned, session>>
    BY <1>10, <1>0 DEF Send
  <2>4. Handled(i, ok)
    BY <2>1, <2>2, <1>0, <1>1 DEF Handled
  <2> QED BY <2>4
<1>11. CASE Alert(i)
  <2>0. PICK ok \in BOOLEAN : Logged(ok)
    BY <1>11 DEF Alert
  <2>1. At(i) /\ Logged(ok) /\ RunUnchanged
    BY <2>0, <1>11 DEF Alert
  <2>2. /\ committed' = committed \cup {i} /\ outside' \subseteq outside \cup {i} /\ session # "dead"
        /\ seq[i] = "alert" /\ UNCHANGED <<pending, undone, poisoned, session>>
    BY <1>11, <1>0 DEF Alert
  <2>3. FailsLate(i)
    BY <1>11 DEF Alert, FailsLate
  <2>4. Handled(i, ok)
    BY <2>1, <2>2, <2>3, <1>0, <1>1 DEF Handled
  <2> QED BY <2>4
<1>12. CASE RuleFires(i)
  <2>0. PICK ok \in BOOLEAN : Logged(ok)
    BY <1>12 DEF RuleFires, RuleLeaves
  <2>1. At(i) /\ Logged(ok) /\ RunUnchanged
    BY <2>0, <1>12 DEF RuleFires, RuleLeaves
  <2>2. /\ pending' = {} /\ committed' = committed \cup pending \cup {i} /\ seq[i] = "rule"
        /\ outside' \subseteq outside \cup {i} /\ session # "dead"
        /\ UNCHANGED <<undone, poisoned, session>>
    BY <1>12, <1>0 DEF RuleFires, RuleLeaves
  <2>3. FailsLate(i)
    BY <1>12 DEF RuleFires, RuleLeaves, FailsLate
  <2>4. Handled(i, ok)
    BY <2>1, <2>2, <2>3, <1>0, <1>1 DEF Handled
  <2> QED BY <2>4
<1>13. CASE RuleRaises(i)
  <2>1. At(i) /\ Logged(FALSE) /\ RunUnchanged
    BY <1>13 DEF RuleRaises, RuleLeaves
  <2>2. /\ session # "dead" /\ session' \in {"usable", "aborted"} /\ seq[i] = "rule"
        /\ outside' \subseteq outside \cup {i} /\ UNCHANGED <<undone, poisoned>>
        /\ \/ committed' = committed /\ pending' = pending \cup {i}
           \/ committed' = committed \cup pending \cup {i} /\ pending' = {i}
    BY <1>13, <1>0 DEF RuleRaises, RuleLeaves
  <2>3. FailsLate(i)
    BY <1>13 DEF RuleRaises, RuleLeaves, FailsLate
  <2>4. Handled(i, FALSE)
    BY <2>1, <2>2, <2>3, <1>0, <1>1 DEF Handled
  <2> QED BY <2>4
<1>14. CASE RuleCommitFails(i)
  <2>1. At(i) /\ Logged(FALSE) /\ RunUnchanged
    BY <1>14 DEF RuleCommitFails, RuleLeaves
  <2>2. /\ session # "dead" /\ session' = "dead" /\ seq[i] = "rule"
        /\ outside' \subseteq outside \cup {i} /\ pending' = {} /\ poisoned' = FALSE
        /\ \/ committed' = committed /\ undone' = undone \cup pending
           \/ committed' = committed \cup pending \cup {i} /\ undone' = undone
    BY <1>14, <1>0 DEF RuleCommitFails, RuleLeaves
  <2>3. FailsLate(i)
    BY <1>14 DEF RuleCommitFails, RuleLeaves, FailsLate
  <2>4. Handled(i, FALSE)
    BY <2>1, <2>2, <2>3, <1>0, <1>1 DEF Handled
  <2> QED BY <2>4
<1> QED BY <1>2, <1>3, <1>4, <1>5, <1>6, <1>7, <1>8, <1>9, <1>10, <1>11, <1>12, <1>13, <1>14

LEMMA EndStep ==
  ASSUME RunInv,
         \/ Finalize \/ CommitRefused \/ DatabaseLost \/ Killed \/ Reaped
         \/ \E i \in 1..Length : BrokenEntry(i)
  PROVE  RunInv'
<1>0. RunTypeOK /\ Placed /\ LogTells /\ Closed /\ MidwayOnlyByRules
  BY DEF RunInv
<1>1. CASE Finalize
  <2>1. Outcome(log) \in {"done", "failed"}
    BY DEF Outcome
  <2>2. RunTypeOK'
    BY <1>0, <1>1, <2>1 DEF Finalize, RunTypeOK
  <2>3. Placed' /\ LogTells' /\ Closed' /\ MidwayOnlyByRules'
    BY <1>0, <1>1, <2>1 DEF Finalize, Placed, LogTells, Closed, MidwayOnlyByRules
  <2>4. FailedLeavesNothing'
    BY <1>0, <1>1 DEF Finalize, AllRun, LogTells, FailsLate, FailedLeavesNothing
  <2>5. LossShows'
    <3> SUFFICES ASSUME NEW i \in undone PROVE \E j \in DOMAIN savedLog' : i <= j /\ ~savedLog'[j]
      BY <1>0, <1>1 DEF Finalize, LossShows, Closed
    <3>1. PICK j \in i..Len(log) : ~log[j]
      BY <1>0, <1>1 DEF Finalize, AllRun, LogTells
    <3>2. savedLog' = log /\ j \in DOMAIN log /\ i <= j
      BY <1>0, <1>1, <3>1 DEF Finalize, RunTypeOK
    <3> QED BY <3>1, <3>2
  <2> QED BY <2>2, <2>3, <2>4, <2>5 DEF RunInv
<1>2. CASE \E i \in 1..Length : BrokenEntry(i)
  <2>1. RunTypeOK' /\ Placed' /\ LogTells' /\ Closed' /\ MidwayOnlyByRules' /\ ending' # "finalized"
    BY <1>0, <1>2 DEF BrokenEntry, RunTypeOK, Placed, LogTells, Closed, MidwayOnlyByRules
  <2> QED BY <2>1, Unfinished DEF RunInv
<1>3. CASE CommitRefused \/ DatabaseLost \/ Killed
  <2>1. /\ ending' \in {"raised", "lost", "killed"}
        /\ session' \in {session, "dead"}
        /\ pending' = {} /\ poisoned' = FALSE /\ undone' = undone \cup pending
        /\ UNCHANGED <<seq, log, savedLog, committed, outside, status>>
    BY <1>3 DEF CommitRefused, DatabaseLost, Killed, Discard
  <2>2. RunTypeOK' /\ Placed' /\ LogTells' /\ Closed' /\ MidwayOnlyByRules' /\ ending' # "finalized"
    BY <1>0, <2>1 DEF RunTypeOK, Placed, LogTells, Closed, MidwayOnlyByRules
  <2> QED BY <2>2, Unfinished DEF RunInv
<1>4. CASE Reaped
  <2>1. RunTypeOK' /\ Placed' /\ LogTells' /\ Closed' /\ MidwayOnlyByRules' /\ ending' # "finalized"
    BY <1>0, <1>4 DEF Reaped, RunTypeOK, Placed, LogTells, Closed, MidwayOnlyByRules
  <2> QED BY <2>1, Unfinished DEF RunInv
<1> QED BY <1>1, <1>2, <1>3, <1>4

LEMMA NextRunInv == RunInv /\ [RunNext]_runVars => RunInv'
<1> SUFFICES ASSUME RunInv, [RunNext]_runVars PROVE RunInv'
  OBVIOUS
<1>1. CASE RunAction
  BY <1>1, ActionStep, EndStep DEF RunAction
<1>2. CASE Finalize \/ CommitRefused \/ DatabaseLost \/ Killed \/ Reaped
  BY <1>2, EndStep
<1>3. CASE UNCHANGED runVars
  BY <1>3 DEF runVars, RunInv, RunTypeOK, Placed, LogTells, FailsLate, Closed, MidwayOnlyByRules,
              LossShows, FailedLeavesNothing
<1> QED BY <1>1, <1>2, <1>3 DEF RunNext

LEMMA RunInvariance == RunSpec => []RunInv
<1>1. RunInit => RunInv
  BY InitRunInv
<1>2. RunInv /\ [RunNext]_runVars => RunInv'
  BY NextRunInv
<1> QED BY <1>1, <1>2, PTL DEF RunSpec

\* Until a run has recorded its outcome, the database holds of it alerts and what a rule's
\* commit took along, and such a commit left nothing older in the session: for playbooks
\* of any length.
THEOREM StoredMidwayByRules == RunSpec => []MidwayOnlyByRules
<1>1. RunInv => MidwayOnlyByRules
  BY DEF RunInv
<1> QED BY <1>1, RunInvariance, PTL

\* A write rolled back after its entry was logged as ok, and a conversation closed whose
\* row stayed open, has a failed entry at or after its own in the recorded log.
THEOREM LogShowsLosses == RunSpec => []LossShows
<1>1. RunInv => LossShows
  BY DEF RunInv
<1> QED BY <1>1, RunInvariance, PTL

\* What a recorded run logs as failed is not stored, the three handlers excepted that write
\* before they can fail.
THEOREM FailedIsNotStored == RunSpec => []FailedLeavesNothing
<1>1. RunInv => FailedLeavesNothing
  BY DEF RunInv
<1> QED BY <1>1, RunInvariance, PTL

--------------------------------------------------------------------------------
(* Webhook deliveries: the bag of messages.                                  *)

MessageBag(B) == DOMAIN B \subseteq Message /\ \A m \in DOMAIN B : B[m] \in Nat \ {0}
Copies(m, B) == IF m \in DOMAIN B THEN B[m] ELSE 0

\* C holds one message m more than B.
OneMore(B, C, m) ==
  /\ MessageBag(B) /\ MessageBag(C)
  /\ DOMAIN C = DOMAIN B \cup {m}
  /\ C[m] = Copies(m, B) + 1
  /\ \A n \in DOMAIN B \ {m} : C[n] = B[n]

(* Types, and what every message and worker carries.                         *)

PcSet == {"idle", "load", "post", "fail", "save"}
Types ==
  /\ failures \in Nat /\ streak \in 0..Threshold
  /\ MessageBag(queue)
  /\ pc \in [Worker -> PcSet]
  /\ job \in [Worker -> Message \cup {NoMessage}]
  /\ row \in [Worker -> [failures : Nat, mode : Mode]]
  /\ good \in [Worker -> BOOLEAN]
  /\ mode \in Mode
  /\ posts \in [Event -> Nat]
  /\ lost \in [Event -> Nat]
  /\ overlapped \in BOOLEAN
Known ==
  /\ accepted \subseteq dispatched
  /\ \A m \in DOMAIN queue : m.event \in dispatched
  /\ \A w \in Worker : IF pc[w] = "idle" THEN job[w] = NoMessage
                       ELSE job[w] \in Message /\ job[w].event \in dispatched
  /\ \A e \in Event \ dispatched : posts[e] = 0

LEMMA MessageFacts ==
  /\ Attempts \in Nat \ {0} /\ NoMessage \notin Message /\ NoMessage.event \notin Event
  /\ \A m \in Message : m.event \in Event /\ m.attempt \in 1..Attempts
  /\ \A e \in Event : [event |-> e, attempt |-> 1] \in Message
  BY WebhookAssumption DEF Attempts, Message, NoMessage

LEMMA InitTypes == Init => Types /\ Known
<1> SUFFICES ASSUME Init PROVE Types /\ Known
  OBVIOUS
<1>1. DOMAIN queue = {} /\ MessageBag(queue)
  BY DEF Init, MessageBag, EmptyBag, SetToBag
<1>2. Unread \in [failures : Nat, mode : Mode]
  BY DEF Unread, Mode
<1>3. 0 \in 0..Threshold
  BY WebhookAssumption
<1>4. Types
  BY <1>1, <1>2, <1>3 DEF Init, Types, PcSet
<1> QED BY <1>1, <1>4 DEF Init, Known

\* A retry carries the next attempt.
Retried(m) == [m EXCEPT !.attempt = @ + 1]
LEMMA RetryFacts ==
  ASSUME Types, Known, NEW w \in Worker, pc[w] = "fail", Retries(w)
  PROVE  /\ Retried(job[w]) \in Message
         /\ Retried(job[w]).event = job[w].event
         /\ Retried(job[w]).attempt = job[w].attempt + 1
  BY WebhookAssumption DEF Types, Known, Retries, Retried, Message, Attempts

\* What a step does to the messages: one is added, one is taken, or none.
Adds(m)  == queue' = queue (+) One(m)
Takes(m) == BagIn(m, queue) /\ queue' = queue (-) One(m)

\* The shapes a step has for messages and workers.
Others(w) == \A v \in Worker \ {w} : pc'[v] = pc[v] /\ job'[v] = job[v] /\ row'[v] = row[v]
Freed(w) == /\ pc[w] # "idle" /\ pc'[w] = "idle" /\ job'[w] = NoMessage /\ Others(w)

LEMMA ReleaseResult ==
  ASSUME Types, NEW w \in Worker, pc[w] # "idle", Release(w)
  PROVE  /\ Freed(w)
         /\ pc' \in [Worker -> PcSet]
         /\ job' \in [Worker -> Message \cup {NoMessage}]
         /\ row' \in [Worker -> [failures : Nat, mode : Mode]]
         /\ good' \in [Worker -> BOOLEAN]
  BY DEF Types, Release, Freed, Others, PcSet, Unread, Mode

LEMMA AddsOne == ASSUME Types, NEW m \in Message, Adds(m) PROVE OneMore(queue, queue', m)
<1>1. MessageBag(queue) /\ queue' = queue (+) One(m)
  BY DEF Types, Adds
<1> QED BY <1>1 DEF OneMore, MessageBag, Copies, One, (+), SetToBag

LEMMA TakesOne == ASSUME Types, NEW m \in Message, Takes(m) PROVE OneMore(queue', queue, m)
<1>1. MessageBag(queue) /\ m \in DOMAIN queue /\ queue' = queue (-) One(m)
  BY DEF Types, Takes, BagIn, BagToSet
<1>2. /\ MessageBag(queue') /\ DOMAIN queue' \subseteq DOMAIN queue
      /\ \A n \in DOMAIN queue \ {m} : n \in DOMAIN queue' /\ queue'[n] = queue[n]
      /\ Copies(m, queue') = queue[m] - 1
  BY <1>1 DEF MessageBag, Copies, One, (-), SetToBag
<1>3. queue[m] \in Nat /\ queue[m] = Copies(m, queue') + 1
  BY <1>1, <1>2 DEF MessageBag
<1>4. DOMAIN queue = DOMAIN queue' \cup {m}
  BY <1>1, <1>2
<1>5. \A n \in DOMAIN queue' \ {m} : queue[n] = queue'[n]
  BY <1>2
<1> QED BY <1>1, <1>2, <1>3, <1>4, <1>5 DEF OneMore

LEMMA TypesStep == Types /\ Known /\ [Next]_vars => Types' /\ Known'
<1> SUFFICES ASSUME Types, Known, [Next]_vars PROVE Types' /\ Known'
  OBVIOUS
<1>1. ASSUME NEW e \in Event, Dispatch(e) PROVE Types' /\ Known'
  <2> DEFINE m == [event |-> e, attempt |-> 1]
  <2>1. m \in Message /\ m.event = e
    BY MessageFacts
  <2>2. MessageBag(queue') /\ DOMAIN queue' \subseteq DOMAIN queue \cup {m}
    BY <1>1, <2>1, AddsOne DEF Dispatch, Adds, Types, OneMore
  <2>3. /\ dispatched' = dispatched \cup {e} /\ UNCHANGED <<hookVars, workVars, pastVars>>
    BY <1>1 DEF Dispatch
  <2>4. Types'
    BY <2>2, <2>3 DEF Types, hookVars, workVars, pastVars
  <2>5. \A n \in DOMAIN queue' : n.event \in dispatched'
    BY <2>1, <2>2, <2>3 DEF Known
  <2> QED BY <2>3, <2>4, <2>5 DEF Known, workVars, pastVars
<1>2. CASE Update \/ Delete \/ UNCHANGED vars
  BY <1>2 DEF Update, Delete, vars, Types, Known, hookVars, busVars, workVars, pastVars
<1>3. ASSUME NEW w \in Worker, NEW m \in Message, Deliver(w, m) PROVE Types' /\ Known'
  <2>1. MessageBag(queue') /\ DOMAIN queue' \subseteq DOMAIN queue /\ m \in DOMAIN queue
    BY <1>3, TakesOne DEF Deliver, Takes, BagIn, BagToSet, OneMore
  <2>2. /\ pc' = [pc EXCEPT ![w] = "load"] /\ job' = [job EXCEPT ![w] = m]
        /\ overlapped' \in BOOLEAN
        /\ UNCHANGED <<row, good, dispatched, hookVars, posts, accepted, lost, streak>>
    BY <1>3 DEF Deliver
  <2>3. Types'
    BY <2>1, <2>2 DEF Types, hookVars, PcSet
  <2>4. m.event \in dispatched
    BY <2>1 DEF Known
  <2> QED BY <2>1, <2>2, <2>3, <2>4 DEF Known, Types
<1>4. ASSUME NEW w \in Worker, Load(w) PROVE Types' /\ Known'
  <2>1. CASE active = "active"
    BY <1>4, <2>1 DEF Load, Types, Known, hookVars, busVars, pastVars, PcSet
  <2>2. CASE active # "active"
    BY <1>4, <2>2, ReleaseResult DEF Load, Types, Known, hookVars, busVars, pastVars, Freed, Others
  <2> QED BY <2>1, <2>2
<1>5. ASSUME NEW w \in Worker, Post(w) PROVE Types' /\ Known'
  <2>1. job[w] \in Message /\ job[w].event \in dispatched /\ job[w].event \in Event
    BY <1>5, MessageFacts DEF Post, Known
  <2>2. /\ posts' = [posts EXCEPT ![job[w].event] = @ + 1]
        /\ accepted' \in {accepted, accepted \cup {job[w].event}}
        /\ \E answer \in BOOLEAN : good' = [good EXCEPT ![w] = answer]
        /\ \E label \in {"save", "fail"} : pc' = [pc EXCEPT ![w] = label]
        /\ pc[w] = "post"
        /\ UNCHANGED <<job, row, lost, streak, overlapped, hookVars, busVars>>
    BY <1>5 DEF Post
  <2>3. Types'
    BY <2>1, <2>2 DEF Types, hookVars, busVars, PcSet
  <2> QED BY <2>1, <2>2, <2>3 DEF Known, Types, busVars
<1>6. ASSUME NEW w \in Worker, HandleFailure(w) PROVE Types' /\ Known'
  <2>1. /\ pc[w] = "fail" /\ pc' = [pc EXCEPT ![w] = "save"]
        /\ UNCHANGED <<job, row, good, dispatched, hookVars, pastVars>>
        /\ \/ UNCHANGED queue
           \/ Retries(w) /\ Adds(Retried(job[w]))
    BY <1>6 DEF HandleFailure, Adds, Retried
  <2>2. /\ MessageBag(queue')
        /\ \A n \in DOMAIN queue' : n \in DOMAIN queue \/ n.event = job[w].event
    BY <2>1, RetryFacts, AddsOne DEF Types, OneMore
  <2>3. Types'
    BY <2>1, <2>2 DEF Types, hookVars, pastVars, PcSet
  <2> QED BY <2>1, <2>2, <2>3 DEF Known, Types, pastVars
<1>7. ASSUME NEW w \in Worker, Save(w) PROVE Types' /\ Known'
  <2>1. /\ failures' \in {row[w].failures + 1, failures, 0}
        /\ streak' \in {0, streak + 1, streak} /\ (streak' = streak + 1 => streak < Threshold)
        /\ pc[w] = "save" /\ Release(w)
        /\ UNCHANGED <<mode, posts, accepted, lost, overlapped, busVars>>
    BY <1>7, WebhookAssumption DEF Save, Types
  <2>2. row[w].failures \in Nat
    BY DEF Types
  <2>3. Types'
    BY <2>1, <2>2, ReleaseResult, WebhookAssumption DEF Types, busVars
  <2> QED BY <2>1, <2>3, ReleaseResult DEF Known, busVars, Freed, Others
<1>8. ASSUME NEW w \in Worker, Raise(w) PROVE Types' /\ Known'
  <2>1. Types'
    BY <1>8, ReleaseResult DEF Raise, Types, hookVars, busVars, pastVars
  <2> QED BY <1>8, <2>1, ReleaseResult DEF Raise, Known, hookVars, busVars, pastVars, Freed, Others
<1>9. ASSUME NEW e \in Event, CountLoss(e) PROVE lost' \in [Event -> Nat]
  BY <1>9 DEF CountLoss, Types
<1>10. ASSUME NEW w \in Worker, WorkerLost(w) PROVE Types' /\ Known'
  <2>1. job[w] \in Message /\ job[w].event \in dispatched /\ job[w].event \in Event
    BY <1>10, MessageFacts DEF WorkerLost, Known
  <2>2. MessageBag(queue') /\ DOMAIN queue' = DOMAIN queue \cup {job[w]}
    BY <1>10, <2>1, AddsOne DEF WorkerLost, Adds, OneMore
  <2>3. Types'
    BY <1>9, <1>10, <2>1, <2>2, ReleaseResult DEF WorkerLost, Types, hookVars
  <2> QED BY <1>10, <2>1, <2>2, <2>3, ReleaseResult DEF WorkerLost, Known, Freed, Others
<1>11. ASSUME NEW m \in Message, Redeliver(m) PROVE Types' /\ Known'
  <2>1. m.event \in dispatched /\ m.event \in Event
    BY <1>11, MessageFacts DEF Redeliver, Known, BagIn, BagToSet
  <2>2. MessageBag(queue') /\ DOMAIN queue' = DOMAIN queue \cup {m}
    BY <1>11, AddsOne DEF Redeliver, Adds, OneMore
  <2>3. Types'
    BY <1>9, <1>11, <2>1, <2>2 DEF Redeliver, Types, hookVars, workVars
  <2> QED BY <1>11, <2>1, <2>2, <2>3 DEF Redeliver, Known, workVars
<1> QED
  BY <1>1, <1>2, <1>3, <1>4, <1>5, <1>6, <1>7, <1>8, <1>10, <1>11 DEF Next, WorkerStep


\* As long as no two tasks have been at work at once, the counter that a worker loaded is
\* the counter of the row, and counts the streak.
Alone ==
  ~overlapped =>
    /\ \A v, w \in Worker : pc[v] # "idle" /\ pc[w] # "idle" => v = w
    /\ streak = (IF failures < Threshold THEN failures ELSE Threshold)
    /\ \A w \in Worker : pc[w] \in {"post", "fail", "save"} => row[w].failures = failures

LEMMA AloneStep == Types /\ Known /\ Alone /\ [Next]_vars => Alone'
<1> SUFFICES ASSUME Types, Known, Alone, [Next]_vars, ~overlapped' PROVE Alone'
  BY DEF Alone
<1>1. CASE \/ \E e \in Event : Dispatch(e)
           \/ Update \/ Delete \/ UNCHANGED vars
           \/ \E m \in Message : Redeliver(m)
  BY <1>1 DEF Dispatch, Update, Delete, Redeliver, vars, hookVars, busVars, workVars, pastVars, Alone
<1>2. ASSUME NEW w \in Worker, NEW m \in Message, Deliver(w, m) PROVE Alone'
  <2>1. /\ ~overlapped /\ \A v \in Worker : pc[v] = "idle"
        /\ pc' = [pc EXCEPT ![w] = "load"] /\ UNCHANGED <<row, failures, streak>>
    BY <1>2 DEF Deliver, hookVars
  <2> QED BY <2>1 DEF Alone, Types
<1>3. ASSUME NEW w \in Worker, pc[w] # "idle", Others(w), ~overlapped,
             streak' = (IF failures' < Threshold THEN failures' ELSE Threshold),
             pc'[w] \in {"post", "fail", "save"} => row'[w].failures = failures'
      PROVE  Alone'
  BY <1>3 DEF Alone, Others
<1>4. ASSUME NEW w \in Worker, WorkerStep(w) \/ WorkerLost(w) PROVE ~overlapped
  BY <1>4 DEF WorkerStep, WorkerLost, Load, Post, HandleFailure, Save, Raise, pastVars
<1>5. ASSUME NEW w \in Worker, Load(w) PROVE Alone'
  <2>1. CASE active = "active"
    BY <1>3, <1>4, <1>5, <2>1 DEF Load, WorkerStep, Types, Others, hookVars, pastVars, Alone
  <2>2. CASE active # "active"
    BY <1>3, <1>4, <1>5, <2>2, ReleaseResult
       DEF Load, WorkerStep, Freed, hookVars, pastVars, Alone
  <2> QED BY <2>1, <2>2
<1>6. ASSUME NEW w \in Worker, Post(w) \/ HandleFailure(w) PROVE Alone'
  <2>1. /\ pc[w] \in {"post", "fail"} /\ Others(w)
        /\ UNCHANGED <<row, failures, streak>>
    BY <1>6 DEF Post, HandleFailure, Types, Others, hookVars, pastVars
  <2> QED BY <1>3, <1>4, <1>6, <2>1 DEF WorkerStep, Alone
<1>7. ASSUME NEW w \in Worker, Raise(w) \/ WorkerLost(w) PROVE Alone'
  <2>1. pc[w] # "idle" /\ Freed(w) /\ UNCHANGED <<failures, streak>>
    BY <1>7, ReleaseResult DEF Raise, WorkerLost, hookVars, pastVars
  <2> QED BY <1>3, <1>4, <1>7, <2>1 DEF WorkerStep, Freed, Alone
<1>8. ASSUME NEW w \in Worker, Save(w) PROVE Alone'
  <2>1. pc[w] = "save" /\ Freed(w)
    BY <1>8, ReleaseResult DEF Save
  <2>2. ~overlapped /\ row[w].failures = failures /\ failures \in Nat /\ Threshold \in Nat \ {0}
        /\ streak = (IF failures < Threshold THEN failures ELSE Threshold)
    BY <1>4, <1>8, <2>1, WebhookAssumption DEF WorkerStep, Alone, Types
  <2>3. /\ failures' = IF ~good[w] THEN row[w].failures + 1
                       ELSE IF row[w].failures = 0 THEN failures ELSE 0
        /\ streak' = IF good[w] THEN 0 ELSE IF streak < Threshold THEN streak + 1 ELSE streak
    BY <1>8 DEF Save
  <2>4. streak' = (IF failures' < Threshold THEN failures' ELSE Threshold)
    BY <2>2, <2>3
  <2> QED BY <1>3, <2>1, <2>2, <2>4 DEF Freed
<1> QED BY <1>1, <1>2, <1>5, <1>6, <1>7, <1>8 DEF Next, WorkerStep

(* One carrier per event.                                                    *)

Live(w, e) == pc[w] \in {"load", "post", "fail"} /\ job[w].event = e
Waits(e) == \E m \in DOMAIN queue : m.event = e

\* As long as nothing of an event was lost or repeated, one message or one worker carries it,
\* and none once the endpoint accepted it.
Single(e) ==
  /\ \A m, n \in DOMAIN queue : m.event = e /\ n.event = e => m = n /\ queue[m] = 1
  /\ \A v, w \in Worker : Live(v, e) /\ Live(w, e) => v = w
  /\ Waits(e) => e \notin accepted /\ \A w \in Worker : ~Live(w, e)
  /\ e \in accepted => \A w \in Worker : ~Live(w, e)
OneCarrier == \A e \in Event : lost[e] = 0 => Single(e)

LEMMA InitOthers == Init => Alone /\ OneCarrier
  BY WebhookAssumption
     DEF Init, Alone, OneCarrier, Single, Live, Waits, EmptyBag, SetToBag

\* A step that gives nobody anything to carry.
LEMMA FewerCarriers ==
  ASSUME OneCarrier, UNCHANGED <<queue, accepted, lost>>,
         \A w \in Worker, e \in Event : Live(w, e)' => Live(w, e)
  PROVE  OneCarrier'
  BY DEF OneCarrier, Single, Waits

LEMMA CarrierStep == Types /\ Known /\ OneCarrier /\ [Next]_vars => OneCarrier'
<1> SUFFICES ASSUME Types, Known, OneCarrier, [Next]_vars PROVE OneCarrier'
  OBVIOUS
<1>1. CASE \/ Update \/ Delete \/ UNCHANGED vars
           \/ \E w \in Worker : Load(w) \/ Save(w) \/ Raise(w)
  <2>1. UNCHANGED <<queue, accepted, lost>>
    BY <1>1 DEF Update, Delete, vars, Load, Save, Raise, busVars, pastVars
  <2>2. ASSUME NEW w \in Worker, Load(w) \/ Save(w) \/ Raise(w), NEW v \in Worker, NEW e \in Event,
               Live(v, e)'
        PROVE  Live(v, e)
    <3>1. Others(w) /\ \/ Freed(w)
                       \/ pc[w] = "load" /\ job'[w] = job[w]
      <4>1. CASE Load(w) /\ active = "active"
        BY <4>1 DEF Load, Others, Types
      <4>2. CASE ~(Load(w) /\ active = "active")
        BY <2>2, <4>2, ReleaseResult DEF Load, Save, Raise, Freed
      <4> QED BY <4>1, <4>2
    <3> QED BY <2>2, <3>1 DEF Live, Freed, Others
  <2>3. CASE Update \/ Delete \/ UNCHANGED vars
    BY <2>1, <2>3, FewerCarriers DEF Update, Delete, vars, workVars, Live
  <2> QED BY <1>1, <2>1, <2>2, <2>3, FewerCarriers
<1>2. ASSUME NEW e \in Event, Dispatch(e) PROVE OneCarrier'
  <2> DEFINE m == [event |-> e, attempt |-> 1]
  <2>1. m \in Message /\ m.event = e
    BY MessageFacts
  <2>2. UNCHANGED <<accepted, lost, pc, job>> /\ e \notin dispatched
    BY <1>2 DEF Dispatch, workVars, pastVars
  <2>3. CASE UNCHANGED queue
    BY <2>2, <2>3, FewerCarriers DEF Live
  <2>4. CASE Adds(m)
    <3>1. /\ DOMAIN queue' = DOMAIN queue \cup {m} /\ queue'[m] = Copies(m, queue) + 1
          /\ \A n \in DOMAIN queue \ {m} : queue'[n] = queue[n]
      BY <2>1, <2>4, AddsOne DEF OneMore
    <3>2. /\ \A n \in DOMAIN queue : n.event # e
          /\ \A w \in Worker : ~Live(w, e)
          /\ e \notin accepted
      BY <2>2 DEF Known, Live
    <3>3. Copies(m, queue) = 0
      BY <2>1, <3>2 DEF Copies
    <3> HIDE DEF m
    <3> QED BY <2>1, <2>2, <3>1, <3>2, <3>3 DEF OneCarrier, Single, Waits, Live
  <2> QED BY <1>2, <2>3, <2>4 DEF Dispatch, Adds
<1>3. ASSUME NEW w \in Worker, NEW m \in Message, Deliver(w, m) PROVE OneCarrier'
  <2>1. /\ m \in DOMAIN queue /\ Takes(m) /\ UNCHANGED <<accepted, lost>>
        /\ pc[w] = "idle" /\ pc'[w] = "load" /\ job'[w] = m
        /\ \A v \in Worker \ {w} : pc'[v] = pc[v] /\ job'[v] = job[v]
    BY <1>3 DEF Deliver, Takes, BagIn, BagToSet, Types
  <2>2. /\ MessageBag(queue) /\ MessageBag(queue') /\ DOMAIN queue' \subseteq DOMAIN queue
        /\ \A n \in DOMAIN queue \ {m} : n \in DOMAIN queue' /\ queue'[n] = queue[n]
        /\ Copies(m, queue') = queue[m] - 1
    <3>1. OneMore(queue', queue, m)
      BY <2>1, TakesOne
    <3>2. Copies(m, queue') \in Nat /\ queue[m] = Copies(m, queue') + 1
      BY <3>1 DEF OneMore, MessageBag, Copies
    <3> QED BY <3>1, <3>2 DEF OneMore
  <2>3. SUFFICES ASSUME NEW e \in Event, lost[e] = 0 PROVE Single(e)'
    BY <2>1 DEF OneCarrier
  <2>4. Single(e)
    BY <2>3 DEF OneCarrier
  <2>5. CASE m.event # e
    BY <2>1, <2>2, <2>4, <2>5 DEF Single, Live, Waits
  <2>6. CASE m.event = e
    <3>1. /\ \A n \in DOMAIN queue : n.event = e => n = m
          /\ queue[m] = 1 /\ e \notin accepted /\ \A v \in Worker : ~Live(v, e)
      BY <2>1, <2>4, <2>6 DEF Single, Waits
    <3>2. m \notin DOMAIN queue'
      BY <2>2, <3>1 DEF Copies, MessageBag
    <3>3. ~Waits(e)'
      BY <2>2, <3>1, <3>2 DEF Waits
    <3> QED BY <2>1, <3>1, <3>3 DEF Single, Live, Waits
  <2> QED BY <2>5, <2>6
<1>4. ASSUME NEW w \in Worker, Post(w) PROVE OneCarrier'
  <2> DEFINE f == job[w].event
  <2>1. /\ pc[w] = "post" /\ UNCHANGED <<queue, lost, job>>
        /\ \A v \in Worker \ {w} : pc'[v] = pc[v]
        /\ \/ accepted' = accepted /\ pc'[w] = "fail"
           \/ accepted' = accepted \cup {f} /\ pc'[w] = "save"
    BY <1>4 DEF Post, Types, busVars
  <2>2. CASE accepted' = accepted /\ pc'[w] = "fail"
    BY <2>1, <2>2, FewerCarriers DEF Live
  <2>3. CASE accepted' = accepted \cup {f} /\ pc'[w] = "save"
    <3>1. Live(w, f)
      BY <2>1 DEF Live
    <3> HIDE DEF f
    <3>2. ASSUME NEW e \in Event, Single(e) PROVE Single(e)'
      <4>1. \A v \in Worker : Live(v, e)' <=> Live(v, e) /\ v # w
        BY <2>1, <2>3 DEF Live
      <4>2. Waits(e)' <=> Waits(e)
        BY <2>1 DEF Waits
      <4> QED BY <2>1, <2>3, <3>1, <3>2, <4>1, <4>2 DEF Single
    <3> QED BY <2>1, <3>2 DEF OneCarrier
  <2> QED BY <2>1, <2>2, <2>3
<1>5. ASSUME NEW w \in Worker, HandleFailure(w) PROVE OneCarrier'
  <2> DEFINE f == job[w].event
             m == Retried(job[w])
  <2>1. /\ pc[w] = "fail" /\ pc'[w] = "save" /\ UNCHANGED <<accepted, lost, job>>
        /\ \A v \in Worker \ {w} : pc'[v] = pc[v]
        /\ \/ UNCHANGED queue
           \/ Retries(w) /\ Adds(m)
    BY <1>5 DEF HandleFailure, Types, Adds, Retried, pastVars
  <2>2. CASE UNCHANGED queue
    BY <2>1, <2>2, FewerCarriers DEF Live
  <2>3. CASE Retries(w) /\ Adds(m)
    <3>1. m \in Message /\ m.event = f /\ Live(w, f)
      BY <2>1, <2>3, RetryFacts DEF Live
    <3>2. /\ DOMAIN queue' = DOMAIN queue \cup {m} /\ queue'[m] = Copies(m, queue) + 1
          /\ \A n \in DOMAIN queue \ {m} : queue'[n] = queue[n]
      BY <2>3, <3>1, AddsOne DEF OneMore
    <3> HIDE DEF m, f
    <3>3. ASSUME NEW e \in Event, Single(e) PROVE Single(e)'
      <4>1. \A v \in Worker : Live(v, e)' <=> Live(v, e) /\ v # w
        BY <2>1 DEF Live
      <4>2. CASE e # f
        BY <2>1, <3>1, <3>2, <3>3, <4>1, <4>2 DEF Single, Waits
      <4>3. CASE e = f
        <5>1. ~Waits(e) /\ e \notin accepted /\ \A v \in Worker : ~Live(v, e)'
          BY <3>1, <3>3, <4>1, <4>3 DEF Single
        <5>2. Copies(m, queue) = 0
          BY <3>1, <4>3, <5>1 DEF Waits, Copies
        <5> QED BY <2>1, <3>1, <3>2, <4>3, <5>1, <5>2 DEF Single, Waits
      <4> QED BY <4>2, <4>3
    <3> QED BY <2>1, <3>3 DEF OneCarrier
  <2> QED BY <2>1, <2>2, <2>3
<1>6. ASSUME NEW f \in Event, NEW m \in Message, m.event = f, CountLoss(f), Adds(m),
             UNCHANGED accepted, \A w \in Worker, e \in Event : Live(w, e)' => Live(w, e)
      PROVE  OneCarrier'
  <2>1. /\ DOMAIN queue' = DOMAIN queue \cup {m}
        /\ \A n \in DOMAIN queue \ {m} : queue'[n] = queue[n]
    BY <1>6, AddsOne DEF OneMore
  <2>2. lost'[f] # 0 /\ \A e \in Event \ {f} : lost'[e] = lost[e]
    BY <1>6 DEF CountLoss, Types
  <2>3. ASSUME NEW e \in Event \ {f}, Single(e) PROVE Single(e)'
    BY <1>6, <2>1, <2>3 DEF Single, Waits
  <2> QED BY <2>2, <2>3 DEF OneCarrier
<1>7. ASSUME NEW w \in Worker, WorkerLost(w) PROVE OneCarrier'
  <2>1. job[w] \in Message /\ job[w].event \in Event
    BY <1>7, MessageFacts DEF WorkerLost, Known
  <2>2. Freed(w) /\ CountLoss(job[w].event) /\ Adds(job[w]) /\ UNCHANGED accepted
    BY <1>7, ReleaseResult DEF WorkerLost, Adds
  <2> QED BY <1>6, <2>1, <2>2 DEF Freed, Others, Live
<1>8. ASSUME NEW m \in Message, Redeliver(m) PROVE OneCarrier'
  <2>1. m.event \in Event
    BY MessageFacts
  <2> QED BY <1>6, <1>8, <2>1 DEF Redeliver, Adds, workVars, Live
<1> QED BY <1>1, <1>2, <1>3, <1>4, <1>5, <1>7, <1>8 DEF Next, WorkerStep

(* Counting pairs of a carrier and an attempt it still owes.                 *)

Pairs(x, S) == {x} \X S

\* As many pairs as attempts.
LEMMA PairsCount ==
  ASSUME NEW x, NEW S, IsFiniteSet(S)
  PROVE  IsFiniteSet(Pairs(x, S)) /\ Cardinality(Pairs(x, S)) = Cardinality(S)
<1> USE DEF Pairs
<1> DEFINE f == [k \in S |-> <<x, k>>]
<1>1. f \in [S -> {x} \X S]
  OBVIOUS
<1>2. \A a, b \in S : f[a] = f[b] => a = b
  OBVIOUS
<1>3. \A t \in {x} \X S : \E k \in S : f[k] = t
  OBVIOUS
<1>4. f \in Bijection(S, {x} \X S)
  BY <1>1, <1>2, <1>3 DEF Bijection, Injection, Surjection, IsInjective
<1> QED BY <1>4, FS_Bijection DEF ExistsBijection

\* The pairs of one more carrier.
LEMMA CarrierAdds ==
  ASSUME NEW P, NEW x, NEW S, IsFiniteSet(S), P \cap Pairs(x, S) = {}
  PROVE  /\ IsFiniteSet(P) <=> IsFiniteSet(P \cup Pairs(x, S))
         /\ IsFiniteSet(P) =>
              /\ Cardinality(P \cup Pairs(x, S)) = Cardinality(P) + Cardinality(S)
              /\ Cardinality(P) \in Nat /\ Cardinality(P \cup Pairs(x, S)) \in Nat
         /\ Cardinality(S) \in Nat
<1> DEFINE Q == P \cup Pairs(x, S)
<1>1. /\ IsFiniteSet(Pairs(x, S)) /\ Cardinality(Pairs(x, S)) = Cardinality(S)
      /\ Cardinality(S) \in Nat
  BY PairsCount, FS_CardinalityType
<1>2. IsFiniteSet(Q) => IsFiniteSet(P)
  BY FS_Subset
<1>3. ASSUME IsFiniteSet(P)
      PROVE  /\ IsFiniteSet(Q) /\ Cardinality(Q) = Cardinality(P) + Cardinality(S)
             /\ Cardinality(P) \in Nat /\ Cardinality(Q) \in Nat
  <2>1. /\ IsFiniteSet(Q)
        /\ Cardinality(Q) = Cardinality(P) + Cardinality(Pairs(x, S)) - Cardinality({})
    BY <1>1, <1>3, FS_Union
  <2>2. Cardinality({}) = 0 /\ Cardinality(P) \in Nat /\ Cardinality(Q) \in Nat
    BY <1>3, <2>1, FS_EmptySet, FS_CardinalityType
  <2> QED BY <1>1, <2>1, <2>2
<1> QED BY <1>1, <1>2, <1>3

(* The attempts that messages and workers still owe.                         *)

\* The attempts a chain still owes when attempt a is next, for the event e.
Chain(f, a, e) == IF f = e THEN a..Attempts ELSE {}

\* A message still owes its own attempt and those after it.
Waiting(B, e) ==
  {t \in (Message \X Nat) \X Nat :
     /\ t[1][1] \in DOMAIN B /\ t[1][2] \in 1..B[t[1][1]]
     /\ t[2] \in Chain(t[1][1].event, t[1][1].attempt, e)}

\* A worker owes what it has not POSTed; once it saves it has handed on the rest.
Mine(label, m, e) ==
  CASE label \in {"load", "post"} -> Chain(m.event, m.attempt, e)
    [] label = "fail"             -> Chain(m.event, m.attempt + 1, e)
    [] OTHER                      -> {}
Held(e) == {t \in Worker \X Nat : t[2] \in Mine(pc[t[1]], job[t[1]], e)}

Worth(f, a, e) == IF f = e THEN Attempts - a + 1 ELSE 0
Owes(label, m, e) ==
  CASE label \in {"load", "post"} -> Worth(m.event, m.attempt, e)
    [] label = "fail"             -> Worth(m.event, m.attempt + 1, e)
    [] OTHER                      -> 0

LEMMA ChainCount ==
  ASSUME NEW f, NEW e, NEW a \in 1..(Attempts + 1), Attempts \in Nat
  PROVE  /\ IsFiniteSet(Chain(f, a, e)) /\ Chain(f, a, e) \subseteq Nat
         /\ Cardinality(Chain(f, a, e)) = Worth(f, a, e) /\ Worth(f, a, e) \in 0..Attempts
<1>1. a \in Int /\ Attempts \in Int
  OBVIOUS
<1>2. /\ IsFiniteSet(a..Attempts)
      /\ Cardinality(a..Attempts) = IF a > Attempts THEN 0 ELSE Attempts - a + 1
  BY <1>1, FS_Interval, Zenon
<1> QED BY <1>2, FS_EmptySet DEF Chain, Worth

LEMMA WaitingCount ==
  ASSUME NEW B, NEW C, NEW m \in Message, NEW e, OneMore(B, C, m), Attempts \in Nat
  PROVE  /\ IsFiniteSet(Waiting(B, e)) <=> IsFiniteSet(Waiting(C, e))
         /\ IsFiniteSet(Waiting(B, e)) =>
              /\ Cardinality(Waiting(C, e)) = Cardinality(Waiting(B, e)) + Worth(m.event, m.attempt, e)
              /\ Cardinality(Waiting(B, e)) \in Nat /\ Cardinality(Waiting(C, e)) \in Nat
<1> DEFINE x == <<m, C[m]>>
           S == Chain(m.event, m.attempt, e)
<1>1. /\ m.attempt \in 1..(Attempts + 1) /\ IsFiniteSet(S) /\ S \subseteq Nat
      /\ Cardinality(S) = Worth(m.event, m.attempt, e)
  <2>1. m.attempt \in 1..(Attempts + 1)
    BY DEF Message
  <2> QED BY <2>1, ChainCount
<1>2. C[m] \in Nat \ {0} /\ C[m] = Copies(m, B) + 1 /\ Copies(m, B) \in Nat
  BY DEF OneMore, MessageBag, Copies
<1>3. ASSUME NEW n \in Message, NEW i \in Nat
      PROVE  (n \in DOMAIN C /\ i \in 1..C[n]) <=> (n \in DOMAIN B /\ i \in 1..B[n]) \/ <<n, i>> = x
  <2>1. CASE n = m
    BY <1>2, <2>1 DEF OneMore, Copies
  <2>2. CASE n # m
    BY <2>2 DEF OneMore
  <2> QED BY <2>1, <2>2
<1>4. ~(m \in DOMAIN B /\ C[m] \in 1..B[m])
  BY <1>2 DEF Copies, OneMore, MessageBag
<1>5. Waiting(C, e) = Waiting(B, e) \cup Pairs(x, S)
  <2>1. ASSUME NEW n \in Message, NEW i \in Nat, NEW k \in Nat
        PROVE  <<<<n, i>>, k>> \in Waiting(C, e)
                 <=> <<<<n, i>>, k>> \in Waiting(B, e) \cup Pairs(x, S)
    BY <1>3, <2>1 DEF Waiting, Pairs
  <2>2. /\ Waiting(C, e) \subseteq (Message \X Nat) \X Nat
        /\ Waiting(B, e) \subseteq (Message \X Nat) \X Nat
        /\ Pairs(x, S) \subseteq (Message \X Nat) \X Nat
    BY <1>1, <1>2 DEF Waiting, Pairs
  <2> HIDE DEF x, S
  <2> QED BY <2>1, <2>2
<1>6. Waiting(B, e) \cap Pairs(x, S) = {}
  BY <1>4 DEF Waiting, Pairs
<1> HIDE DEF x, S
<1>7. IsFiniteSet(S)
  BY <1>1
<1> DEFINE W == Waiting(B, e)
<1>8. /\ IsFiniteSet(W) <=> IsFiniteSet(W \cup Pairs(x, S))
      /\ IsFiniteSet(W) =>
           /\ Cardinality(W \cup Pairs(x, S)) = Cardinality(W) + Cardinality(S)
           /\ Cardinality(W) \in Nat /\ Cardinality(W \cup Pairs(x, S)) \in Nat
      /\ Cardinality(S) \in Nat
  BY <1>6, <1>7, CarrierAdds, Zenon
<1> QED BY <1>1, <1>5, <1>8

LEMMA MineCount ==
  ASSUME NEW label, NEW m, NEW e, Attempts \in Nat, m \in Message \/ label \in {"idle", "save"}
  PROVE  /\ IsFiniteSet(Mine(label, m, e)) /\ Mine(label, m, e) \subseteq Nat
         /\ Cardinality(Mine(label, m, e)) = Owes(label, m, e) /\ Owes(label, m, e) \in 0..Attempts
<1>1. CASE label \in {"load", "post"}
  <2>1. m.attempt \in 1..(Attempts + 1)
    BY <1>1 DEF Message
  <2> QED BY <1>1, <2>1, ChainCount DEF Mine, Owes
<1>2. CASE label = "fail"
  <2>1. m.attempt + 1 \in 1..(Attempts + 1)
    BY <1>2 DEF Message
  <2> QED BY <1>2, <2>1, ChainCount DEF Mine, Owes
<1>3. CASE label \notin {"load", "post", "fail"}
  <2>1. Mine(label, m, e) = {} /\ Owes(label, m, e) = 0
    BY <1>3 DEF Mine, Owes
  <2> QED BY <2>1, FS_EmptySet
<1> QED BY <1>1, <1>2, <1>3

\* Only what w owes has changed.
LEMMA HeldCount ==
  ASSUME NEW w \in Worker, NEW e, IsFiniteSet(Held(e)), Attempts \in Nat,
         \A v \in Worker \ {w} : pc'[v] = pc[v] /\ job'[v] = job[v],
         job[w] \in Message \/ pc[w] \in {"idle", "save"},
         job'[w] \in Message \/ pc'[w] \in {"idle", "save"}
  PROVE  /\ IsFiniteSet(Held(e)')
         /\ Cardinality(Held(e)') \in Nat /\ Cardinality(Held(e)) \in Nat
         /\ Cardinality(Held(e)') + Owes(pc[w], job[w], e)
              = Cardinality(Held(e)) + Owes(pc'[w], job'[w], e)
         /\ Owes(pc[w], job[w], e) \in 0..Attempts /\ Owes(pc'[w], job'[w], e) \in 0..Attempts
<1> DEFINE P == {t \in Held(e) : t[1] # w}
           S == Mine(pc[w], job[w], e)
           T == Mine(pc'[w], job'[w], e)
<1>1. /\ IsFiniteSet(S) /\ S \subseteq Nat
      /\ Cardinality(S) = Owes(pc[w], job[w], e) /\ Owes(pc[w], job[w], e) \in 0..Attempts
  BY MineCount
<1>2. /\ IsFiniteSet(T) /\ T \subseteq Nat
      /\ Cardinality(T) = Owes(pc'[w], job'[w], e) /\ Owes(pc'[w], job'[w], e) \in 0..Attempts
  BY MineCount
<1>3. Held(e) = P \cup Pairs(w, S) /\ P \cap Pairs(w, S) = {}
  BY <1>1 DEF Held, Pairs
<1>4. Held(e)' = P \cup Pairs(w, T) /\ P \cap Pairs(w, T) = {}
  BY <1>2 DEF Held, Pairs
<1> HIDE DEF P, S, T
<1>5. IsFiniteSet(S)
  BY <1>1
<1>6. IsFiniteSet(T)
  BY <1>2
<1>7. P \cap Pairs(w, S) = {}
  BY <1>3
<1>8. P \cap Pairs(w, T) = {}
  BY <1>4
<1>9. /\ IsFiniteSet(P) <=> IsFiniteSet(P \cup Pairs(w, S))
      /\ IsFiniteSet(P) =>
           /\ Cardinality(P \cup Pairs(w, S)) = Cardinality(P) + Cardinality(S)
           /\ Cardinality(P) \in Nat /\ Cardinality(P \cup Pairs(w, S)) \in Nat
      /\ Cardinality(S) \in Nat
  BY ONLY <1>5, <1>7, CarrierAdds, Zenon
<1>10. /\ IsFiniteSet(P) <=> IsFiniteSet(P \cup Pairs(w, T))
       /\ IsFiniteSet(P) =>
            /\ Cardinality(P \cup Pairs(w, T)) = Cardinality(P) + Cardinality(T)
            /\ Cardinality(P) \in Nat /\ Cardinality(P \cup Pairs(w, T)) \in Nat
       /\ Cardinality(T) \in Nat
  BY ONLY <1>6, <1>8, CarrierAdds, Zenon
<1> QED BY <1>1, <1>2, <1>3, <1>4, <1>9, <1>10

(* The budget of an event.                                                   *)

\* POSTs made and POSTs owed are covered by one chain of attempts, and one more for every
\* worker lost and message repeated.
Budget(e) ==
  /\ IsFiniteSet(Waiting(queue, e)) /\ IsFiniteSet(Held(e))
  /\ e \in dispatched =>
       posts[e] + Cardinality(Waiting(queue, e)) + Cardinality(Held(e)) <= (1 + lost[e]) * Attempts
Bounded == \A e \in Event : Budget(e)

LEMMA NothingCarried ==
  ASSUME Types, Known, NEW e \in Event \ dispatched
  PROVE  Waiting(queue, e) = {} /\ Held(e) = {} /\ posts[e] = 0
<1>1. Waiting(queue, e) = {}
  BY DEF Waiting, Known, Chain
<1>2. ASSUME NEW w \in Worker PROVE Mine(pc[w], job[w], e) = {}
  BY DEF Mine, Known, Chain
<1> QED BY <1>1, <1>2 DEF Held, Known

LEMMA InitBounded == Init => Bounded
<1> SUFFICES ASSUME Init, NEW e \in Event
             PROVE  IsFiniteSet(Waiting(queue, e)) /\ IsFiniteSet(Held(e)) /\ e \notin dispatched
  BY DEF Bounded, Budget
<1>1. Types /\ Known /\ e \notin dispatched
  BY InitTypes DEF Init
<1>2. Waiting(queue, e) = {} /\ Held(e) = {}
  BY <1>1, NothingCarried
<1> QED BY <1>1, <1>2, FS_EmptySet

LEMMA Allowance ==
  ASSUME NEW n \in Nat
  PROVE  /\ (1 + n) * Attempts \in Nat /\ Attempts \in Nat
         /\ (1 + (n + 1)) * Attempts = (1 + n) * Attempts + Attempts
<1>1. Attempts \in Nat
  BY MessageFacts
<1> QED BY <1>1

\* A worker's step: what it POSTs and hands on is what it owes less, or was lost.
LEMMA BudgetStep ==
  ASSUME Types, Known, Types', NEW w \in Worker, NEW e \in Event, Budget(e),
         \A v \in Worker \ {w} : pc'[v] = pc[v] /\ job'[v] = job[v],
         job'[w] \in Message \/ pc'[w] \in {"idle", "save"},
         dispatched' = dispatched,
         IsFiniteSet(Waiting(queue', e)),
         posts'[e] + Cardinality(Waiting(queue', e)) + Owes(pc'[w], job'[w], e)
             + (1 + lost[e]) * Attempts
           <= posts[e] + Cardinality(Waiting(queue, e)) + Owes(pc[w], job[w], e)
                + (1 + lost'[e]) * Attempts
  PROVE  Budget(e)'
<1>1. IsFiniteSet(Waiting(queue, e)) /\ IsFiniteSet(Held(e))
  BY DEF Budget
<1>2. /\ Cardinality(Waiting(queue, e)) \in Nat /\ Cardinality(Waiting(queue', e)) \in Nat
      /\ (1 + lost[e]) * Attempts \in Nat /\ (1 + lost'[e]) * Attempts \in Nat
      /\ posts[e] \in Nat /\ posts'[e] \in Nat
  BY <1>1, FS_CardinalityType, Allowance DEF Types
<1>3. Attempts \in Nat /\ (job[w] \in Message \/ pc[w] \in {"idle", "save"})
  BY MessageFacts DEF Known
<1>4. /\ IsFiniteSet(Held(e)')
      /\ Cardinality(Held(e)') \in Nat /\ Cardinality(Held(e)) \in Nat
      /\ Cardinality(Held(e)') + Owes(pc[w], job[w], e)
           = Cardinality(Held(e)) + Owes(pc'[w], job'[w], e)
      /\ Owes(pc[w], job[w], e) \in 0..Attempts /\ Owes(pc'[w], job'[w], e) \in 0..Attempts
  BY <1>1, <1>3, HeldCount
<1> DEFINE W == Cardinality(Waiting(queue, e))
           X == Cardinality(Waiting(queue', e))
           G == Cardinality(Held(e))
           H == Cardinality(Held(e)')
           M == (1 + lost[e]) * Attempts
           N == (1 + lost'[e]) * Attempts
           O == Owes(pc[w], job[w], e)
           P == Owes(pc'[w], job'[w], e)
<1>5. posts'[e] + X + P + M <= posts[e] + W + O + N /\ H + O = G + P
  BY <1>4
<1>6. {W, X, G, H, M, N, O, P, posts[e], posts'[e]} \subseteq Nat
  BY <1>2, <1>3, <1>4
<1>7. e \in dispatched => posts[e] + W + G <= M
  BY DEF Budget
<1>8. Waiting(queue, e)' = Waiting(queue', e)
  BY DEF Waiting
<1>9. e \in dispatched => posts'[e] + X + H <= N
  <2> HIDE DEF W, X, G, H, M, N, O, P
  <2> QED BY <1>5, <1>6, <1>7
<1> QED BY <1>1, <1>4, <1>8, <1>9 DEF Budget

LEMMA QueueGrows ==
  ASSUME Types, NEW e \in Event, Budget(e), NEW m \in Message, Adds(m)
  PROVE  /\ IsFiniteSet(Waiting(queue', e)) /\ Cardinality(Waiting(queue, e)) \in Nat
         /\ Cardinality(Waiting(queue', e))
              = Cardinality(Waiting(queue, e)) + Worth(m.event, m.attempt, e)
  BY MessageFacts, AddsOne, WaitingCount DEF Budget

LEMMA QueueShrinks ==
  ASSUME Types, NEW e \in Event, Budget(e), NEW m \in Message, Takes(m)
  PROVE  /\ IsFiniteSet(Waiting(queue', e)) /\ Cardinality(Waiting(queue', e)) \in Nat
         /\ Cardinality(Waiting(queue, e))
              = Cardinality(Waiting(queue', e)) + Worth(m.event, m.attempt, e)
  BY MessageFacts, TakesOne, WaitingCount DEF Budget

\* A step that changes neither the messages nor the budget.
LEMMA QuietStep ==
  ASSUME Types, Known, Types', NEW w \in Worker, NEW e \in Event, Budget(e),
         \A v \in Worker \ {w} : pc'[v] = pc[v] /\ job'[v] = job[v],
         job'[w] \in Message \/ pc'[w] \in {"idle", "save"},
         UNCHANGED <<dispatched, queue, lost>>,
         posts'[e] + Owes(pc'[w], job'[w], e) <= posts[e] + Owes(pc[w], job[w], e)
  PROVE  Budget(e)'
<1>1. IsFiniteSet(Waiting(queue', e)) /\ Cardinality(Waiting(queue', e)) \in Nat
      /\ (1 + lost[e]) * Attempts \in Nat /\ posts[e] \in Nat /\ posts'[e] \in Nat
  BY FS_CardinalityType, Allowance DEF Budget, Types
<1>2. /\ Owes(pc[w], job[w], e) \in 0..Attempts /\ Owes(pc'[w], job'[w], e) \in 0..Attempts
      /\ Attempts \in Nat
  BY MessageFacts, MineCount DEF Known
<1> DEFINE X == Cardinality(Waiting(queue', e))
           M == (1 + lost[e]) * Attempts
           O == Owes(pc[w], job[w], e)
           P == Owes(pc'[w], job'[w], e)
<1>3. posts'[e] + X + P + M <= posts[e] + X + O + M
  <2> HIDE DEF X, M
  <2> QED BY <1>1, <1>2 DEF X, M
<1> QED BY <1>1, <1>3, BudgetStep

LEMMA DispatchBudget ==
  ASSUME Types, Known, NEW f \in Event, NEW e \in Event, Budget(e), Dispatch(f)
  PROVE  Budget(e)'
<1> DEFINE m == [event |-> f, attempt |-> 1]
<1>1. /\ UNCHANGED <<pc, job, posts, lost>>
      /\ dispatched' = dispatched \cup {f} /\ f \notin dispatched
      /\ UNCHANGED queue \/ Adds(m)
  BY DEF Dispatch, workVars, pastVars, Adds
<1>2. m \in Message /\ Worth(m.event, m.attempt, e) = (IF f = e THEN Attempts ELSE 0)
  BY MessageFacts DEF Worth
<1>3. Held(e)' = Held(e) /\ Waiting(queue, e)' = Waiting(queue', e)
  BY <1>1 DEF Held, Waiting
<1> HIDE DEF m
<1>4. /\ IsFiniteSet(Waiting(queue', e)) /\ IsFiniteSet(Held(e))
      /\ Cardinality(Waiting(queue, e)) \in Nat
      /\ Cardinality(Waiting(queue', e)) \in {Cardinality(Waiting(queue, e)),
           Cardinality(Waiting(queue, e)) + Worth(m.event, m.attempt, e)}
  BY <1>1, <1>2, QueueGrows, FS_CardinalityType DEF Budget
<1>5. CASE e # f
  <2>1. Cardinality(Waiting(queue', e)) = Cardinality(Waiting(queue, e))
    BY <1>2, <1>4, <1>5
  <2> QED BY <1>1, <1>3, <1>4, <1>5, <2>1 DEF Budget
<1>6. CASE e = f
  <2>1. Waiting(queue, e) = {} /\ Held(e) = {} /\ posts[e] = 0
    BY <1>1, <1>6, NothingCarried
  <2>2. Cardinality(Waiting(queue, e)) = 0 /\ Cardinality(Held(e)) = 0
    BY <2>1, FS_EmptySet
  <2>3. lost[e] \in Nat /\ Attempts \in Nat
    BY MessageFacts DEF Types
  <2>4. Attempts <= (1 + lost[e]) * Attempts
    BY <2>3
  <2>5. Cardinality(Waiting(queue', e)) <= Attempts
    BY <1>2, <1>4, <1>6, <2>2, <2>3
  <2>6. Cardinality(Waiting(queue', e)) \in Nat /\ (1 + lost[e]) * Attempts \in Nat
    BY <1>4, <2>3, Allowance, FS_CardinalityType
  <2>7. posts'[e] + Cardinality(Waiting(queue', e)) + Cardinality(Held(e)) <= (1 + lost'[e]) * Attempts
    BY <1>1, <2>1, <2>2, <2>3, <2>4, <2>5, <2>6
  <2> QED BY <1>1, <1>3, <1>4, <2>7 DEF Budget
<1> QED BY <1>5, <1>6

LEMMA RedeliverBudget ==
  ASSUME Types, Known, NEW m \in Message, NEW e \in Event, Budget(e), Redeliver(m)
  PROVE  Budget(e)'
<1>1. /\ UNCHANGED <<pc, job, posts, dispatched>> /\ CountLoss(m.event) /\ Adds(m)
  BY DEF Redeliver, workVars, Adds
<1>2. Held(e)' = Held(e) /\ Waiting(queue, e)' = Waiting(queue', e)
  BY <1>1 DEF Held, Waiting
<1>3. /\ IsFiniteSet(Waiting(queue', e)) /\ IsFiniteSet(Held(e))
      /\ Cardinality(Waiting(queue, e)) \in Nat /\ Cardinality(Held(e)) \in Nat
      /\ Cardinality(Waiting(queue', e))
           = Cardinality(Waiting(queue, e)) + Worth(m.event, m.attempt, e)
  BY <1>1, QueueGrows, FS_CardinalityType DEF Budget
<1>4. lost[e] \in Nat /\ Attempts \in Nat /\ posts[e] \in Nat /\ m.event \in Event
      /\ m.attempt \in 1..Attempts
  BY MessageFacts DEF Types
<1>5. CASE e # m.event
  <2>1. lost'[e] = lost[e] /\ Worth(m.event, m.attempt, e) = 0
    BY <1>1, <1>4, <1>5 DEF CountLoss, Types, Worth
  <2>2. Cardinality(Waiting(queue', e)) = Cardinality(Waiting(queue, e))
    BY <1>3, <2>1
  <2> QED BY <1>1, <1>2, <1>3, <2>1, <2>2 DEF Budget
<1>6. CASE e = m.event
  <2>1. lost'[e] = lost[e] + 1 /\ Worth(m.event, m.attempt, e) \in 0..Attempts
    BY <1>1, <1>4, <1>6 DEF CountLoss, Types, Worth
  <2>2. (1 + lost'[e]) * Attempts = (1 + lost[e]) * Attempts + Attempts
        /\ (1 + lost[e]) * Attempts \in Nat
    BY <1>4, <2>1, Allowance
  <2>3. ASSUME e \in dispatched
        PROVE  posts[e] + Cardinality(Waiting(queue', e)) + Cardinality(Held(e))
                 <= (1 + lost'[e]) * Attempts
    <3>1. posts[e] + Cardinality(Waiting(queue, e)) + Cardinality(Held(e))
            <= (1 + lost[e]) * Attempts
      BY <2>3 DEF Budget
    <3> DEFINE M == (1 + lost[e]) * Attempts
               N == (1 + lost'[e]) * Attempts
    <3> HIDE DEF M, N
    <3> QED BY <1>3, <1>4, <2>1, <2>2, <3>1 DEF M, N
  <2> QED BY <1>1, <1>2, <1>3, <2>3 DEF Budget
<1> QED BY <1>5, <1>6

LEMMA WorkerBudget ==
  ASSUME Types, Known, Types', NEW w \in Worker, NEW e \in Event, Budget(e), WorkerStep(w)
  PROVE  Budget(e)'
<1>1. /\ Attempts \in Nat /\ posts[e] \in Nat
      /\ job[w] \in Message \/ pc[w] \in {"idle", "save"}
      /\ Owes(pc[w], job[w], e) \in 0..Attempts
  <2>1. Attempts \in Nat /\ posts[e] \in Nat /\ (job[w] \in Message \/ pc[w] \in {"idle", "save"})
    BY MessageFacts DEF Types, Known
  <2> QED BY <2>1, MineCount
<1>2. ASSUME Freed(w), UNCHANGED <<dispatched, queue, lost, posts>> PROVE Budget(e)'
  <2>1. Owes(pc'[w], job'[w], e) = 0 /\ pc'[w] \in {"idle", "save"}
    BY <1>2 DEF Freed, Owes
  <2>2. posts'[e] + Owes(pc'[w], job'[w], e) <= posts[e] + Owes(pc[w], job[w], e)
    BY <1>1, <1>2, <2>1
  <2> QED BY <1>2, <2>1, <2>2, QuietStep DEF Freed, Others
<1>3. CASE Load(w)
  <2>1. CASE active = "active"
    <3>1. /\ pc[w] = "load" /\ pc'[w] = "post" /\ job' = job
          /\ \A v \in Worker \ {w} : pc'[v] = pc[v] /\ job'[v] = job[v]
          /\ UNCHANGED <<dispatched, queue, lost, posts>>
      BY <1>3, <2>1 DEF Load, Types, busVars, pastVars
    <3>2. posts'[e] + Owes(pc'[w], job'[w], e) <= posts[e] + Owes(pc[w], job[w], e)
      BY <1>1, <3>1 DEF Owes
    <3> QED BY <1>1, <3>1, <3>2, QuietStep
  <2>2. CASE active # "active"
    BY <1>2, <1>3, <2>2, ReleaseResult DEF Load, busVars, pastVars
  <2> QED BY <2>1, <2>2
<1>4. CASE Post(w)
  <2>1. /\ pc[w] = "post" /\ pc'[w] \in {"fail", "save"} /\ job' = job
        /\ \A v \in Worker \ {w} : pc'[v] = pc[v] /\ job'[v] = job[v]
        /\ posts' = [posts EXCEPT ![job[w].event] = @ + 1]
        /\ UNCHANGED <<dispatched, queue, lost>>
    BY <1>4 DEF Post, Types, busVars
  <2>2. job[w] \in Message /\ job[w].event \in Event /\ job[w].attempt \in 1..Attempts
    BY <1>1, <2>1, MessageFacts
  <2>3. posts'[e] = posts[e] + (IF job[w].event = e THEN 1 ELSE 0)
    BY <1>1, <2>1 DEF Types
  <2>4. posts'[e] + Owes(pc'[w], job'[w], e) <= posts[e] + Owes(pc[w], job[w], e)
    <3>1. Owes(pc[w], job[w], e) = IF job[w].event = e THEN Attempts - job[w].attempt + 1 ELSE 0
      BY <2>1 DEF Owes, Worth
    <3>2. Owes(pc'[w], job'[w], e)
            \in {0, IF job[w].event = e THEN Attempts - (job[w].attempt + 1) + 1 ELSE 0}
      BY <2>1 DEF Owes, Worth
    <3> QED BY <1>1, <2>2, <2>3, <3>1, <3>2
  <2> QED BY <2>1, <2>2, <2>4, QuietStep
<1>5. CASE HandleFailure(w)
  <2>1. /\ pc[w] = "fail" /\ pc'[w] = "save" /\ job' = job
        /\ \A v \in Worker \ {w} : pc'[v] = pc[v] /\ job'[v] = job[v]
        /\ UNCHANGED <<dispatched, lost, posts>>
        /\ UNCHANGED queue \/ (Retries(w) /\ Adds(Retried(job[w])))
    BY <1>5 DEF HandleFailure, Types, pastVars, Adds, Retried
  <2>2. Owes(pc'[w], job'[w], e) = 0
    BY <2>1 DEF Owes
  <2>3. CASE UNCHANGED queue
    <3>1. posts'[e] + Owes(pc'[w], job'[w], e) <= posts[e] + Owes(pc[w], job[w], e)
      BY <1>1, <2>1, <2>2
    <3> QED BY <2>1, <2>3, <3>1, QuietStep
  <2>4. CASE Retries(w) /\ Adds(Retried(job[w]))
    <3>1. /\ Retried(job[w]) \in Message
          /\ Retried(job[w]).event = job[w].event
          /\ Retried(job[w]).attempt = job[w].attempt + 1
      BY <2>1, <2>4, RetryFacts
    <3>2. Owes(pc[w], job[w], e) = Worth(Retried(job[w]).event, Retried(job[w]).attempt, e)
      BY <2>1, <3>1 DEF Owes
    <3>3. /\ IsFiniteSet(Waiting(queue', e)) /\ Cardinality(Waiting(queue, e)) \in Nat
          /\ Cardinality(Waiting(queue', e))
               = Cardinality(Waiting(queue, e)) + Owes(pc[w], job[w], e)
      BY <2>4, <3>1, <3>2, QueueGrows
    <3>4. (1 + lost[e]) * Attempts \in Nat
      BY Allowance DEF Types
    <3>5. posts'[e] + Cardinality(Waiting(queue', e)) + Owes(pc'[w], job'[w], e)
              + (1 + lost[e]) * Attempts
            <= posts[e] + Cardinality(Waiting(queue, e)) + Owes(pc[w], job[w], e)
                 + (1 + lost'[e]) * Attempts
      BY <1>1, <2>1, <2>2, <3>3, <3>4
    <3> QED BY <2>1, <3>3, <3>5, BudgetStep
  <2> QED BY <2>1, <2>3, <2>4
<1>6. CASE Save(w) \/ Raise(w)
  <2>1. Release(w) /\ pc[w] # "idle" /\ UNCHANGED <<dispatched, queue, lost, posts>>
    BY <1>6 DEF Save, Raise, busVars, pastVars
  <2> QED BY <1>2, <2>1, ReleaseResult
<1> QED BY <1>3, <1>4, <1>5, <1>6 DEF WorkerStep

LEMMA DeliverBudget ==
  ASSUME Types, Known, Types', NEW w \in Worker, NEW e \in Event, Budget(e),
         NEW m \in Message, Deliver(w, m)
  PROVE  Budget(e)'
<1>1. /\ Takes(m) /\ UNCHANGED <<posts, lost, dispatched>>
      /\ pc[w] = "idle" /\ pc'[w] = "load" /\ job'[w] = m
      /\ \A v \in Worker \ {w} : pc'[v] = pc[v] /\ job'[v] = job[v]
  BY DEF Deliver, Takes, Types
<1>2. Owes(pc[w], job[w], e) = 0 /\ Owes(pc'[w], job'[w], e) = Worth(m.event, m.attempt, e)
  BY <1>1 DEF Owes
<1>3. /\ IsFiniteSet(Waiting(queue', e)) /\ Cardinality(Waiting(queue', e)) \in Nat
      /\ Cardinality(Waiting(queue, e))
           = Cardinality(Waiting(queue', e)) + Worth(m.event, m.attempt, e)
  BY <1>1, QueueShrinks
<1>4. (1 + lost[e]) * Attempts \in Nat /\ posts[e] \in Nat /\ Attempts \in Nat
      /\ Owes(pc'[w], job'[w], e) \in 0..Attempts
  BY <1>1, Allowance, MineCount, MessageFacts DEF Types
<1>5. posts'[e] + Cardinality(Waiting(queue', e)) + Owes(pc'[w], job'[w], e)
          + (1 + lost[e]) * Attempts
        <= posts[e] + Cardinality(Waiting(queue, e)) + Owes(pc[w], job[w], e)
             + (1 + lost'[e]) * Attempts
  BY <1>1, <1>2, <1>3, <1>4
<1> QED BY <1>1, <1>3, <1>5, BudgetStep

LEMMA LossBudget ==
  ASSUME Types, Known, Types', NEW w \in Worker, NEW e \in Event, Budget(e), WorkerLost(w)
  PROVE  Budget(e)'
<1>1. job[w] \in Message /\ job[w].event \in Event /\ job[w].attempt \in 1..Attempts
  BY MessageFacts DEF WorkerLost, Known
<1>2. /\ Freed(w) /\ CountLoss(job[w].event) /\ Adds(job[w]) /\ UNCHANGED <<posts, dispatched>>
  BY ReleaseResult DEF WorkerLost, Adds
<1>3. Owes(pc'[w], job'[w], e) = 0 /\ pc'[w] \in {"idle", "save"}
  BY <1>2 DEF Freed, Owes
<1>4. /\ Attempts \in Nat /\ posts[e] \in Nat /\ Owes(pc[w], job[w], e) \in 0..Attempts
      /\ lost[e] \in Nat
  BY <1>1, MessageFacts, MineCount DEF Types
<1>5. /\ IsFiniteSet(Waiting(queue', e)) /\ Cardinality(Waiting(queue, e)) \in Nat
      /\ Cardinality(Waiting(queue', e))
           = Cardinality(Waiting(queue, e)) + Worth(job[w].event, job[w].attempt, e)
  BY <1>1, <1>2, QueueGrows
<1>6. Worth(job[w].event, job[w].attempt, e) + (1 + lost[e]) * Attempts <= (1 + lost'[e]) * Attempts
      /\ Worth(job[w].event, job[w].attempt, e) \in Nat
      /\ (1 + lost[e]) * Attempts \in Nat /\ (1 + lost'[e]) * Attempts \in Nat
  <2>1. (1 + lost[e]) * Attempts \in Nat
        /\ (1 + (lost[e] + 1)) * Attempts = (1 + lost[e]) * Attempts + Attempts
    BY <1>4, Allowance
  <2>2. CASE e = job[w].event
    <3>1. lost'[e] = lost[e] + 1 /\ Worth(job[w].event, job[w].attempt, e) \in 0..Attempts
      BY <1>1, <1>2, <1>4, <2>2 DEF CountLoss, Types, Worth
    <3> DEFINE M == (1 + lost[e]) * Attempts
               N == (1 + (lost[e] + 1)) * Attempts
    <3>2. M \in Nat /\ N = M + Attempts /\ (1 + lost'[e]) * Attempts = N
      BY <2>1, <3>1
    <3> HIDE DEF M, N
    <3> QED BY <1>4, <3>1, <3>2 DEF M
  <2>3. CASE e # job[w].event
    <3>1. lost'[e] = lost[e] /\ Worth(job[w].event, job[w].attempt, e) = 0
      BY <1>1, <1>2, <1>4, <2>3 DEF CountLoss, Types, Worth
    <3> QED BY <2>1, <3>1
  <2> QED BY <2>2, <2>3
<1>7. posts'[e] + Cardinality(Waiting(queue', e)) + Owes(pc'[w], job'[w], e)
          + (1 + lost[e]) * Attempts
        <= posts[e] + Cardinality(Waiting(queue, e)) + Owes(pc[w], job[w], e)
             + (1 + lost'[e]) * Attempts
  <2> DEFINE M == (1 + lost[e]) * Attempts
             N == (1 + lost'[e]) * Attempts
  <2> HIDE DEF M, N
  <2> QED BY <1>2, <1>3, <1>4, <1>5, <1>6 DEF M, N
<1> QED BY <1>2, <1>3, <1>5, <1>7, BudgetStep DEF Freed, Others

LEMMA BoundedStep == Types /\ Known /\ Bounded /\ [Next]_vars => Bounded'
<1> SUFFICES ASSUME Types, Known, Bounded, [Next]_vars, NEW e \in Event PROVE Budget(e)'
  BY DEF Bounded
<1>1. Types' /\ Budget(e)
  BY TypesStep DEF Bounded
<1>2. CASE Update \/ Delete \/ UNCHANGED vars
  BY <1>1, <1>2 DEF Update, Delete, vars, busVars, workVars, pastVars, Budget, Waiting, Held
<1> QED
  BY <1>1, <1>2, DispatchBudget, RedeliverBudget, WorkerBudget, DeliverBudget, LossBudget DEF Next

WebhookInv == Types /\ Known /\ Alone /\ OneCarrier /\ Bounded

LEMMA WebhookInvariant == Spec => []WebhookInv
<1>1. Init => WebhookInv
  BY InitTypes, InitOthers, InitBounded DEF WebhookInv
<1>2. WebhookInv /\ [Next]_vars => WebhookInv'
  BY TypesStep, AloneStep, CarrierStep, BoundedStep DEF WebhookInv
<1> QED BY <1>1, <1>2, PTL DEF Spec

\* An event is POSTed at most once per attempt of its chain, and one more chain for every
\* worker lost or message repeated, however failures, retries and toggles interleave.
THEOREM LossesCostOneChainEach == Spec => []LossCostsOneChain
<1>1. WebhookInv => LossCostsOneChain
  <2> SUFFICES ASSUME WebhookInv, NEW e \in Event PROVE posts[e] <= (1 + lost[e]) * Attempts
    BY DEF LossCostsOneChain
  <2>1. posts[e] \in Nat /\ (1 + lost[e]) * Attempts \in Nat
    BY Allowance DEF WebhookInv, Types
  <2>2. CASE e \in dispatched
    <3> DEFINE N == (1 + lost[e]) * Attempts
    <3>1. /\ posts[e] + Cardinality(Waiting(queue, e)) + Cardinality(Held(e)) <= N
          /\ IsFiniteSet(Waiting(queue, e)) /\ IsFiniteSet(Held(e))
      BY <2>2 DEF WebhookInv, Bounded, Budget
    <3>2. Cardinality(Waiting(queue, e)) \in Nat /\ Cardinality(Held(e)) \in Nat
      BY <3>1, FS_CardinalityType
    <3>3. N \in Nat
      BY <2>1
    <3> HIDE DEF N
    <3>4. posts[e] <= N
      BY <2>1, <3>1, <3>2, <3>3
    <3> QED BY <3>4 DEF N
  <2>3. CASE e \notin dispatched
    BY <2>1, <2>3 DEF WebhookInv, Known
  <2> QED BY <2>2, <2>3
<1> QED BY <1>1, WebhookInvariant, PTL

\* Unless a message was lost or repeated, an event that the endpoint accepted is never
\* POSTed again: its one carrier has gone to record the success.
THEOREM AcceptedEndsTheChain == Spec => AcceptedIsNotRepeated
<1>1. WebhookInv /\ [Next]_vars => [\A e \in accepted : lost[e] = 0 => posts'[e] = posts[e]]_vars
  <2> SUFFICES ASSUME WebhookInv, Next, NEW e \in accepted, lost[e] = 0 PROVE posts'[e] = posts[e]
    OBVIOUS
  <2>1. Types /\ Known /\ OneCarrier
    BY DEF WebhookInv
  <2>2. CASE UNCHANGED posts
    BY <2>2
  <2>3. ASSUME NEW w \in Worker, Post(w) PROVE posts'[e] = posts[e]
    <3>1. CASE job[w].event = e
      <4>1. e \in Event /\ Live(w, e)
        BY <2>1, <2>3, <3>1, MessageFacts DEF Post, Known, Live
      <4>2. ~Live(w, e)
        BY <2>1, <4>1 DEF OneCarrier, Single
      <4> QED BY <4>1, <4>2
    <3>2. CASE job[w].event # e
      BY <2>1, <2>3, <3>2 DEF Post, Types
    <3> QED BY <3>1, <3>2
  <2> QED BY <2>2, <2>3
          DEF Next, Dispatch, Update, Delete, Deliver, WorkerStep, Load, HandleFailure, Save, Raise,
              WorkerLost, Redeliver, pastVars
<1> QED BY <1>1, WebhookInvariant, PTL DEF Spec, AcceptedIsNotRepeated

\* Where deliveries do not overlap, the worker that disables the endpoint completes a streak
\* of Threshold failures: the counter it loaded is the counter of the row.
THEOREM OnlyAStreakDisables == Spec => DisabledByStreak
<1> DEFINE Streaks == \A w \in Worker :
             AutoDisables(w) /\ pc'[w] = "idle" /\ ~overlapped => streak' = Threshold
<1>1. WebhookInv /\ [Next]_vars => [Streaks]_vars
  <2> SUFFICES ASSUME WebhookInv, Next, NEW w \in Worker,
                      AutoDisables(w), pc'[w] = "idle", ~overlapped
               PROVE  streak' = Threshold
    OBVIOUS
  <2>1. Types /\ Known /\ Alone /\ pc[w] = "save" /\ ~good[w]
        /\ active = "active" /\ active' = "inactive"
    BY DEF WebhookInv, AutoDisables
  <2>2. ~(UNCHANGED active) /\ ~(UNCHANGED pc)
    BY <2>1
  <2>3. PICK v \in Worker : Save(v)
    BY <2>1, <2>2
       DEF Next, Dispatch, Update, Delete, Deliver, WorkerStep, Load, Post, HandleFailure, Raise,
           WorkerLost, Redeliver, hookVars, workVars
  <2>4. v = w
    BY <2>1, <2>3 DEF Save, Alone
  <2>5. /\ row[w].failures + 1 >= Threshold
        /\ streak' = IF streak < Threshold THEN streak + 1 ELSE streak
    BY <2>1, <2>3, <2>4 DEF Save, Disables
  <2>6. /\ row[w].failures = failures /\ failures \in Nat /\ Threshold \in Nat \ {0}
        /\ streak = (IF failures < Threshold THEN failures ELSE Threshold)
    BY <2>1, WebhookAssumption DEF Alone, Types
  <2> QED BY <2>5, <2>6
<1> QED BY <1>1, WebhookInvariant, PTL DEF Spec, DisabledByStreak

================================================================================
