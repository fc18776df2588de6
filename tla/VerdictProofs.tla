--------------------------- MODULE VerdictProofs ---------------------------
(***************************************************************************)
(* What JudgePipeline guarantees about verdicts, proved from the type      *)
(* invariant of JudgePipelineProofs: the attempt history, the projected    *)
(* result, the finality of verdicts and the refinement of VerdictLedger;   *)
(* about rejudge batches: what its counters and its status tell, and       *)
(* how many verdicts a submission may collect; and, with one worker, that  *)
(* a dispatched task is never forgotten.                                   *)
(***************************************************************************)
EXTENDS JudgePipelineProofs

\* The statements an action is made of are read as what they write.
USE DEF InsertSubmission, CreateJudgeTask, ListEligibleProblemSubmissionsForRejudge, InsertRejudgeBatch,
        CreateRejudgeBatchItem, PrepareSubmissionForRejudge, CancelQueuedRejudgeBatchItems,
        CancelPendingJudgeTaskForRejudge, RestoreSubmissionAfterCanceledRejudge,
        GetLatestJudgeAttemptBySubmissionID, GetQueuedRejudgeBatchItemByTaskID,
        CreateJudgeAttempt, UpdateSubmissionStatus, MarkJudgeAttemptFinished, finishJudgeAttempt

HistoryInv == TypeInv /\ OnlyLatestAttemptOpen /\ ProjectionShowsLatestVerdict

\* As far as attempts and projected results go, a step is one of three: it
\* leaves them alone and moves submissions only to an open status or back to
\* their projected verdict; it opens the next attempt; it writes a verdict.
Quiet ==
    /\ UNCHANGED <<att, result>>
    /\ \A s \in Subs : \/ sub'[s] = sub[s]
                       \/ sub'[s] \in OpenStatuses
                       \/ result[s] # NoResult /\ sub'[s] = result[s].status

OpensAttempt ==
    /\ UNCHANGED <<sub, result>>
    /\ \E s \in Subs, b \in Batches \cup {None} :
          /\ ~Reusable(s)
          /\ att' = [att EXCEPT ![s] = Append(@, [status |-> "created", batch |-> b])]

Writes(s, no, v) ==
    /\ ~terminalStatus(att[s][no].status)
    /\ ~terminalStatus(sub[s])
    /\ sub' = [sub EXCEPT ![s] = v]
    /\ att' = [att EXCEPT ![s][no].status = v]
    /\ result' = [result EXCEPT ![s] = [attempt |-> no, status |-> v]]

WritesVerdict ==
    \E s \in Subs : \E no \in DOMAIN att[s], v \in Verdicts : Writes(s, no, v)

LEMMA EnsureHistory ==
    ASSUME TypeInv, NEW w \in Workers, EnsureJudgeAttempt(w)
    PROVE  Quiet \/ OpensAttempt
  <1>1. UNCHANGED <<sub, result>> /\ disp[w].cur \in Subs
    BY EnsureEffect DEF EnsureJudgeAttempt
  <1>2. CASE Reusable(disp[w].cur)
    BY <1>1, <1>2, EnsureEffect DEF Quiet
  <1>3. CASE ~Reusable(disp[w].cur)
    BY <1>1, <1>3, EnsureEffect DEF OpensAttempt
  <1> QED
    BY <1>2, <1>3

LEMMA CompleteHistory ==
    ASSUME TypeInv, NEW w \in Workers, CompleteResult(w)
    PROVE  Quiet \/ WritesVerdict
  <1>1. PICK i \in DOMAIN ress :
           \/ UNCHANGED db
           \/ ~Swallowed(ress[i].sub, ress[i].no) /\ WriteVerdict(w, i)
    BY DEF CompleteResult, HeldBy
  <1>2. CASE UNCHANGED db
    BY <1>2 DEF Quiet, db
  <1>3. CASE ~Swallowed(ress[i].sub, ress[i].no) /\ WriteVerdict(w, i)
    <2>1. /\ ress[i].sub \in Subs /\ ress[i].verdict \in Verdicts
          /\ ress[i].no \in DOMAIN att[ress[i].sub]
      BY EventSubjects DEF TypeInv, ResultEvent, EventsRefer
    <2> QED
      BY <1>3, <2>1 DEF WritesVerdict, Writes, WriteVerdict, Swallowed, UpsertSubmissionResult
  <1> QED
    BY <1>1, <1>2, <1>3

\* A refresh that starts to wait has changed no row, stream or loop.
LEMMA WaitingChangesNothing ==
    ASSUME NEW w \in Workers, EnsureWaits(w) \/ CompleteWaits(w)
    PROVE  UNCHANGED <<sub, task, att, result, batch, item, reqs, ress, disp, proc, faults>>
  <1>1. \E loop, s, b : AwaitBatchRow(w, loop, s, b)
    BY DEF EnsureWaits, CompleteWaits
  <1> QED
    BY <1>1 DEF AwaitBatchRow

LEMMA StepHistory ==
    ASSUME TypeInv, [Next]_vars
    PROVE  Quiet \/ OpensAttempt \/ WritesVerdict
  <1>1. ASSUME NEW s \in Subs, CreateSubmission(s) \/ ResetStaleJudgeTask(s) PROVE Quiet
    BY <1>1 DEF TypeInv, TypeOK, CreateSubmission, ResetStaleJudgeTask, Quiet, OpenStatuses
  <1>2. ASSUME NEW b \in Batches, CreateRejudgeBatch(b) PROVE Quiet
    BY <1>2 DEF CreateRejudgeBatch, Quiet, OpenStatuses
  <1>3. ASSUME NEW b \in Batches, CancelRejudgeBatch(b) PROVE Quiet
    <2>1. \A s \in Subs : /\ s \in ItemsWith(item, b, "queued") => result[s] # NoResult
                          /\ sub'[s] = IF s \in ItemsWith(item, b, "queued")
                                       THEN result[s].status ELSE sub[s]
      BY <1>3 DEF CancelRejudgeBatch
    <2> QED
      BY <1>3, <2>1 DEF CancelRejudgeBatch, Quiet
  <1>4. ASSUME NEW w \in Workers, MarkSubmissionRunning(w) PROVE Quiet
    BY <1>4 DEF TypeInv, TypeOK, MarkSubmissionRunning, Quiet, OpenStatuses
  <1>5. ASSUME NEW w \in Workers,
               ClaimPendingJudgeTasks(w) \/ ReadSubmission(w) \/ Publish(w) \/ RetryJudgeTask(w)
                 \/ MarkJudgeTaskDispatched(w) \/ ResultConsume(w) \/ ResultAck(w)
                 \/ BuildFails(w) \/ EnsureFails(w) \/ PublishError(w) \/ WorkerCrash(w)
        PROVE  Quiet
    BY <1>5 DEF ClaimPendingJudgeTasks, ReadSubmission, Publish, RetryJudgeTask, MarkJudgeTaskDispatched,
                ResultConsume, ResultAck, BuildFails, EnsureFails, PublishError, WorkerCrash,
                Quiet, db
  <1>6. ASSUME NEW a \in Agents, AgentStep(a) \/ AgentFails(a) \/ AgentCrash(a) PROVE Quiet
    BY <1>6 DEF AgentStep, AgentConsume, AgentPublish, AgentAck, AgentFails, AgentCrash, Quiet, db
  <1>7. CASE UNCHANGED vars
    BY <1>7 DEF Quiet, vars
  <1>8. ASSUME NEW w \in Workers, EnsureWaits(w) \/ CompleteWaits(w) PROVE Quiet
    BY <1>8, WaitingChangesNothing DEF Quiet
  <1> QED
    BY <1>1, <1>2, <1>3, <1>4, <1>5, <1>6, <1>7, <1>8, EnsureHistory, CompleteHistory
    DEF Next, DispatchStep, ResultStep, ResetAbandoned, ResetStalled

-----------------------------------------------------------------------------
(* The attempt history                                                     *)

LEMMA HistoryInit == Init => HistoryInv
  <1> SUFFICES ASSUME Init PROVE HistoryInv
    OBVIOUS
  <1>1. OnlyLatestAttemptOpen
    BY DEF Init, OnlyLatestAttemptOpen
  <1>2. ProjectionShowsLatestVerdict
    BY ConstantAssumption DEF Init, ProjectionShowsLatestVerdict, terminalStatus
  <1> QED
    BY <1>1, <1>2, TypeInvInit DEF HistoryInv

\* A verdict is written to the latest attempt only: the others are finished.
LEMMA OpenIsLatest ==
    ASSUME HistoryInv, NEW s \in Subs, NEW no \in DOMAIN att[s],
           ~terminalStatus(att[s][no].status)
    PROVE  no = Len(att[s])
  BY AttemptRows DEF HistoryInv, TypeInv, OnlyLatestAttemptOpen

LEMMA QuietKeepsHistory ==
    ASSUME HistoryInv, Quiet
    PROVE  OnlyLatestAttemptOpen' /\ ProjectionShowsLatestVerdict'
  <1>1. OnlyLatestAttemptOpen'
    BY DEF HistoryInv, Quiet, OnlyLatestAttemptOpen
  <1>2. ASSUME NEW s \in Subs, terminalStatus(sub'[s]) PROVE sub'[s] = result'[s].status
    BY <1>2, ConstantAssumption
    DEF HistoryInv, ProjectionShowsLatestVerdict, Quiet, terminalStatus, OpenStatuses
  <1>3. ProjectionShowsLatestVerdict'
    BY <1>2 DEF HistoryInv, ProjectionShowsLatestVerdict, Quiet, terminalStatus
  <1> QED
    BY <1>1, <1>3

LEMMA OpensKeepsHistory ==
    ASSUME HistoryInv, OpensAttempt
    PROVE  OnlyLatestAttemptOpen' /\ ProjectionShowsLatestVerdict'
  <1>1. PICK s \in Subs, b \in Batches \cup {None} :
           /\ ~Reusable(s)
           /\ att' = [att EXCEPT ![s] = Append(@, [status |-> "created", batch |-> b])]
    BY DEF OpensAttempt
  <1>2. [status |-> "created", batch |-> b] \in AttemptRow
    BY DEF AttemptRow
  <1>3. /\ DOMAIN att'[s] = 1 .. Len(att[s]) + 1
        /\ Len(att'[s]) = Len(att[s]) + 1
        /\ att'[s][Len(att[s]) + 1] = [status |-> "created", batch |-> b]
        /\ \A t \in Subs : \A n \in DOMAIN att[t] :
              n \in DOMAIN att'[t] /\ att'[t][n] = att[t][n]
        /\ \A t \in Subs : t # s => att'[t] = att[t]
    BY <1>1, <1>2, AppendAttempt DEF HistoryInv, TypeInv
  <1>4. Len(att[s]) \in Nat /\ DOMAIN att[s] = 1 .. Len(att[s]) /\ Len(att'[s]) = Len(att[s]) + 1
    BY <1>3, AttemptRows DEF HistoryInv, TypeInv
  <1>5. ~terminalStatus("created")
    BY ConstantAssumption DEF terminalStatus
  <1>6. OnlyLatestAttemptOpen'
    <2>1. ASSUME NEW n \in DOMAIN att'[s], n < Len(att'[s]) PROVE terminalStatus(att'[s][n].status)
      <3>1. n \in DOMAIN att[s] /\ att'[s][n] = att[s][n]
        BY <2>1, <1>3, <1>4
      <3>2. CASE n < Len(att[s])
        BY <3>1, <3>2 DEF HistoryInv, OnlyLatestAttemptOpen
      <3>3. CASE n = Len(att[s])
        BY <3>1, <3>3, <1>1, <1>4 DEF Reusable
      <3> QED
        BY <3>1, <3>2, <3>3, <1>4
    <2> QED
      BY <2>1, <1>3 DEF HistoryInv, OnlyLatestAttemptOpen, terminalStatus
  <1>7. ProjectionShowsLatestVerdict'
    <2>1. UNCHANGED <<sub, result>>
      BY DEF OpensAttempt
    <2>2. ASSUME NEW t \in Subs, NEW n \in DOMAIN att'[t], terminalStatus(att'[t][n].status)
          PROVE  n <= result[t].attempt
      <3>1. n \in DOMAIN att[t]
        BY <2>2, <1>3, <1>4, <1>5
      <3> QED
        BY <2>2, <3>1, <1>3 DEF HistoryInv, ProjectionShowsLatestVerdict
    <2>3. ASSUME NEW t \in Subs, result[t] # NoResult
          PROVE  /\ result[t].attempt \in DOMAIN att'[t]
                 /\ att'[t][result[t].attempt].status = result[t].status
      BY <2>3, <1>3 DEF HistoryInv, ProjectionShowsLatestVerdict
    <2> QED
      BY <2>1, <2>2, <2>3 DEF HistoryInv, ProjectionShowsLatestVerdict, terminalStatus, NoResult
  <1> QED
    BY <1>6, <1>7

LEMMA WriteKeepsHistory ==
    ASSUME HistoryInv, WritesVerdict
    PROVE  OnlyLatestAttemptOpen' /\ ProjectionShowsLatestVerdict'
  <1>0. PICK s \in Subs : \E no \in DOMAIN att[s], v \in Verdicts : Writes(s, no, v)
    BY DEF WritesVerdict
  <1>1. PICK no \in DOMAIN att[s], v \in Verdicts : Writes(s, no, v)
    BY <1>0
  <1>2. no = Len(att[s]) /\ Len(att[s]) \in Nat /\ DOMAIN att[s] = 1 .. Len(att[s])
    BY <1>1, OpenIsLatest, AttemptRows DEF HistoryInv, TypeInv, Writes
  <1>3. /\ \A t \in Subs : DOMAIN att'[t] = DOMAIN att[t] /\ Len(att'[t]) = Len(att[t])
        /\ att'[s][no].status = v
        /\ \A t \in Subs : \A n \in DOMAIN att[t] : t # s \/ n # no => att'[t][n] = att[t][n]
    BY <1>1, FinishAttempt DEF HistoryInv, TypeInv, Writes
  <1>4. /\ sub'[s] = v /\ result'[s] = [attempt |-> no, status |-> v]
        /\ \A t \in Subs : t # s => sub'[t] = sub[t] /\ result'[t] = result[t]
    BY <1>1 DEF HistoryInv, TypeInv, TypeOK, Writes
  <1>5. OnlyLatestAttemptOpen'
    BY <1>2, <1>3 DEF HistoryInv, OnlyLatestAttemptOpen, terminalStatus
  <1>6. ASSUME NEW t \in Subs
        PROVE  /\ \A n \in DOMAIN att'[t] :
                     terminalStatus(att'[t][n].status) => n <= result'[t].attempt
               /\ result'[t] # NoResult =>
                     /\ result'[t].attempt \in DOMAIN att'[t]
                     /\ att'[t][result'[t].attempt].status = result'[t].status
               /\ terminalStatus(sub'[t]) => sub'[t] = result'[t].status
    <2>1. CASE t = s
      BY <2>1, <1>2, <1>3, <1>4
    <2>2. CASE t # s
      <3>1. /\ sub'[t] = sub[t] /\ result'[t] = result[t] /\ DOMAIN att'[t] = DOMAIN att[t]
            /\ \A n \in DOMAIN att[t] : att'[t][n] = att[t][n]
        BY <2>2, <1>3, <1>4
      <3> QED
        BY <3>1 DEF HistoryInv, ProjectionShowsLatestVerdict
    <2> QED
      BY <2>1, <2>2
  <1>7. ProjectionShowsLatestVerdict'
    BY <1>6 DEF ProjectionShowsLatestVerdict, terminalStatus, NoResult
  <1> QED
    BY <1>5, <1>7

LEMMA HistoryStep == HistoryInv /\ [Next]_vars => HistoryInv'
  <1> SUFFICES ASSUME HistoryInv, [Next]_vars PROVE HistoryInv'
    OBVIOUS
  <1>1. TypeInv'
    BY TypeInvStep DEF HistoryInv
  <1>2. Quiet \/ OpensAttempt \/ WritesVerdict
    BY StepHistory DEF HistoryInv
  <1> QED
    BY <1>1, <1>2, QuietKeepsHistory, OpensKeepsHistory, WriteKeepsHistory DEF HistoryInv

LEMMA HistoryInvariant == Spec => []HistoryInv
  BY HistoryInit, HistoryStep, PTL DEF Spec

\* However dispatches, retries, resets and rejudges interleave, at most the
\* latest attempt of a submission is unfinished: ensureJudgeAttempt never
\* opens a second one beside an open one.
THEOREM AttemptsFormHistory == Spec => []OnlyLatestAttemptOpen
  <1>1. HistoryInv => OnlyLatestAttemptOpen
    BY DEF HistoryInv
  <1> QED
    BY <1>1, HistoryInvariant, PTL

\* The projected result is always the verdict of the newest finished attempt,
\* and what a terminal submission shows: no late result overwrites a newer one.
THEOREM ProjectionCorrect == Spec => []ProjectionShowsLatestVerdict
  <1>1. HistoryInv => ProjectionShowsLatestVerdict
    BY DEF HistoryInv
  <1> QED
    BY <1>1, HistoryInvariant, PTL

-----------------------------------------------------------------------------
(* Finality                                                                *)

LEMMA AttemptsStep ==
    ASSUME TypeInv, [Next]_vars, NEW s \in Subs, NEW n \in DOMAIN att[s]
    PROVE  n \in DOMAIN att'[s] /\ (terminalStatus(att[s][n].status) => att'[s][n] = att[s][n])
  <1>1. CASE Quiet
    BY <1>1 DEF Quiet
  <1>2. CASE OpensAttempt
    <2>1. PICK t \in Subs, b \in Batches \cup {None} :
             att' = [att EXCEPT ![t] = Append(@, [status |-> "created", batch |-> b])]
      BY <1>2 DEF OpensAttempt
    <2>2. [status |-> "created", batch |-> b] \in AttemptRow
      BY DEF AttemptRow
    <2> QED
      BY <2>1, <2>2, AppendAttempt DEF TypeInv
  <1>3. CASE WritesVerdict
    <2>1. PICK t \in Subs : \E no \in DOMAIN att[t], v \in Verdicts : Writes(t, no, v)
      BY <1>3 DEF WritesVerdict
    <2>2. PICK no \in DOMAIN att[t], v \in Verdicts : Writes(t, no, v)
      BY <2>1
    <2> QED
      BY <2>2, FinishAttempt DEF TypeInv, Writes
  <1> QED
    BY <1>1, <1>2, <1>3, StepHistory

\* No duplicate, late or reordered result rewrites a finished attempt, although
\* the UPDATE that finishes an attempt has no status guard of its own.
THEOREM AttemptsFrozen == Spec => FinishedAttemptsFrozen
  <1>1. TypeInv /\ [Next]_vars =>
           [\A s \in Subs : \A n \in DOMAIN att[s] :
               /\ n \in DOMAIN att'[s]
               /\ terminalStatus(att[s][n].status) => att'[s][n] = att[s][n]]_vars
    BY AttemptsStep
  <1> QED
    BY <1>1, TypeInvInit, TypeInvStep, PTL DEF Spec, FinishedAttemptsFrozen

\* No action but CreateRejudgeBatch gives items to a batch without any.
LEMMA NoItemsStep ==
    ASSUME TypeInv, NoItemsBeforeBatch, [Next]_vars
    PROVE  NoItemsBeforeBatch'
  <1>1. ASSUME NEW b \in Batches, CreateRejudgeBatch(b) PROVE NoItemsBeforeBatch'
    BY <1>1 DEF TypeInv, TypeOK, BatchRow, NoItemsBeforeBatch, CreateRejudgeBatch
  <1>2. ASSUME NEW b \in Batches, CancelRejudgeBatch(b) PROVE NoItemsBeforeBatch'
    <2>1. \A c \in Batches : c # b => batch'[c] = batch[c] /\ item'[c] = item[c]
      BY <1>2 DEF CancelRejudgeBatch, TypeInv, TypeOK
    <2>2. batch'[b].status = "canceled"
      BY <1>2 DEF CancelRejudgeBatch, CanceledBatch, TypeInv, TypeOK, BatchRow
    <2> QED
      BY <2>1, <2>2 DEF NoItemsBeforeBatch
  <1>3. ASSUME NEW w \in Workers, EnsureJudgeAttempt(w) PROVE NoItemsBeforeBatch'
    <2>1. disp[w].cur \in Subs /\ Len(att[disp[w].cur]) \in Nat
      BY <1>3, EnsureEffect, AttemptRows DEF TypeInv
    <2> DEFINE last == Len(att[disp[w].cur])
    <2>a. item' = StartRejudgeBatchItem(disp[w].cur, last) \/ item' = StartRejudgeBatchItem(disp[w].cur, last + 1)
      BY <1>3, EnsureEffect
    <2>b. \/ UNCHANGED batch
          \/ \E b \in Batches :
                batch' = RefreshRejudgeBatchProgress(b, StartRejudgeBatchItem(disp[w].cur, last + 1),
                                                     wait[w]["dispatch"].missed)
      BY <1>3, EnsureEffect
    <2> HIDE DEF last
    <2>2. PICK n \in Nat : item' = StartRejudgeBatchItem(disp[w].cur, n)
      BY <2>1, <2>a DEF last
    <2>3. \A b \in Batches, t \in Subs : item[b][t].status = "none" => item'[b][t].status = "none"
      BY <2>1, <2>2, StartItemType DEF TypeInv
    <2>4. \A b \in Batches : batch'[b].status = "none" => batch[b].status = "none"
      BY <2>b, RefreshType DEF TypeInv
    <2> QED
      BY <2>3, <2>4 DEF NoItemsBeforeBatch
  <1>4. ASSUME NEW w \in Workers, CompleteResult(w) PROVE NoItemsBeforeBatch'
    <2>1. PICK i \in DOMAIN ress : UNCHANGED <<batch, item>> \/ WriteVerdict(w, i)
      BY <1>4 DEF CompleteResult, HeldBy, db
    <2>2. CASE UNCHANGED <<batch, item>>
      BY <2>2 DEF NoItemsBeforeBatch
    <2>3. CASE WriteVerdict(w, i)
      <3> DEFINE done == FinishRejudgeBatchItem(ress[i].sub, ress[i].no)
      <3>1. ress[i].sub \in Subs
        BY EventSubjects DEF TypeInv
      <3>2. /\ UNCHANGED item \/ item' = done
            /\ \/ UNCHANGED batch
               \/ \E b \in Batches :
                     batch' = RefreshRejudgeBatchProgress(b, done, wait[w]["consume"].missed)
        BY <2>3 DEF WriteVerdict, RunningItems
      <3>3. \A b \in Batches, t \in Subs :
               item[b][t].status = "none" => item'[b][t].status = "none"
        BY <3>1, <3>2, FinishItemType DEF TypeInv
      <3>4. \A b \in Batches : batch'[b].status = "none" => batch[b].status = "none"
        BY <3>2, RefreshType DEF TypeInv
      <3> QED
        BY <3>3, <3>4 DEF NoItemsBeforeBatch
    <2> QED
      BY <2>1, <2>2, <2>3
  <1>5. ASSUME UNCHANGED <<batch, item>> PROVE NoItemsBeforeBatch'
    BY <1>5 DEF NoItemsBeforeBatch
  <1>6. ASSUME NEW s \in Subs, CreateSubmission(s) \/ ResetStaleJudgeTask(s)
        PROVE  UNCHANGED <<batch, item>>
    BY <1>6 DEF CreateSubmission, ResetStaleJudgeTask
  <1>7. ASSUME NEW w \in Workers,
               ClaimPendingJudgeTasks(w) \/ ReadSubmission(w) \/ MarkSubmissionRunning(w) \/ Publish(w)
                 \/ RetryJudgeTask(w) \/ MarkJudgeTaskDispatched(w) \/ ResultConsume(w)
                 \/ ResultAck(w) \/ BuildFails(w) \/ EnsureFails(w) \/ PublishError(w) \/ WorkerCrash(w)
        PROVE  UNCHANGED <<batch, item>>
    BY <1>7 DEF ClaimPendingJudgeTasks, ReadSubmission, MarkSubmissionRunning, Publish, RetryJudgeTask,
                MarkJudgeTaskDispatched, ResultConsume, ResultAck, BuildFails, EnsureFails,
                PublishError, WorkerCrash, db
  <1>8. ASSUME NEW a \in Agents, AgentStep(a) \/ AgentFails(a) \/ AgentCrash(a)
        PROVE  UNCHANGED <<batch, item>>
    BY <1>8 DEF AgentStep, AgentConsume, AgentPublish, AgentAck, AgentFails, AgentCrash, db
  <1>9. CASE UNCHANGED vars
    BY <1>9, <1>5 DEF vars
  <1>10. ASSUME NEW w \in Workers, EnsureWaits(w) \/ CompleteWaits(w)
         PROVE  UNCHANGED <<batch, item>>
    BY <1>10, WaitingChangesNothing
  <1> QED
    BY <1>1, <1>2, <1>3, <1>4, <1>5, <1>6, <1>7, <1>8, <1>9, <1>10
    DEF Next, DispatchStep, ResultStep, ResetAbandoned, ResetStalled

FinalityInv == HistoryInv /\ NoItemsBeforeBatch

LEMMA FinalityInvariant == Spec => []FinalityInv
  <1>1. Init => FinalityInv
    BY HistoryInit DEF Init, FinalityInv, NoItemsBeforeBatch, NoItem
  <1>2. FinalityInv /\ [Next]_vars => FinalityInv'
    BY HistoryStep, NoItemsStep DEF FinalityInv, HistoryInv
  <1> QED
    BY <1>1, <1>2, PTL DEF Spec

\* The steps that touch no submission at all.
LEMMA SubmissionsUntouched ==
    /\ \A w \in Workers :
          ClaimPendingJudgeTasks(w) \/ ReadSubmission(w) \/ EnsureJudgeAttempt(w) \/ Publish(w)
            \/ RetryJudgeTask(w) \/ MarkJudgeTaskDispatched(w) \/ ResultConsume(w)
            \/ ResultAck(w) \/ BuildFails(w) \/ EnsureFails(w) \/ PublishError(w) \/ WorkerCrash(w)
          => UNCHANGED <<sub, result>>
    /\ \A a \in Agents :
          AgentStep(a) \/ AgentFails(a) \/ AgentCrash(a) => UNCHANGED <<sub, result>>
    /\ UNCHANGED vars => UNCHANGED <<sub, result>>
  <1>1. ASSUME NEW w \in Workers,
               ClaimPendingJudgeTasks(w) \/ ReadSubmission(w) \/ EnsureJudgeAttempt(w) \/ Publish(w)
                 \/ RetryJudgeTask(w) \/ MarkJudgeTaskDispatched(w) \/ ResultConsume(w)
                 \/ ResultAck(w) \/ BuildFails(w) \/ EnsureFails(w) \/ PublishError(w) \/ WorkerCrash(w)
        PROVE  UNCHANGED <<sub, result>>
    BY <1>1 DEF ClaimPendingJudgeTasks, ReadSubmission, EnsureJudgeAttempt, Publish, RetryJudgeTask,
                MarkJudgeTaskDispatched, ResultConsume, ResultAck, BuildFails, EnsureFails,
                PublishError, WorkerCrash, db
  <1>2. ASSUME NEW a \in Agents, AgentStep(a) \/ AgentFails(a) \/ AgentCrash(a)
        PROVE  UNCHANGED <<sub, result>>
    BY <1>2 DEF AgentStep, AgentConsume, AgentPublish, AgentAck, AgentFails, AgentCrash, db
  <1> QED
    BY <1>1, <1>2 DEF vars

\* A verdict is written only while both its attempt and its submission are open.
LEMMA CompleteEffect ==
    ASSUME TypeInv, NEW w \in Workers, CompleteResult(w)
    PROVE  \/ UNCHANGED <<sub, result, task, att, disp>>
           \/ /\ UNCHANGED <<sub, result, task, att>>
              /\ Exit(w)
           \/ \E i \in DOMAIN ress :
                 /\ ress[i].sub \in Subs /\ ress[i].verdict \in Verdicts
                 /\ ress[i].no \in DOMAIN att[ress[i].sub]
                 /\ ~terminalStatus(sub[ress[i].sub])
                 /\ WriteVerdict(w, i)
  <1>1. PICK i \in DOMAIN ress :
           \/ UNCHANGED <<db, reqs, mem, faults>>
           \/ ~Swallowed(ress[i].sub, ress[i].no) /\ WriteVerdict(w, i)
           \/ Exit(w) /\ UNCHANGED <<db, reqs, faults>>
    BY DEF CompleteResult, HeldBy
  <1>2. /\ ress[i].sub \in Subs /\ ress[i].verdict \in Verdicts
        /\ ress[i].no \in DOMAIN att[ress[i].sub]
    BY EventSubjects DEF TypeInv, ResultEvent, EventsRefer
  <1> QED
    BY <1>1, <1>2 DEF Swallowed, db, mem

LEMMA VerdictStep ==
    ASSUME TypeInv, NoItemsBeforeBatch, [Next]_vars, NEW s \in Subs, terminalStatus(sub[s]), sub'[s] # sub[s]
    PROVE  \E b \in Batches : item[b][s].status = "none" /\ item'[b][s].status = "queued"
  <1> DEFINE Reopened == \E b \in Batches : /\ item[b][s].status = "none"
                                            /\ item'[b][s].status = "queued"
  <1>t. sub[s] \notin {"none", "queued", "running"}
    BY ConstantAssumption DEF terminalStatus, OpenStatuses
  <1>1. ASSUME NEW r \in Subs, CreateSubmission(r) \/ ResetStaleJudgeTask(r) PROVE FALSE
    BY <1>1, <1>t DEF TypeInv, TypeOK, CreateSubmission,
                      ResetStaleJudgeTask, OpenStatuses
  <1>2. ASSUME NEW b \in Batches, CreateRejudgeBatch(b) PROVE Reopened
    <2>1. item[b][s].status = "none"
      BY <1>2 DEF CreateRejudgeBatch, NoItemsBeforeBatch
    <2>2. item'[b][s].status = "queued"
      BY <1>2 DEF CreateRejudgeBatch, TypeInv, TypeOK
    <2> QED
      BY <2>1, <2>2
  <1>3. ASSUME NEW b \in Batches, CancelRejudgeBatch(b) PROVE FALSE
    BY <1>3, <1>t DEF CancelRejudgeBatch
  <1>4. ASSUME NEW w \in Workers, MarkSubmissionRunning(w) PROVE FALSE
    BY <1>4, <1>t DEF MarkSubmissionRunning, TypeInv, TypeOK
  <1>5. ASSUME NEW w \in Workers, CompleteResult(w) PROVE FALSE
    BY <1>5, CompleteEffect DEF WriteVerdict, TypeInv, TypeOK
  <1> QED
    BY <1>1, <1>2, <1>3, <1>4, <1>5, SubmissionsUntouched, WaitingChangesNothing
    DEF Next, DispatchStep, ResultStep, ResetAbandoned, ResetStalled

\* A verdict a user has seen is final: it changes only when a rejudge batch
\* takes the submission in, never through a late or duplicated result, a
\* retry, a stale reset, a canceled batch or a crash.
THEOREM VerdictsFinal == Spec => VerdictOnlyByRejudge
  <1>1. FinalityInv /\ [Next]_vars =>
           [\A s \in Subs :
               terminalStatus(sub[s]) /\ sub'[s] # sub[s]
                  => \E b \in Batches : /\ item[b][s].status = "none"
                                        /\ item'[b][s].status = "queued"]_vars
    BY VerdictStep DEF FinalityInv, HistoryInv
  <1> QED
    BY <1>1, FinalityInvariant, PTL DEF Spec, VerdictOnlyByRejudge

-----------------------------------------------------------------------------
(* JudgePipeline implements VerdictLedger: every step of the pipeline is a *)
(* step of the ledger or changes nothing there.                            *)

LedgerInv == FinalityInv /\ OnlyCreatedWorkedOn

\* "none", open statuses and verdicts do not overlap.
LEMMA StatusesDistinct ==
    /\ "none" \notin Verdicts /\ "queued" \notin Verdicts /\ "running" \notin Verdicts
    /\ "none" \notin OpenStatuses /\ OpenStatuses = {"queued", "running"}
  BY ConstantAssumption DEF OpenStatuses

\* A projected result carries a verdict.
LEMMA ResultIsVerdict ==
    ASSUME HistoryInv, NEW s \in Subs, result[s] # NoResult
    PROVE  result[s].status \in Verdicts
  <1>1. /\ result[s].attempt \in DOMAIN att[s]
        /\ att[s][result[s].attempt].status = result[s].status
    BY DEF HistoryInv, ProjectionShowsLatestVerdict
  <1>2. result[s].status \in {"created"} \cup Verdicts
    BY <1>1, AttemptRows DEF HistoryInv, TypeInv, AttemptRow
  <1>3. result[s].status \in {"none"} \cup Verdicts
    BY DEF HistoryInv, TypeInv, TypeOK, ResultRow
  <1> QED
    BY <1>2, <1>3

\* Nothing un-creates a submission.
LEMMA CreatedStays ==
    ASSUME LedgerInv, [Next]_vars, NEW s \in Subs, sub'[s] = "none"
    PROVE  sub[s] = "none"
  <1>1. ASSUME NEW r \in Subs, CreateSubmission(r) \/ ResetStaleJudgeTask(r) PROVE sub[s] = "none"
    BY <1>1 DEF LedgerInv, FinalityInv, HistoryInv, TypeInv, TypeOK, CreateSubmission,
                ResetStaleJudgeTask
  <1>2. ASSUME NEW b \in Batches, CreateRejudgeBatch(b) PROVE sub[s] = "none"
    BY <1>2 DEF CreateRejudgeBatch
  <1>3. ASSUME NEW b \in Batches, CancelRejudgeBatch(b) PROVE sub[s] = "none"
    BY <1>3, ResultIsVerdict, StatusesDistinct DEF CancelRejudgeBatch, LedgerInv, FinalityInv
  <1>4. ASSUME NEW w \in Workers, MarkSubmissionRunning(w) PROVE sub[s] = "none"
    BY <1>4 DEF MarkSubmissionRunning, LedgerInv, FinalityInv, HistoryInv, TypeInv, TypeOK
  <1>5. ASSUME NEW w \in Workers, CompleteResult(w) PROVE sub[s] = "none"
    <2>1. ASSUME NEW i \in DOMAIN ress, ress[i].verdict \in Verdicts, WriteVerdict(w, i)
          PROVE  sub[s] = "none"
      BY <2>1, StatusesDistinct
      DEF WriteVerdict, LedgerInv, FinalityInv, HistoryInv, TypeInv, TypeOK
    <2> QED
      BY <1>5, <2>1, CompleteEffect DEF LedgerInv, FinalityInv, HistoryInv
  <1> QED
    BY <1>1, <1>2, <1>3, <1>4, <1>5, SubmissionsUntouched, WaitingChangesNothing
    DEF Next, DispatchStep, ResultStep, ResetAbandoned, ResetStalled

\* What OnlyCreatedWorkedOn says of one submission
Untouched(s) ==
    /\ task[s].status = "none"
    /\ att[s] = << >>
    /\ \A w \in Workers : s \notin disp[w].todo /\ s # disp[w].cur

\* An exiting worker only forgets submissions.
LEMMA ExitForgets ==
    ASSUME TypeOK, NEW w \in Workers, Exit(w), NEW s \in Subs,
           \A x \in Workers : s \notin disp[x].todo /\ s # disp[x].cur
    PROVE  \A x \in Workers : s \notin disp'[x].todo /\ s # disp'[x].cur
  BY ExitEffect, ConstantAssumption DEF Idle

LEMMA UntouchedStays ==
    ASSUME LedgerInv, [Next]_vars, NEW s \in Subs, sub[s] = "none", sub'[s] = "none"
    PROVE  Untouched(s)'
  <1>u. Untouched(s) /\ TypeOK /\ TypeInv
    BY DEF LedgerInv, FinalityInv, HistoryInv, TypeInv, OnlyCreatedWorkedOn, Untouched
  <1>d. DOMAIN att[s] = {}
    BY <1>u DEF Untouched
  <1>1. ASSUME NEW r \in Subs, CreateSubmission(r) \/ ResetStaleJudgeTask(r) PROVE Untouched(s)'
    BY <1>1, <1>u DEF Untouched, TypeOK, TaskRow, CreateSubmission, ResetStaleJudgeTask, mem,
                      OpenStatuses
  <1>2. ASSUME NEW b \in Batches, CreateRejudgeBatch(b) PROVE Untouched(s)'
    BY <1>2, <1>u, StatusesDistinct DEF Untouched, CreateRejudgeBatch, terminalStatus, mem
  <1>3. ASSUME NEW b \in Batches, CancelRejudgeBatch(b) PROVE Untouched(s)'
    BY <1>3, <1>u DEF Untouched, CancelRejudgeBatch, mem
  <1>4. ASSUME NEW w \in Workers, ClaimPendingJudgeTasks(w) PROVE Untouched(s)'
    <2>1. PICK T \in SUBSET {r \in Subs : task[r].status = "pending"} :
             /\ task' = [r \in Subs |->
                   IF r \in T THEN [task[r] EXCEPT !.status = "dispatching"] ELSE task[r]]
             /\ disp' = [disp EXCEPT ![w] = [Idle EXCEPT !.pc = "build", !.todo = T]]
      BY <1>4 DEF ClaimPendingJudgeTasks
    <2>2. s \notin T
      BY <1>u DEF Untouched
    <2>3. task'[s] = task[s]
      BY <2>1, <2>2
    <2>4. \A x \in Workers : s \notin disp'[x].todo /\ s # disp'[x].cur
      BY <1>u, <2>1, <2>2, ConstantAssumption DEF Untouched, TypeOK, Idle
    <2> QED
      BY <1>4, <1>u, <2>3, <2>4 DEF ClaimPendingJudgeTasks, Untouched
  <1>5. ASSUME NEW w \in Workers, ReadSubmission(w) PROVE Untouched(s)'
    <2>1. PICK r \in disp[w].todo, pc \in {"mark", "ensure"} :
             disp' = [disp EXCEPT ![w] =
                        [pc |-> pc, todo |-> disp[w].todo \ {r}, cur |-> r, no |-> 0]]
      BY <1>5 DEF ReadSubmission
    <2>2. s # r /\ s \notin disp[w].todo \ {r}
      BY <1>u DEF Untouched
    <2>3. \A x \in Workers : s \notin disp'[x].todo /\ s # disp'[x].cur
      BY <1>u, <2>1, <2>2 DEF Untouched, TypeOK
    <2> QED
      BY <1>5, <1>u, <2>3 DEF ReadSubmission, Untouched, db
  <1>6. ASSUME NEW w \in Workers, MarkSubmissionRunning(w) PROVE Untouched(s)'
    <2>1. \/ Exit(w) \/ disp' = [disp EXCEPT ![w].pc = "ensure"]
      BY <1>6 DEF MarkSubmissionRunning
    <2>2. \A x \in Workers : s \notin disp'[x].todo /\ s # disp'[x].cur
      <3>1. CASE Exit(w)
        BY <1>u, <3>1, ExitForgets DEF Untouched
      <3>2. CASE disp' = [disp EXCEPT ![w].pc = "ensure"]
        <4>1. \A x \in Workers : disp'[x].todo = disp[x].todo /\ disp'[x].cur = disp[x].cur
          BY <1>u, <3>2 DEF TypeOK, Dispatcher
        <4> QED
          BY <1>u, <4>1 DEF Untouched
      <3> QED
        BY <2>1, <3>1, <3>2
    <2> QED
      BY <1>6, <1>u, <2>2 DEF MarkSubmissionRunning, Untouched
  <1>7. ASSUME NEW w \in Workers, EnsureJudgeAttempt(w) PROVE Untouched(s)'
    <2>1. s # disp[w].cur
      BY <1>u DEF Untouched
    <2>2. att'[s] = att[s]
      <3>1. att' = att \/ \E b : att' = [att EXCEPT ![disp[w].cur] =
                                            Append(@, [status |-> "created", batch |-> b])]
        BY <1>7, <1>u, EnsureEffect
      <3>2. att \in [Subs -> Seq(AttemptRow)]
        BY <1>u DEF TypeOK
      <3> QED
        BY <2>1, <3>1, <3>2
    <2> DEFINE last == Len(att[disp[w].cur])
    <2>3. \/ disp' = [disp EXCEPT ![w].pc = "publish", ![w].no = last]
          \/ disp' = [disp EXCEPT ![w].pc = "publish", ![w].no = last + 1]
      BY <1>7, <1>u, EnsureEffect
    <2> HIDE DEF last
    <2>4. \A x \in Workers : disp'[x].todo = disp[x].todo /\ disp'[x].cur = disp[x].cur
      <3>1. CASE disp' = [disp EXCEPT ![w].pc = "publish", ![w].no = last]
        BY <1>u, <3>1 DEF TypeOK, Dispatcher
      <3>2. CASE disp' = [disp EXCEPT ![w].pc = "publish", ![w].no = last + 1]
        BY <1>u, <3>2 DEF TypeOK, Dispatcher
      <3> QED
        BY <2>3, <3>1, <3>2
    <2> QED
      BY <1>7, <1>u, <2>2, <2>4 DEF EnsureJudgeAttempt, Untouched
  <1>8. ASSUME NEW w \in Workers, Publish(w) \/ PublishError(w) PROVE Untouched(s)'
    <2>0. PICK pc \in {"sent", "retry"} : disp' = [disp EXCEPT ![w].pc = pc]
      BY <1>8 DEF Publish, PublishError
    <2>1. \A x \in Workers : s \notin disp'[x].todo /\ s # disp'[x].cur
      BY <1>u, <2>0 DEF Untouched, TypeOK, Dispatcher
    <2> QED
      BY <1>8, <1>u, <2>1 DEF Publish, PublishError, Untouched, db
  <1>9. ASSUME NEW w \in Workers, RetryJudgeTask(w) PROVE Untouched(s)'
    <2>1. task'[s] = task[s]
      BY <1>9, <1>u DEF RetryJudgeTask, Untouched, TypeOK
    <2> QED
      BY <1>9, <1>u, <2>1, ExitForgets DEF RetryJudgeTask, Untouched
  <1>10. ASSUME NEW w \in Workers, MarkJudgeTaskDispatched(w) PROVE Untouched(s)'
    <2>1. s # disp[w].cur /\ s \notin disp[w].todo
      BY <1>u DEF Untouched
    <2>2. task'[s] = task[s]
      BY <1>10, <1>u, <2>1 DEF MarkJudgeTaskDispatched, TypeOK
    <2>3. \/ Exit(w) \/ disp' = [disp EXCEPT ![w] = Idle]
          \/ disp' = [disp EXCEPT ![w] = [Idle EXCEPT !.pc = "build", !.todo = disp[w].todo]]
      BY <1>10 DEF MarkJudgeTaskDispatched
    <2>4. \A x \in Workers : s \notin disp'[x].todo /\ s # disp'[x].cur
      <3>1. CASE Exit(w)
        BY <3>1, <1>u, ExitForgets DEF Untouched
      <3>2. CASE disp' = [disp EXCEPT ![w] = Idle]
        BY <3>2, <1>u, ConstantAssumption DEF Untouched, TypeOK, Idle
      <3>3. CASE disp' = [disp EXCEPT ![w] = [Idle EXCEPT !.pc = "build", !.todo = disp[w].todo]]
        <4> DEFINE d == [Idle EXCEPT !.pc = "build", !.todo = disp[w].todo]
        <4>1. s \notin d.todo /\ s # d.cur
          BY <2>1, ConstantAssumption DEF Idle
        <4> HIDE DEF d
        <4>2. \A x \in Workers : disp'[x] = IF x = w THEN d ELSE disp[x]
          BY <3>3, <1>u DEF TypeOK, d
        <4> QED
          BY <4>1, <4>2, <1>u DEF Untouched
      <3> QED
        BY <2>3, <3>1, <3>2, <3>3
    <2> QED
      BY <1>10, <1>u, <2>2, <2>4 DEF MarkJudgeTaskDispatched, Untouched
  <1>11. ASSUME NEW w \in Workers, BuildFails(w) \/ EnsureFails(w) \/ WorkerCrash(w)
         PROVE  Untouched(s)'
    BY <1>11, <1>u, ExitForgets DEF BuildFails, EnsureFails, WorkerCrash, Untouched, db
  <1>12. ASSUME NEW w \in Workers, CompleteResult(w) PROVE Untouched(s)'
    <2>1. CASE UNCHANGED <<task, att, disp>>
      BY <2>1, <1>u DEF Untouched
    <2>2. CASE UNCHANGED <<task, att>> /\ Exit(w)
      BY <2>2, <1>u, ExitForgets DEF Untouched
    <2>3. ASSUME NEW i \in DOMAIN ress, ress[i].sub \in Subs,
                 ress[i].no \in DOMAIN att[ress[i].sub], WriteVerdict(w, i)
          PROVE  Untouched(s)'
      <3>1. s # ress[i].sub
        BY <2>3, <1>d
      <3> QED
        BY <2>3, <1>u, <3>1 DEF WriteVerdict, MarkJudgeTaskDone, Untouched, TypeOK, mem
    <2> QED
      BY <1>12, <1>u, <2>1, <2>2, <2>3, CompleteEffect
  <1>13. ASSUME NEW w \in Workers, ResultConsume(w) \/ ResultAck(w) PROVE Untouched(s)'
    BY <1>13, <1>u DEF ResultConsume, ResultAck, Untouched, db, mem
  <1>14. ASSUME NEW a \in Agents, AgentStep(a) \/ AgentFails(a) \/ AgentCrash(a) PROVE Untouched(s)'
    BY <1>14, <1>u DEF AgentStep, AgentConsume, AgentPublish, AgentAck, AgentFails, AgentCrash,
                       Untouched, db, mem
  <1>15. CASE UNCHANGED vars
    BY <1>15, <1>u DEF vars, Untouched
  <1>16. ASSUME NEW w \in Workers, EnsureWaits(w) \/ CompleteWaits(w) PROVE Untouched(s)'
    BY <1>16, <1>u, WaitingChangesNothing DEF Untouched
  <1> QED
    BY <1>1, <1>2, <1>3, <1>4, <1>5, <1>6, <1>7, <1>8, <1>9, <1>10, <1>11, <1>12, <1>13,
       <1>14, <1>15, <1>16
    DEF Next, DispatchStep, ResultStep, ResetAbandoned, ResetStalled

LEMMA LedgerInvariant == Spec => []LedgerInv
  <1>1. Init => LedgerInv
    <2> SUFFICES ASSUME Init PROVE LedgerInv
      OBVIOUS
    <2>1. FinalityInv
      BY HistoryInit DEF Init, FinalityInv, NoItemsBeforeBatch, NoItem
    <2>2. OnlyCreatedWorkedOn
      BY ConstantAssumption DEF Init, OnlyCreatedWorkedOn, Idle
    <2> QED
      BY <2>1, <2>2 DEF LedgerInv
  <1>2. LedgerInv /\ [Next]_vars => LedgerInv'
    <2> SUFFICES ASSUME LedgerInv, [Next]_vars PROVE LedgerInv'
      OBVIOUS
    <2>1. FinalityInv'
      BY HistoryStep, NoItemsStep DEF LedgerInv, FinalityInv, HistoryInv
    <2>2. OnlyCreatedWorkedOn'
      BY CreatedStays, UntouchedStays DEF OnlyCreatedWorkedOn, Untouched
    <2> QED
      BY <2>1, <2>2 DEF LedgerInv
  <1> QED
    BY <1>1, <1>2, PTL DEF Spec

-----------------------------------------------------------------------------
(* Refinement                                                              *)

\* The state of the ledger a state of the pipeline stands for
Shown == [s \in Subs |-> IF sub[s] \in OpenStatuses THEN "open" ELSE sub[s]]
Recorded == [s \in Subs |-> result[s].status]

LEMMA LedgerInit == Init => Ledger!Init
  BY StatusesDistinct DEF Init, Ledger!Init, NoResult

\* A step that keeps every submission open or as it is, and every projected
\* result, is invisible in the ledger.
LEMMA Invisible ==
    ASSUME UNCHANGED result,
           \A s \in Subs : sub'[s] = sub[s] \/ (sub[s] \in OpenStatuses /\ sub'[s] \in OpenStatuses)
    PROVE  Shown' = Shown /\ Recorded' = Recorded
  BY DEF Shown, Recorded

LEMMA LedgerStep ==
    ASSUME LedgerInv, [Next]_vars
    PROVE  Ledger!Next \/ (Shown' = Shown /\ Recorded' = Recorded)
  <1> DEFINE Stutter == Shown' = Shown /\ Recorded' = Recorded
  <1>i. HistoryInv /\ TypeInv /\ TypeOK /\ OnlyCreatedWorkedOn
    BY DEF LedgerInv, FinalityInv, HistoryInv, TypeInv
  <1>n. /\ \A s \in Subs : Ledger!Submit(s) => Ledger!Next
        /\ \A s \in Subs, v \in Verdicts : Ledger!Judge(s, v) => Ledger!Next
        /\ \A S \in SUBSET Subs : Ledger!Reopen(S) \/ Ledger!Withdraw(S) => Ledger!Next
    BY DEF Ledger!Next
  <1>1. ASSUME NEW s \in Subs, CreateSubmission(s) PROVE Ledger!Submit(s)
    BY <1>1, <1>i, StatusesDistinct DEF CreateSubmission, TypeOK, Ledger!Submit
  <1>2. ASSUME NEW s \in Subs, ResetStaleJudgeTask(s) PROVE Stutter
    BY <1>2, <1>i, Invisible, StatusesDistinct DEF ResetStaleJudgeTask, TypeOK
  <1>3. ASSUME NEW b \in Batches, CreateRejudgeBatch(b) PROVE Ledger!Next
    <2>1. PICK S \in SUBSET Subs : S = {s \in Subs : terminalStatus(sub[s])}
      OBVIOUS
    <2>2. Ledger!Reopen(S)
      BY <1>3, <2>1, StatusesDistinct DEF CreateRejudgeBatch, terminalStatus, Ledger!Reopen
    <2> QED
      BY <2>2, <1>n
  <1>4. ASSUME NEW b \in Batches, CancelRejudgeBatch(b) PROVE Ledger!Next
    <2>1. PICK S \in SUBSET Subs : S = ItemsWith(item, b, "queued")
      BY DEF ItemsWith
    <2>2. \A s \in S : sub[s] = "queued" /\ result[s].status \in Verdicts
      BY <1>4, <1>i, <2>1, ResultIsVerdict DEF CancelRejudgeBatch
    <2>3. Ledger!Withdraw(S)
      BY <1>4, <2>1, <2>2, StatusesDistinct DEF CancelRejudgeBatch, Ledger!Withdraw
    <2> QED
      BY <2>3, <1>n
  <1>5. ASSUME NEW w \in Workers, MarkSubmissionRunning(w) PROVE Stutter
    BY <1>5, <1>i, Invisible, StatusesDistinct DEF MarkSubmissionRunning, TypeOK
  <1>6. ASSUME NEW w \in Workers, CompleteResult(w) PROVE Ledger!Next \/ Stutter
    <2>1. CASE UNCHANGED <<sub, result>>
      BY <2>1, Invisible
    <2>2. ASSUME NEW i \in DOMAIN ress, ress[i].sub \in Subs, ress[i].verdict \in Verdicts,
                 ress[i].no \in DOMAIN att[ress[i].sub], ~terminalStatus(sub[ress[i].sub]),
                 WriteVerdict(w, i)
          PROVE  Ledger!Next
      <3>1. sub[ress[i].sub] \in OpenStatuses
        <4>1. sub[ress[i].sub] # "none"
          BY <2>2, <1>i DEF OnlyCreatedWorkedOn
        <4> QED
          BY <4>1, <2>2, <1>i DEF TypeOK, SubStatuses, terminalStatus
      <3>2. sub' = [sub EXCEPT ![ress[i].sub] = ress[i].verdict]
        BY <2>2 DEF WriteVerdict
      <3>3. result' = [result EXCEPT ![ress[i].sub] =
                         [attempt |-> ress[i].no, status |-> ress[i].verdict]]
        BY <2>2 DEF WriteVerdict, UpsertSubmissionResult
      <3>4. PICK s \in Subs, v \in Verdicts : s = ress[i].sub /\ v = ress[i].verdict
        BY <2>2
      <3>5. Ledger!Judge(s, v)
        BY <3>1, <3>2, <3>3, <3>4, <1>i, StatusesDistinct DEF TypeOK, Ledger!Judge
      <3> QED
        BY <3>5, <1>n
    <2> QED
      BY <1>6, <1>i, <2>1, <2>2, CompleteEffect
  <1>7. ASSUME UNCHANGED <<sub, result>> PROVE Stutter
    BY <1>7, Invisible
  <1>8. ASSUME NEW s \in Subs, CreateSubmission(s) PROVE Ledger!Next
    BY <1>8, <1>1, <1>n
  <1> HIDE DEF Stutter
  <1>9. Ledger!Next \/ Stutter
    BY <1>2, <1>3, <1>4, <1>5, <1>6, <1>7, <1>8, SubmissionsUntouched, WaitingChangesNothing
    DEF Next, DispatchStep, ResultStep, ResetAbandoned, ResetStalled
  <1> QED
    BY <1>9 DEF Stutter

\* The pipeline implements the ledger: seen through submission rows and
\* projected results, a submission is judged once per opening, reopened only by
\* a rejudge, and put back only to the verdict recorded last, whatever happens
\* between workers, agents and streams.
THEOREM RefinesLedger == Spec => ImplementsLedger
  <1>1. LedgerInv /\ [Next]_vars => [Ledger!Next]_<<Shown, Recorded>>
    BY LedgerStep
  <1> QED
    BY <1>1, LedgerInit, LedgerInvariant, PTL
    DEF Spec, ImplementsLedger, Ledger!Spec, Shown, Recorded

-----------------------------------------------------------------------------
(* Rejudge batches.                                                        *)

\* A submission is in work for one batch at a time.
OneActiveItem ==
    \A s \in Subs : \A b, c \in Batches : Active(item[b][s]) /\ Active(item[c][s]) => b = c

\* What the row of batch b may say when the items are `items`: both batch
\* properties for one batch.
RowFits(row, items, b) ==
    /\ row.completed <= Cardinality(ItemsWith(items, b, "completed"))
    /\ row.failed <= Cardinality(ItemsWith(items, b, "failed"))
    /\ row.canceled <= Cardinality(ItemsWith(items, b, "canceled"))
    /\ row.status \in {"completed", "failed"} =>
          /\ ActiveItems(items, b) = {}
          /\ row.completed = Cardinality(ItemsWith(items, b, "completed"))
          /\ row.failed = Cardinality(ItemsWith(items, b, "failed"))
          /\ row.canceled = Cardinality(ItemsWith(items, b, "canceled"))
          /\ row.status = "failed" <=> ItemsWith(items, b, "failed") # {}

RowsFit == \A b \in Batches : RowFits(batch[b], item, b)

BatchInv == TypeInv /\ NoItemsBeforeBatch /\ OneActiveItem /\ RowsFit

LEMMA RowsFitMeans == RowsFit => BatchNeverOvercounts /\ ClosedBatchIsSettled
  <1> SUFFICES ASSUME RowsFit PROVE BatchNeverOvercounts /\ ClosedBatchIsSettled
    OBVIOUS
  <1>1. BatchNeverOvercounts
    BY DEF RowsFit, RowFits, BatchNeverOvercounts
  <1>2. ClosedBatchIsSettled
    BY DEF RowsFit, RowFits, ClosedBatchIsSettled, ActiveItems
  <1> QED
    BY <1>1, <1>2

-----------------------------------------------------------------------------
(* What a step does to batches and items                                   *)

\* The queued item of s starts under an attempt; the batch it is in may be
\* recounted, some items settled meanwhile being missed.
StartsItem ==
    \E s \in Subs, n \in Nat :
        /\ item' = StartRejudgeBatchItem(s, n)
        /\ \/ UNCHANGED batch
           \/ \E b \in Batches, m \in SUBSET Subs :
                 /\ item[b][s].status = "queued"
                 /\ batch' = RefreshRejudgeBatchProgress(b, item', m)

\* The items that run under an attempt are completed, and one of their batches
\* is recounted.
FinishesItem ==
    \E s \in Subs, n \in Nat :
        /\ item' = FinishRejudgeBatchItem(s, n)
        /\ \E b \in RunningItems(s, n), m \in SUBSET Subs :
              batch' = RefreshRejudgeBatchProgress(b, item', m)

LEMMA MissedType ==
    ASSUME TypeOK, NEW w \in Workers, NEW l \in Loops
    PROVE  wait[w][l].missed \in SUBSET Subs
  BY DEF TypeOK, Refresh

LEMMA EnsureStarts ==
    ASSUME TypeInv, NEW w \in Workers, EnsureJudgeAttempt(w)
    PROVE  StartsItem
  <1> DEFINE s == disp[w].cur
             last == Len(att[s])
             m == wait[w]["dispatch"].missed
  <1>1. s \in Subs /\ last \in Nat /\ last + 1 \in Nat
    <2>1. disp[w].cur \in Subs
      BY EnsureEffect
    <2>2. Len(att[disp[w].cur]) \in Nat
      BY <2>1, AttemptRows DEF TypeInv
    <2> QED
      BY <2>1, <2>2
  <1>2. \/ item' = StartRejudgeBatchItem(s, last) /\ UNCHANGED batch
        \/ /\ item' = StartRejudgeBatchItem(s, last + 1)
           /\ \/ UNCHANGED batch
              \/ \E b \in Batches : /\ item[b][s].status = "queued"
                                    /\ batch' = RefreshRejudgeBatchProgress(b, StartRejudgeBatchItem(s, last + 1), m)
    BY DEF EnsureJudgeAttempt
  <1>3. m \in SUBSET Subs
    BY MissedType DEF TypeInv, Loops
  <1> HIDE DEF s, last, m
  <1> QED
    BY <1>1, <1>2, <1>3 DEF StartsItem

LEMMA CompleteFinishes ==
    ASSUME TypeInv, NEW w \in Workers, CompleteResult(w)
    PROVE  UNCHANGED <<batch, item>> \/ FinishesItem
  <1>1. PICK i \in DOMAIN ress : UNCHANGED <<batch, item>> \/ WriteVerdict(w, i)
    BY DEF CompleteResult, HeldBy, db
  <1>2. ress[i].sub \in Subs /\ ress[i].no \in Nat
    BY EventSubjects DEF TypeInv, ResultEvent
  <1>3. CASE WriteVerdict(w, i)
    <2> DEFINE m == wait[w]["consume"].missed
               done == FinishRejudgeBatchItem(ress[i].sub, ress[i].no)
    <2>1. m \in SUBSET Subs
      BY MissedType DEF TypeInv, Loops
    <2>2. \/ UNCHANGED <<batch, item>>
          \/ /\ item' = done
             /\ \E b \in RunningItems(ress[i].sub, ress[i].no) :
                   batch' = RefreshRejudgeBatchProgress(b, done, m)
      BY <1>3 DEF WriteVerdict
    <2> HIDE DEF m
    <2> QED
      BY <1>2, <2>1, <2>2 DEF FinishesItem
  <1> QED
    BY <1>1, <1>3

LEMMA BatchSteps ==
    ASSUME TypeInv, [Next]_vars
    PROVE  \/ UNCHANGED <<batch, item>> \/ StartsItem \/ FinishesItem
           \/ \E b \in Batches : CreateRejudgeBatch(b) \/ CancelRejudgeBatch(b)
  <1>1. ASSUME NEW s \in Subs, CreateSubmission(s) \/ ResetStaleJudgeTask(s)
        PROVE  UNCHANGED <<batch, item>>
    BY <1>1 DEF CreateSubmission, ResetStaleJudgeTask
  <1>2. ASSUME NEW w \in Workers,
               ClaimPendingJudgeTasks(w) \/ ReadSubmission(w) \/ MarkSubmissionRunning(w) \/ Publish(w)
                 \/ RetryJudgeTask(w) \/ MarkJudgeTaskDispatched(w) \/ ResultConsume(w)
                 \/ ResultAck(w) \/ BuildFails(w) \/ EnsureFails(w) \/ PublishError(w) \/ WorkerCrash(w)
        PROVE  UNCHANGED <<batch, item>>
    BY <1>2 DEF ClaimPendingJudgeTasks, ReadSubmission, MarkSubmissionRunning, Publish, RetryJudgeTask,
                MarkJudgeTaskDispatched, ResultConsume, ResultAck, BuildFails, EnsureFails,
                PublishError, WorkerCrash, db
  <1>3. ASSUME NEW a \in Agents, AgentStep(a) \/ AgentFails(a) \/ AgentCrash(a)
        PROVE  UNCHANGED <<batch, item>>
    BY <1>3 DEF AgentStep, AgentConsume, AgentPublish, AgentAck, AgentFails, AgentCrash, db
  <1>4. CASE UNCHANGED vars
    BY <1>4 DEF vars
  <1>5. ASSUME NEW w \in Workers, EnsureWaits(w) \/ CompleteWaits(w) PROVE UNCHANGED <<batch, item>>
    BY <1>5, EnsureWaitsEffect, CompleteWaitsEffect DEF db
  <1> QED
    BY <1>1, <1>2, <1>3, <1>4, <1>5, EnsureStarts, CompleteFinishes
    DEF Next, DispatchStep, ResultStep, ResetAbandoned, ResetStalled

\* RefreshRejudgeBatchProgress: whatever it missed, the row of an open or
\* canceled batch fits its items afterwards, and no other row changes.
LEMMA RefreshEffect ==
    ASSUME TypeOK, NEW b \in Batches, NEW items, NEW m \in SUBSET Subs,
           batch[b].status \in {"queued", "running", "canceled"}
    PROVE  /\ \A c \in Batches : c # b => RefreshRejudgeBatchProgress(b, items, m)[c] = batch[c]
           /\ RowFits(RefreshRejudgeBatchProgress(b, items, m)[b], items, b)
  <1> DEFINE completed == ItemsWith(items, b, "completed")
             failed == ItemsWith(items, b, "failed")
             canceled == ItemsWith(items, b, "canceled")
             active == ActiveItems(items, b)
             row(st) == [status |-> st, completed |-> Cardinality(completed \ m),
                         failed |-> Cardinality(failed \ m), canceled |-> Cardinality(canceled \ m)]
             new == RefreshRejudgeBatchProgress(b, items, m)
  <1>1. batch \in [Batches -> BatchRow]
    BY DEF TypeOK
  <1>2. PICK st \in {"canceled", "running", "failed", "completed"} :
           /\ new = [batch EXCEPT ![b] = row(st)]
           /\ st \in {"failed", "completed"} => active \cup m = {}
           /\ st = "failed" => failed \ m # {}
           /\ st = "completed" => failed \ m = {}
    BY DEF RefreshRejudgeBatchProgress
  <1>3. /\ Cardinality(completed \ m) <= Cardinality(completed)
        /\ Cardinality(failed \ m) <= Cardinality(failed)
        /\ Cardinality(canceled \ m) <= Cardinality(canceled)
    BY ItemCounts
  <1> HIDE DEF completed, failed, canceled, active, new
  <1>4. st \in {"failed", "completed"} =>
          /\ active = {} /\ completed \ m = completed /\ failed \ m = failed /\ canceled \ m = canceled
          /\ st = "failed" <=> failed # {}
    BY <1>2
  <1>5. new[b] = row(st) /\ \A c \in Batches : c # b => new[c] = batch[c]
    BY <1>1, <1>2
  <1>6. /\ new[b].status = st /\ new[b].completed = Cardinality(completed \ m)
        /\ new[b].failed = Cardinality(failed \ m) /\ new[b].canceled = Cardinality(canceled \ m)
    BY <1>5
  <1>7. RowFits(new[b], items, b)
    BY <1>3, <1>4, <1>6 DEF RowFits, completed, failed, canceled, active
  <1> QED
    BY <1>5, <1>7 DEF new

\* The items of batch c are of the same kinds as before.
SameItems(c) ==
    /\ \A st \in {"completed", "failed", "canceled"} : ItemsWith(item', c, st) = ItemsWith(item, c, st)
    /\ ActiveItems(item', c) = ActiveItems(item, c)

LEMMA SameItemsFit ==
    ASSUME NEW c \in Batches, NEW row, SameItems(c), RowFits(row, item, c)
    PROVE  RowFits(row, item', c)
  <1>1. /\ ItemsWith(item', c, "completed") = ItemsWith(item, c, "completed")
        /\ ItemsWith(item', c, "failed") = ItemsWith(item, c, "failed")
        /\ ItemsWith(item', c, "canceled") = ItemsWith(item, c, "canceled")
        /\ ActiveItems(item', c) = ActiveItems(item, c)
    BY DEF SameItems
  <1> QED
    BY <1>1 DEF RowFits

\* Recounting one batch keeps all rows fitting, if the others are untouched.
LEMMA Recounted ==
    ASSUME TypeOK, RowsFit, NEW b \in Batches, NEW m \in SUBSET Subs,
           batch[b].status \in {"queued", "running", "canceled"},
           batch' = RefreshRejudgeBatchProgress(b, item', m),
           \A c \in Batches : c # b => SameItems(c)
    PROVE  RowsFit'
  <1>1. /\ \A c \in Batches : c # b => batch'[c] = batch[c]
        /\ RowFits(batch'[b], item', b)
    <2>1. PICK items : items = item'
      OBVIOUS
    <2>2. batch' = RefreshRejudgeBatchProgress(b, items, m)
      BY <2>1
    <2>3. /\ \A c \in Batches : c # b => batch'[c] = batch[c]
          /\ RowFits(batch'[b], items, b)
      BY <2>2, RefreshEffect
    <2> QED
      BY <2>1, <2>3
  <1>2. \A c \in Batches : c # b => RowFits(batch'[c], item', c)
    BY <1>1, SameItemsFit DEF RowsFit
  <1> QED
    BY <1>1, <1>2 DEF RowsFit

\* A batch with an item in work is open or canceled.
LEMMA WorkedOnIsOpen ==
    ASSUME BatchInv, NEW b \in Batches, NEW s \in Subs, Active(item[b][s])
    PROVE  batch[b].status \in {"queued", "running", "canceled"}
  <1>1. batch[b].status \in BatchStatuses
    BY DEF BatchInv, TypeInv, TypeOK, BatchRow
  <1>2. batch[b].status # "none"
    BY DEF BatchInv, NoItemsBeforeBatch, Active
  <1>3. batch[b].status \notin {"completed", "failed"}
    BY DEF BatchInv, RowsFit, RowFits, ActiveItems
  <1> QED
    BY <1>1, <1>2, <1>3 DEF BatchStatuses

\* Starting an item moves it from one active status to the other.
LEMMA StartKeepsBatches ==
    ASSUME BatchInv, StartsItem
    PROVE  OneActiveItem' /\ RowsFit'
  <1>1. PICK s \in Subs, n \in Nat :
           /\ item' = StartRejudgeBatchItem(s, n)
           /\ \/ UNCHANGED batch
              \/ \E b \in Batches, m \in SUBSET Subs :
                    /\ item[b][s].status = "queued"
                    /\ batch' = RefreshRejudgeBatchProgress(b, item', m)
    BY DEF StartsItem
  <1>2. item \in [Batches -> [Subs -> ItemRow]]
    BY DEF BatchInv, TypeInv, TypeOK
  <1>3. \A c \in Batches, t \in Subs :
           \/ item'[c][t] = item[c][t]
           \/ item[c][t].status = "queued" /\ item'[c][t].status = "running"
    BY <1>1, <1>2 DEF StartRejudgeBatchItem
  <1>4. \A c \in Batches, t \in Subs :
           /\ Active(item'[c][t]) <=> Active(item[c][t])
           /\ \A st \in {"completed", "failed", "canceled"} :
                 item'[c][t].status = st <=> item[c][t].status = st
    BY <1>3 DEF Active
  <1>5. OneActiveItem'
    BY <1>4 DEF BatchInv, OneActiveItem, Active
  <1>6. \A c \in Batches : SameItems(c)
    BY <1>4 DEF SameItems, ItemsWith, ActiveItems
  <1>7. CASE UNCHANGED batch
    BY <1>5, <1>6, <1>7, SameItemsFit DEF BatchInv, RowsFit
  <1>8. ASSUME NEW b \in Batches, NEW m \in SUBSET Subs, item[b][s].status = "queued",
               batch' = RefreshRejudgeBatchProgress(b, item', m)
        PROVE  RowsFit'
    <2>1. batch[b].status \in {"queued", "running", "canceled"}
      BY <1>8, WorkedOnIsOpen DEF Active
    <2> QED
      BY <1>6, <1>8, <2>1, Recounted DEF BatchInv, TypeInv
  <1> QED
    BY <1>1, <1>5, <1>7, <1>8

\* A finished attempt had one item running, in the batch that is recounted.
LEMMA FinishKeepsBatches ==
    ASSUME BatchInv, FinishesItem
    PROVE  OneActiveItem' /\ RowsFit'
  <1>1. PICK s \in Subs, n \in Nat :
           /\ item' = FinishRejudgeBatchItem(s, n)
           /\ \E b \in RunningItems(s, n), m \in SUBSET Subs :
                 batch' = RefreshRejudgeBatchProgress(b, item', m)
    BY DEF FinishesItem
  <1>2. PICK b \in RunningItems(s, n), m \in SUBSET Subs :
           batch' = RefreshRejudgeBatchProgress(b, item', m)
    BY <1>1
  <1>3. b \in Batches /\ Active(item[b][s])
    BY DEF RunningItems, Active
  <1>4. \A c \in Batches : c # b => c \notin RunningItems(s, n)
    BY <1>3 DEF RunningItems, Active, BatchInv, OneActiveItem
  <1>5. item \in [Batches -> [Subs -> ItemRow]]
    BY DEF BatchInv, TypeInv, TypeOK
  <1>6. \A c \in Batches : c # b => item'[c] = item[c]
    BY <1>1, <1>4 DEF FinishRejudgeBatchItem
  <1>7. \A t \in Subs : item'[b][t] = item[b][t] \/ item'[b][t].status = "completed"
    <2>1. item'[b] = [item[b] EXCEPT ![s].status = "completed"]
      BY <1>1, <1>3 DEF FinishRejudgeBatchItem
    <2>2. item[b] \in [Subs -> ItemRow]
      BY <1>3, <1>5
    <2> QED
      BY <2>1, <2>2 DEF ItemRow
  <1>8. \A c \in Batches, t \in Subs : Active(item'[c][t]) => Active(item[c][t])
    BY <1>6, <1>7 DEF Active
  <1>9. OneActiveItem'
    BY <1>8 DEF BatchInv, OneActiveItem, Active
  <1>10. batch[b].status \in {"queued", "running", "canceled"}
    BY <1>3, WorkedOnIsOpen
  <1>11. \A c \in Batches : c # b => SameItems(c)
    BY <1>6 DEF SameItems, ItemsWith, ActiveItems
  <1> QED
    BY <1>2, <1>3, <1>9, <1>10, <1>11, Recounted DEF BatchInv, TypeInv

\* A new batch has queued items only, none of a submission in work elsewhere.
LEMMA CreateKeepsBatches ==
    ASSUME BatchInv, NEW b \in Batches, CreateRejudgeBatch(b)
    PROVE  OneActiveItem' /\ RowsFit'
  <1> DEFINE eligible == ListEligibleProblemSubmissionsForRejudge
  <1>1. item \in [Batches -> [Subs -> ItemRow]] /\ batch \in [Batches -> BatchRow]
    BY DEF BatchInv, TypeInv, TypeOK
  <1>2. /\ batch[b].status = "none"
        /\ eligible # {} /\ eligible \subseteq Subs
        /\ \A s \in eligible, c \in Batches : ~Active(item[c][s])
        /\ batch' = [batch EXCEPT ![b].status = "queued"]
    BY DEF CreateRejudgeBatch
  <1>3. /\ \A c \in Batches : c # b => item'[c] = item[c]
        /\ \A s \in Subs : item'[b][s] = IF s \in eligible THEN [status |-> "queued", attempt |-> 0] ELSE item[b][s]
    BY <1>1 DEF CreateRejudgeBatch
  <1>4. \A s \in Subs : item[b][s].status = "none"
    BY <1>2 DEF BatchInv, NoItemsBeforeBatch
  <1>5. /\ batch'[b].status = "queued" /\ batch'[b].completed = batch[b].completed
        /\ batch'[b].failed = batch[b].failed /\ batch'[b].canceled = batch[b].canceled
        /\ \A c \in Batches : c # b => batch'[c] = batch[c]
    BY <1>1, <1>2 DEF BatchRow
  <1> HIDE DEF eligible
  <1>6. \A s \in Subs : (Active(item'[b][s]) <=> s \in eligible)
    BY <1>3, <1>4 DEF Active
  <1>7. OneActiveItem'
    BY <1>2, <1>3, <1>6 DEF BatchInv, OneActiveItem, Active
  <1>8. \A st \in {"completed", "failed", "canceled"} : ItemsWith(item', b, st) = ItemsWith(item, b, st)
    BY <1>3, <1>4 DEF ItemsWith
  <1>9. RowFits(batch'[b], item', b)
    <2>1. /\ ItemsWith(item', b, "completed") = ItemsWith(item, b, "completed")
          /\ ItemsWith(item', b, "failed") = ItemsWith(item, b, "failed")
          /\ ItemsWith(item', b, "canceled") = ItemsWith(item, b, "canceled")
      BY <1>8
    <2>2. RowFits(batch[b], item, b)
      BY DEF BatchInv, RowsFit
    <2> QED
      BY <2>1, <2>2, <1>5 DEF RowFits
  <1>10. \A c \in Batches : c # b => SameItems(c)
    BY <1>3 DEF SameItems, ItemsWith, ActiveItems
  <1>11. \A c \in Batches : c # b => RowFits(batch'[c], item', c)
    BY <1>5, <1>10, SameItemsFit DEF BatchInv, RowsFit
  <1> QED
    BY <1>7, <1>9, <1>11 DEF RowsFit

\* A canceled batch adds the items it still had queued to its canceled ones.
LEMMA CancelKeepsBatches ==
    ASSUME BatchInv, NEW b \in Batches, CancelRejudgeBatch(b)
    PROVE  OneActiveItem' /\ RowsFit'
  <1> DEFINE queued == ItemsWith(item, b, "queued")
             canceled == ItemsWith(item, b, "canceled")
  <1>1. item \in [Batches -> [Subs -> ItemRow]] /\ batch \in [Batches -> BatchRow]
    BY DEF BatchInv, TypeInv, TypeOK
  <1>2. /\ \A c \in Batches : c # b => item'[c] = item[c]
        /\ \A s \in Subs : item'[b][s] = IF s \in queued THEN [item[b][s] EXCEPT !.status = "canceled"] ELSE item[b][s]
    BY <1>1 DEF CancelRejudgeBatch
  <1>3. batch' = [batch EXCEPT ![b] = [batch[b] EXCEPT !.status = "canceled", !.canceled = @ + Cardinality(queued)]]
    BY DEF CancelRejudgeBatch, CanceledBatch
  <1>4. /\ batch'[b].status = "canceled"
        /\ batch'[b].completed = batch[b].completed /\ batch'[b].failed = batch[b].failed
        /\ batch'[b].canceled = batch[b].canceled + Cardinality(queued)
        /\ \A c \in Batches : c # b => batch'[c] = batch[c]
    <2> HIDE DEF queued
    <2> QED
      BY <1>1, <1>3 DEF BatchRow
  <1>5. \A s \in Subs : item'[b][s].status = IF item[b][s].status = "queued" THEN "canceled" ELSE item[b][s].status
    <2> SUFFICES ASSUME NEW s \in Subs
                 PROVE  item'[b][s].status
                          = IF item[b][s].status = "queued" THEN "canceled" ELSE item[b][s].status
      OBVIOUS
    <2>1. /\ s \in queued <=> item[b][s].status = "queued"
          /\ [item[b][s] EXCEPT !.status = "canceled"].status = "canceled"
      BY <1>1 DEF ItemsWith, ItemRow
    <2>2. item'[b][s] = IF s \in queued THEN [item[b][s] EXCEPT !.status = "canceled"] ELSE item[b][s]
      BY <1>2
    <2> HIDE DEF queued
    <2>3. CASE s \in queued
      BY <2>1, <2>2, <2>3
    <2>4. CASE s \notin queued
      BY <2>1, <2>2, <2>4
    <2> QED
      BY <2>3, <2>4
  <1>6. \A c \in Batches, s \in Subs : Active(item'[c][s]) => Active(item[c][s])
    BY <1>2, <1>5 DEF Active
  <1>7. OneActiveItem'
    BY <1>6 DEF BatchInv, OneActiveItem, Active
  <1>8. /\ ItemsWith(item', b, "completed") = ItemsWith(item, b, "completed")
        /\ ItemsWith(item', b, "failed") = ItemsWith(item, b, "failed")
        /\ ItemsWith(item', b, "canceled") = canceled \cup queued
        /\ canceled \cap queued = {}
    BY <1>5 DEF ItemsWith
  <1>9. /\ Cardinality(canceled \cup queued) = Cardinality(canceled) + Cardinality(queued)
        /\ Cardinality(canceled) \in Nat /\ Cardinality(queued) \in Nat
    <2>1. canceled \subseteq Subs /\ queued \subseteq Subs
      BY DEF ItemsWith
    <2>2. IsFiniteSet(canceled) /\ IsFiniteSet(queued)
      BY <2>1, ConstantAssumption, FS_Subset
    <2>3. Cardinality(canceled) \in Nat /\ Cardinality(queued) \in Nat
      BY <2>2, FS_CardinalityType
    <2> HIDE DEF canceled, queued
    <2>4. Cardinality(canceled \cup queued) = Cardinality(canceled) + Cardinality(queued) - Cardinality({})
      BY <2>2, <1>8, FS_Union
    <2> QED
      BY <2>3, <2>4, FS_EmptySet
  <1>10. RowFits(batch'[b], item', b)
    <2>1. /\ batch[b].completed <= Cardinality(ItemsWith(item, b, "completed"))
          /\ batch[b].failed <= Cardinality(ItemsWith(item, b, "failed"))
          /\ batch[b].canceled <= Cardinality(canceled)
          /\ batch[b].canceled \in Nat
      BY <1>1 DEF BatchInv, RowsFit, RowFits, BatchRow
    <2> HIDE DEF canceled, queued
    <2>2. batch'[b].canceled <= Cardinality(canceled \cup queued)
      BY <2>1, <1>4, <1>9
    <2> QED
      BY <2>1, <2>2, <1>4, <1>8 DEF RowFits
  <1>11. \A c \in Batches : c # b => SameItems(c)
    BY <1>2 DEF SameItems, ItemsWith, ActiveItems
  <1>12. \A c \in Batches : c # b => RowFits(batch'[c], item', c)
    BY <1>4, <1>11, SameItemsFit DEF BatchInv, RowsFit
  <1> QED
    BY <1>7, <1>10, <1>12 DEF RowsFit

LEMMA BatchInit == Init => BatchInv
  <1> SUFFICES ASSUME Init PROVE BatchInv
    OBVIOUS
  <1>1. \A b \in Batches : /\ batch[b] = [status |-> "none", completed |-> 0, failed |-> 0, canceled |-> 0]
                           /\ \A s \in Subs : item[b][s].status = "none"
    BY DEF Init, NoBatch, NoItem
  <1>2. NoItemsBeforeBatch /\ OneActiveItem
    BY <1>1 DEF NoItemsBeforeBatch, OneActiveItem, Active
  <1>3. RowsFit
    <2>1. \A b \in Batches : \A st \in {"completed", "failed", "canceled"} : ItemsWith(item, b, st) = {}
      BY <1>1 DEF ItemsWith
    <2>2. \A b \in Batches : /\ batch[b].status = "none" /\ batch[b].completed = 0
                             /\ batch[b].failed = 0 /\ batch[b].canceled = 0
      BY <1>1
    <2>3. Cardinality({}) = 0
      BY FS_EmptySet
    <2> QED
      BY <2>1, <2>2, <2>3 DEF RowsFit, RowFits
  <1> QED
    BY <1>2, <1>3, TypeInvInit DEF BatchInv

LEMMA BatchStep == BatchInv /\ [Next]_vars => BatchInv'
  <1> SUFFICES ASSUME BatchInv, [Next]_vars PROVE BatchInv'
    OBVIOUS
  <1>1. TypeInv' /\ NoItemsBeforeBatch'
    BY TypeInvStep, NoItemsStep DEF BatchInv
  <1>2. CASE UNCHANGED <<batch, item>>
    <2>1. OneActiveItem'
      BY <1>2 DEF BatchInv, OneActiveItem, Active
    <2>2. RowsFit'
      BY <1>2 DEF BatchInv, RowsFit
    <2> QED
      BY <1>1, <2>1, <2>2 DEF BatchInv
  <1> QED
    BY <1>1, <1>2, BatchSteps, StartKeepsBatches, FinishKeepsBatches, CreateKeepsBatches, CancelKeepsBatches
    DEF BatchInv

LEMMA BatchInvariant == Spec => []BatchInv
  BY BatchInit, BatchStep, PTL DEF Spec

\* No counter of a rejudge batch ever exceeds its items of that status: a
\* duplicated or late result, a second dispatch of the same task, a cancellation
\* and a refresh that waited for the batch row never count an item twice.
THEOREM BatchNeverOvercounted == Spec => []BatchNeverOvercounts
  <1>1. BatchInv => BatchNeverOvercounts
    BY RowsFitMeans DEF BatchInv
  <1> QED
    BY <1>1, BatchInvariant, PTL

\* A batch says completed or failed only when every item is settled, and its
\* counters are then exact, although each refresh counts in a snapshot that may
\* be older than the batch row it writes.
THEOREM ClosedBatchesSettled == Spec => []ClosedBatchIsSettled
  <1>1. BatchInv => ClosedBatchIsSettled
    BY RowsFitMeans DEF BatchInv
  <1> QED
    BY <1>1, BatchInvariant, PTL

-----------------------------------------------------------------------------
(* Verdicts per round                                                      *)

\* The attempts of s with a verdict, and the rejudges of s not canceled.
Finished(s) == {n \in DOMAIN att[s] : terminalStatus(att[s][n].status)}
Rounds(s) == {b \in Batches : item[b][s].status \notin {"none", "canceled"}}

\* A submission has had a verdict of every round but the one under way: the
\* first judging is a round too, which is over once the submission is terminal.
RoundsBound ==
    \A s \in Subs :
        /\ IsFiniteSet(Rounds(s))
        /\ Cardinality(Finished(s)) <= Cardinality(Rounds(s)) + (IF terminalStatus(sub[s]) THEN 1 ELSE 0)

RoundInv == FinalityInv /\ RoundsBound

LEMMA FinishedIsFinite ==
    ASSUME TypeOK, NEW s \in Subs
    PROVE  IsFiniteSet(Finished(s)) /\ Cardinality(Finished(s)) \in Nat
  <1>1. Len(att[s]) \in Nat /\ DOMAIN att[s] = 1 .. Len(att[s])
    BY AttemptRows
  <1>2. IsFiniteSet(1 .. Len(att[s]))
    BY <1>1, FS_Interval
  <1>3. Finished(s) \in SUBSET (1 .. Len(att[s]))
    BY <1>1 DEF Finished
  <1> QED
    BY <1>2, <1>3, FS_Subset, FS_CardinalityType

\* The four ways a step can treat the rounds of one submission.
SameRound(s) ==
    /\ Finished(s)' = Finished(s) /\ Rounds(s)' = Rounds(s)
    /\ terminalStatus(sub'[s]) <=> terminalStatus(sub[s])
EndsRound(s) ==
    /\ \E n \in Nat : Finished(s)' = Finished(s) \cup {n}
    /\ Rounds(s)' = Rounds(s)
    /\ ~terminalStatus(sub[s]) /\ terminalStatus(sub'[s])
OpensRound(s) ==
    /\ Finished(s)' = Finished(s)
    /\ \E b \in Batches : b \notin Rounds(s) /\ Rounds(s)' = Rounds(s) \cup {b}
    /\ terminalStatus(sub[s])
DropsRound(s) ==
    /\ Finished(s)' = Finished(s)
    /\ \E b \in Rounds(s) : Rounds(s)' = Rounds(s) \ {b}
    /\ ~terminalStatus(sub[s]) /\ terminalStatus(sub'[s])

LEMMA RoundsKept ==
    ASSUME TypeOK, RoundsBound,
           \A s \in Subs : SameRound(s) \/ EndsRound(s) \/ OpensRound(s) \/ DropsRound(s)
    PROVE  RoundsBound'
  <1> SUFFICES ASSUME NEW s \in Subs
               PROVE  /\ IsFiniteSet(Rounds(s)')
                      /\ Cardinality(Finished(s)') <= Cardinality(Rounds(s)')
                                                      + (IF terminalStatus(sub'[s]) THEN 1 ELSE 0)
    BY DEF RoundsBound, terminalStatus
  <1> DEFINE F == Finished(s)
             R == Rounds(s)
             G == Finished(s)'
             Q == Rounds(s)'
  <1>1. IsFiniteSet(F) /\ Cardinality(F) \in Nat
    BY FinishedIsFinite
  <1>2. IsFiniteSet(R) /\ Cardinality(R) \in Nat
    BY FS_CardinalityType DEF RoundsBound
  <1>3. Cardinality(F) <= Cardinality(R) + (IF terminalStatus(sub[s]) THEN 1 ELSE 0)
    BY DEF RoundsBound
  <1>4. CASE SameRound(s)
    BY <1>2, <1>3, <1>4 DEF SameRound
  <1>5. CASE EndsRound(s)
    <2>1. PICK n \in Nat : G = F \cup {n}
      BY <1>5 DEF EndsRound
    <2>2. Q = R /\ ~terminalStatus(sub[s]) /\ terminalStatus(sub'[s])
      BY <1>5 DEF EndsRound
    <2> HIDE DEF F, R, G, Q
    <2>3. Cardinality(G) <= Cardinality(F) + 1
      <3>1. Cardinality(F \cup {n}) = IF n \in F THEN Cardinality(F) ELSE Cardinality(F) + 1
        BY <1>1, FS_AddElement
      <3> QED
        BY <3>1, <2>1, <1>1
    <2>4. Cardinality(G) \in Nat
      <3>1. IsFiniteSet(F \cup {n})
        BY <1>1, FS_AddElement
      <3> QED
        BY <3>1, <2>1, FS_CardinalityType
    <2>5. Cardinality(G) <= Cardinality(Q) + 1
      BY <1>1, <1>2, <1>3, <2>2, <2>3, <2>4
    <2> QED
      BY <1>2, <2>2, <2>5 DEF G, Q
  <1>6. CASE OpensRound(s)
    <2>1. PICK b \in Batches : b \notin R /\ Q = R \cup {b}
      BY <1>6 DEF OpensRound
    <2>2. G = F /\ terminalStatus(sub[s])
      BY <1>6 DEF OpensRound
    <2> HIDE DEF F, R, G, Q
    <2>3. IsFiniteSet(Q) /\ Cardinality(Q) = Cardinality(R) + 1
      BY <1>2, <2>1, FS_AddElement
    <2>4. Cardinality(G) <= Cardinality(Q) + (IF terminalStatus(sub'[s]) THEN 1 ELSE 0)
      BY <1>1, <1>2, <1>3, <2>2, <2>3
    <2> QED
      BY <2>3, <2>4 DEF G, Q
  <1>7. CASE DropsRound(s)
    <2>1. PICK b \in R : Q = R \ {b}
      BY <1>7 DEF DropsRound
    <2>2. G = F /\ ~terminalStatus(sub[s]) /\ terminalStatus(sub'[s])
      BY <1>7 DEF DropsRound
    <2> HIDE DEF F, R, G, Q
    <2>3. IsFiniteSet(Q) /\ Cardinality(Q) = Cardinality(R) - 1
      BY <1>2, <2>1, FS_RemoveElement
    <2>4. Cardinality(G) <= Cardinality(Q) + 1
      BY <1>1, <1>2, <1>3, <2>2, <2>3
    <2> QED
      BY <2>2, <2>3, <2>4 DEF G, Q
  <1> QED
    BY <1>4, <1>5, <1>6, <1>7

LEMMA StartedItems ==
    ASSUME TypeOK, NEW t \in Subs, NEW n \in Nat, item' = StartRejudgeBatchItem(t, n)
    PROVE  \A b \in Batches, s \in Subs :
              \/ item'[b][s] = item[b][s]
              \/ item'[b][s].status = "running" /\ item[b][s].status = "queued"
  BY DEF TypeOK, StartRejudgeBatchItem

LEMMA FinishedItems ==
    ASSUME TypeOK, NEW t \in Subs, NEW n \in Nat, item' = FinishRejudgeBatchItem(t, n)
    PROVE  \A b \in Batches, s \in Subs :
              \/ item'[b][s] = item[b][s]
              \/ item'[b][s].status = "completed" /\ item[b][s].status = "running"
  <1> SUFFICES ASSUME NEW b \in Batches, NEW s \in Subs
               PROVE  \/ item'[b][s] = item[b][s]
                      \/ item'[b][s].status = "completed" /\ item[b][s].status = "running"
    OBVIOUS
  <1>1. CASE b \in RunningItems(t, n)
    <2>1. item'[b] = [item[b] EXCEPT ![t].status = "completed"] /\ item[b][t].status = "running"
      BY <1>1 DEF FinishRejudgeBatchItem, RunningItems
    <2>2. item[b] \in [Subs -> ItemRow]
      BY DEF TypeOK
    <2> QED
      BY <2>1, <2>2 DEF ItemRow
  <1>2. CASE b \notin RunningItems(t, n)
    BY <1>2 DEF FinishRejudgeBatchItem
  <1> QED
    BY <1>1, <1>2

\* Starting or finishing an item leaves it in its round.
LEMMA SameRounds ==
    ASSUME TypeOK, UNCHANGED <<batch, item>> \/ StartsItem \/ FinishesItem, NEW s \in Subs
    PROVE  Rounds(s)' = Rounds(s)
  <1>1. CASE StartsItem
    <2>1. \A b \in Batches : \/ item'[b][s] = item[b][s]
                             \/ item'[b][s].status = "running" /\ item[b][s].status = "queued"
      BY <1>1, StartedItems DEF StartsItem
    <2> QED
      BY <2>1 DEF Rounds
  <1>2. CASE FinishesItem
    <2>1. \A b \in Batches : \/ item'[b][s] = item[b][s]
                             \/ item'[b][s].status = "completed" /\ item[b][s].status = "running"
      BY <1>2, FinishedItems DEF FinishesItem
    <2> QED
      BY <2>1 DEF Rounds
  <1> QED
    BY <1>1, <1>2 DEF Rounds

\* The next attempt is opened without a verdict.
LEMMA OpensSameFinished ==
    ASSUME TypeInv, OpensAttempt, NEW s \in Subs
    PROVE  Finished(s)' = Finished(s)
  <1>1. PICK t \in Subs, b \in Batches \cup {None} :
           att' = [att EXCEPT ![t] = Append(@, [status |-> "created", batch |-> b])]
    BY DEF OpensAttempt
  <1>2. [status |-> "created", batch |-> b] \in AttemptRow
    BY DEF AttemptRow
  <1>3. /\ DOMAIN att'[t] = 1 .. Len(att[t]) + 1
        /\ att'[t][Len(att[t]) + 1] = [status |-> "created", batch |-> b]
        /\ \A r \in Subs : \A n \in DOMAIN att[r] : n \in DOMAIN att'[r] /\ att'[r][n] = att[r][n]
        /\ \A r \in Subs : r # t => att'[r] = att[r]
    BY <1>1, <1>2, AppendAttempt DEF TypeInv
  <1>4. Len(att[t]) \in Nat /\ DOMAIN att[t] = 1 .. Len(att[t])
    BY AttemptRows DEF TypeInv
  <1>5. ~terminalStatus(att'[t][Len(att[t]) + 1].status)
    BY <1>3, ConstantAssumption DEF terminalStatus
  <1>6. CASE s # t
    BY <1>3, <1>6 DEF Finished, terminalStatus
  <1>7. CASE s = t
    <2>1. \A n \in DOMAIN att'[t] : n \in DOMAIN att[t] \/ n = Len(att[t]) + 1
      BY <1>3, <1>4
    <2> QED
      BY <1>3, <1>5, <1>7, <2>1 DEF Finished, terminalStatus
  <1> QED
    BY <1>6, <1>7

\* A written verdict adds one attempt to the finished ones of its submission.
LEMMA WriteEndsRound ==
    ASSUME TypeInv, WritesVerdict, NEW s \in Subs, Rounds(s)' = Rounds(s)
    PROVE  SameRound(s) \/ EndsRound(s)
  <1>0. PICK t \in Subs : \E no \in DOMAIN att[t], v \in Verdicts : Writes(t, no, v)
    BY DEF WritesVerdict
  <1>1. PICK no \in DOMAIN att[t], v \in Verdicts : Writes(t, no, v)
    BY <1>0
  <1>2. /\ \A r \in Subs : DOMAIN att'[r] = DOMAIN att[r]
        /\ att'[t][no].status = v
        /\ \A r \in Subs : \A n \in DOMAIN att[r] : r # t \/ n # no => att'[r][n] = att[r][n]
    BY <1>1, FinishAttempt DEF TypeInv, Writes
  <1>3. /\ sub'[t] = v /\ ~terminalStatus(sub[t])
        /\ \A r \in Subs : r # t => sub'[r] = sub[r]
    BY <1>1 DEF TypeInv, TypeOK, Writes
  <1>4. no \in Nat
    BY AttemptRows DEF TypeInv
  <1>5. CASE s # t
    <2>1. Finished(s)' = Finished(s)
      BY <1>2, <1>5 DEF Finished, terminalStatus
    <2> QED
      BY <1>3, <1>5, <2>1 DEF SameRound, terminalStatus
  <1>6. CASE s = t
    <2>1. Finished(s)' = Finished(s) \cup {no}
      BY <1>2, <1>6 DEF Finished, terminalStatus
    <2> QED
      BY <1>3, <1>4, <1>6, <2>1 DEF EndsRound, terminalStatus
  <1> QED
    BY <1>5, <1>6

LEMMA CreateOpensRound ==
    ASSUME FinalityInv, NEW b \in Batches, CreateRejudgeBatch(b), NEW s \in Subs
    PROVE  SameRound(s) \/ OpensRound(s)
  <1>1. item \in [Batches -> [Subs -> ItemRow]]
    BY DEF FinalityInv, HistoryInv, TypeInv, TypeOK
  <1>2. Finished(s)' = Finished(s)
    BY DEF CreateRejudgeBatch, Finished
  <1>3. /\ \A c \in Batches : c # b => item'[c] = item[c]
        /\ item'[b][s] = IF terminalStatus(sub[s]) THEN [status |-> "queued", attempt |-> 0] ELSE item[b][s]
    BY <1>1 DEF CreateRejudgeBatch
  <1>4. sub'[s] = IF terminalStatus(sub[s]) THEN "queued" ELSE sub[s]
    BY DEF CreateRejudgeBatch
  <1>5. item[b][s].status = "none"
    BY DEF CreateRejudgeBatch, FinalityInv, NoItemsBeforeBatch
  <1>6. CASE terminalStatus(sub[s])
    <2>1. item'[b][s].status = "queued"
      BY <1>3, <1>6
    <2>2. b \notin Rounds(s) /\ Rounds(s)' = Rounds(s) \cup {b}
      BY <1>3, <1>5, <2>1 DEF Rounds
    <2> QED
      BY <1>2, <1>6, <2>2 DEF OpensRound
  <1>7. CASE ~terminalStatus(sub[s])
    <2>1. \A c \in Batches : item'[c][s] = item[c][s]
      BY <1>3, <1>7
    <2>2. Rounds(s)' = Rounds(s)
      BY <2>1 DEF Rounds
    <2> QED
      BY <1>2, <1>4, <1>7, <2>2 DEF SameRound
  <1> QED
    BY <1>6, <1>7

LEMMA CancelDropsRound ==
    ASSUME FinalityInv, NEW b \in Batches, CancelRejudgeBatch(b), NEW s \in Subs
    PROVE  SameRound(s) \/ DropsRound(s)
  <1> DEFINE queued == ItemsWith(item, b, "queued")
  <1>1. item \in [Batches -> [Subs -> ItemRow]] /\ result[s] \in ResultRow
    BY DEF FinalityInv, HistoryInv, TypeInv, TypeOK
  <1>2. Finished(s)' = Finished(s)
    BY DEF CancelRejudgeBatch, Finished
  <1>3. /\ \A c \in Batches : c # b => item'[c] = item[c]
        /\ item'[b][s] = IF s \in queued THEN [item[b][s] EXCEPT !.status = "canceled"] ELSE item[b][s]
    BY <1>1 DEF CancelRejudgeBatch
  <1>4. sub'[s] = IF s \in queued THEN result[s].status ELSE sub[s]
    BY DEF CancelRejudgeBatch
  <1>5. CASE s \in queued
    <2>1. item[b][s].status = "queued"
      BY <1>5 DEF ItemsWith
    <2>2. item'[b][s].status = "canceled"
      BY <1>1, <1>3, <1>5 DEF ItemRow
    <2>3. b \in Rounds(s) /\ Rounds(s)' = Rounds(s) \ {b}
      BY <1>3, <2>1, <2>2 DEF Rounds
    <2>4. sub[s] = "queued" /\ result[s] # NoResult
      BY <1>5 DEF CancelRejudgeBatch
    <2>5. ~terminalStatus(sub[s])
      BY <2>4, ConstantAssumption DEF terminalStatus, OpenStatuses
    <2>6. result[s].attempt \in DOMAIN att[s] /\ att[s][result[s].attempt].status = result[s].status
      BY <2>4 DEF FinalityInv, HistoryInv, ProjectionShowsLatestVerdict
    <2>7. att[s][result[s].attempt] \in AttemptRow
      BY <2>6, AttemptRows DEF FinalityInv, HistoryInv, TypeInv
    <2>8. terminalStatus(result[s].status)
      BY <1>1, <2>6, <2>7 DEF ResultRow, AttemptRow, terminalStatus
    <2> QED
      BY <1>2, <1>4, <1>5, <2>3, <2>5, <2>8 DEF DropsRound
  <1>6. CASE s \notin queued
    <2>1. \A c \in Batches : item'[c][s] = item[c][s]
      BY <1>3, <1>6
    <2>2. Rounds(s)' = Rounds(s)
      BY <2>1 DEF Rounds
    <2> QED
      BY <1>2, <1>4, <1>6, <2>2 DEF SameRound
  <1> QED
    BY <1>5, <1>6

\* Apart from batches, only a written verdict makes a submission terminal, and
\* nothing takes a verdict back.
LEMMA TerminalSteps ==
    ASSUME TypeInv, [Next]_vars
    PROVE  \/ UNCHANGED att /\ \A s \in Subs : terminalStatus(sub'[s]) <=> terminalStatus(sub[s])
           \/ OpensAttempt \/ WritesVerdict
           \/ \E b \in Batches : CreateRejudgeBatch(b) \/ CancelRejudgeBatch(b)
  <1> DEFINE Still == UNCHANGED att /\ \A s \in Subs : terminalStatus(sub'[s]) <=> terminalStatus(sub[s])
  <1>0. \A st \in OpenStatuses \cup {"none"} : ~terminalStatus(st)
    BY ConstantAssumption DEF terminalStatus
  <1>1. ASSUME NEW s \in Subs, CreateSubmission(s) \/ ResetStaleJudgeTask(s) PROVE Still
    <2>1. /\ UNCHANGED att /\ sub' = [sub EXCEPT ![s] = "queued"]
          /\ sub[s] \in OpenStatuses \cup {"none"}
      BY <1>1 DEF CreateSubmission, ResetStaleJudgeTask
    <2> QED
      BY <2>1, <1>0 DEF TypeInv, TypeOK, OpenStatuses
  <1>2. ASSUME NEW w \in Workers, MarkSubmissionRunning(w) PROVE Still
    BY <1>2, <1>0 DEF TypeInv, TypeOK, MarkSubmissionRunning, OpenStatuses
  <1>3. ASSUME NEW w \in Workers, EnsureJudgeAttempt(w) PROVE Still \/ OpensAttempt
    <2>1. UNCHANGED sub /\ (UNCHANGED att \/ OpensAttempt)
      BY <1>3, EnsureHistory DEF EnsureJudgeAttempt, Quiet
    <2> QED
      BY <2>1
  <1>4. ASSUME NEW w \in Workers, CompleteResult(w) PROVE Still \/ WritesVerdict
    <2>1. UNCHANGED <<sub, att>> \/ WritesVerdict
      <3>1. PICK i \in DOMAIN ress :
               \/ UNCHANGED db
               \/ ~Swallowed(ress[i].sub, ress[i].no) /\ WriteVerdict(w, i)
        BY <1>4 DEF CompleteResult, HeldBy
      <3>2. /\ ress[i].sub \in Subs /\ ress[i].verdict \in Verdicts
            /\ ress[i].no \in DOMAIN att[ress[i].sub]
        BY EventSubjects DEF TypeInv, ResultEvent, EventsRefer
      <3>3. CASE ~Swallowed(ress[i].sub, ress[i].no) /\ WriteVerdict(w, i)
        BY <3>2, <3>3 DEF WritesVerdict, Writes, WriteVerdict, Swallowed, UpsertSubmissionResult
      <3> QED
        BY <3>1, <3>3 DEF db
    <2> QED
      BY <2>1
  <1>5. ASSUME NEW w \in Workers,
               ClaimPendingJudgeTasks(w) \/ ReadSubmission(w) \/ Publish(w) \/ RetryJudgeTask(w)
                 \/ MarkJudgeTaskDispatched(w) \/ ResultConsume(w) \/ ResultAck(w)
                 \/ BuildFails(w) \/ EnsureFails(w) \/ PublishError(w) \/ WorkerCrash(w)
        PROVE  Still
    BY <1>5 DEF ClaimPendingJudgeTasks, ReadSubmission, Publish, RetryJudgeTask, MarkJudgeTaskDispatched,
                ResultConsume, ResultAck, BuildFails, EnsureFails, PublishError, WorkerCrash, db
  <1>6. ASSUME NEW a \in Agents, AgentStep(a) \/ AgentFails(a) \/ AgentCrash(a) PROVE Still
    BY <1>6 DEF AgentStep, AgentConsume, AgentPublish, AgentAck, AgentFails, AgentCrash, db
  <1>7. CASE UNCHANGED vars
    BY <1>7 DEF vars
  <1>9. ASSUME NEW w \in Workers, EnsureWaits(w) \/ CompleteWaits(w) PROVE Still
    BY <1>9, WaitingChangesNothing
  <1> HIDE DEF Still
  <1>8. Still \/ OpensAttempt \/ WritesVerdict \/ \E b \in Batches : CreateRejudgeBatch(b) \/ CancelRejudgeBatch(b)
    BY <1>1, <1>2, <1>3, <1>4, <1>5, <1>6, <1>7, <1>9
    DEF Next, DispatchStep, ResultStep, ResetAbandoned, ResetStalled, Still
  <1> QED
    BY <1>8 DEF Still

LEMMA RoundStep == RoundInv /\ [Next]_vars => RoundInv'
  <1> SUFFICES ASSUME RoundInv, [Next]_vars PROVE RoundInv'
    OBVIOUS
  <1>1. FinalityInv'
    BY HistoryStep, NoItemsStep DEF RoundInv, FinalityInv, HistoryInv
  <1>2. FinalityInv /\ TypeInv /\ TypeOK /\ RoundsBound
    BY DEF RoundInv, FinalityInv, HistoryInv, TypeInv
  <1>3. ASSUME NEW b \in Batches, CreateRejudgeBatch(b) \/ CancelRejudgeBatch(b) PROVE RoundsBound'
    BY <1>2, <1>3, CreateOpensRound, CancelDropsRound, RoundsKept
  <1>4. ASSUME UNCHANGED <<batch, item>> \/ StartsItem \/ FinishesItem,
               ~\E b \in Batches : CreateRejudgeBatch(b) \/ CancelRejudgeBatch(b)
        PROVE  RoundsBound'
    <2>1. \A s \in Subs : Rounds(s)' = Rounds(s)
      BY <1>2, <1>4, SameRounds
    <2>2. CASE UNCHANGED att /\ \A s \in Subs : terminalStatus(sub'[s]) <=> terminalStatus(sub[s])
      <3>1. \A s \in Subs : SameRound(s)
        BY <2>1, <2>2 DEF SameRound, Finished
      <3> QED
        BY <1>2, <3>1, RoundsKept
    <2>3. CASE OpensAttempt
      <3>1. \A s \in Subs : SameRound(s)
        BY <1>2, <2>1, <2>3, OpensSameFinished DEF SameRound, OpensAttempt
      <3> QED
        BY <1>2, <3>1, RoundsKept
    <2>4. CASE WritesVerdict
      BY <1>2, <2>1, <2>4, WriteEndsRound, RoundsKept
    <2> QED
      BY <1>2, <1>4, <2>2, <2>3, <2>4, TerminalSteps
  <1> QED
    BY <1>1, <1>2, <1>3, <1>4, BatchSteps DEF RoundInv

LEMMA RoundInit == Init => RoundInv
  <1> SUFFICES ASSUME Init PROVE RoundInv
    OBVIOUS
  <1>1. FinalityInv
    BY HistoryInit DEF Init, FinalityInv, NoItemsBeforeBatch, NoItem
  <1>2. \A s \in Subs : Finished(s) = {} /\ Rounds(s) = {}
    BY DEF Init, Finished, Rounds, NoItem
  <1>3. IsFiniteSet({}) /\ Cardinality({}) = 0
    BY FS_EmptySet
  <1> QED
    BY <1>1, <1>2, <1>3 DEF RoundInv, RoundsBound

\* However often a submission is dispatched, delivered and judged, it collects
\* at most one verdict for its first judging and one for each rejudge that was
\* not canceled.
THEOREM VerdictsBounded == Spec => []OneVerdictPerRound
  <1>1. RoundInv => OneVerdictPerRound
    <2> SUFFICES ASSUME RoundInv, NEW s \in Subs
                 PROVE  Cardinality(Finished(s)) <= 1 + Cardinality(Rounds(s))
      BY DEF OneVerdictPerRound, Finished, Rounds
    <2>1. Cardinality(Finished(s)) \in Nat
      BY FinishedIsFinite DEF RoundInv, FinalityInv, HistoryInv, TypeInv
    <2>2. Cardinality(Rounds(s)) \in Nat
      BY FS_CardinalityType DEF RoundInv, RoundsBound
    <2> QED
      BY <2>1, <2>2 DEF RoundInv, RoundsBound
  <1> QED
    BY <1>1, RoundInit, RoundStep, PTL DEF Spec

-----------------------------------------------------------------------------
(* Traceability of dispatched tasks                                        *)

WaitingRequest == {"new", "held", "orphan", "dead"}
WaitingResult == {"new", "held", "orphan"}

Requested(s, n) ==
    \E i \in DOMAIN reqs : reqs[i].sub = s /\ reqs[i].no = n /\ reqs[i].state \in WaitingRequest

Answered(s, n) ==
    \E i \in DOMAIN ress : ress[i].sub = s /\ ress[i].no = n /\ ress[i].state \in WaitingResult

\* The message of attempt n of s is somewhere, in flight or stranded.
Tracked(s, n) == Requested(s, n) \/ Answered(s, n)

\* The submission is judged, or its latest attempt is open and has a message.
Covered(s) ==
    \/ terminalStatus(sub[s])
    \/ /\ Len(att[s]) > 0
       /\ ~terminalStatus(att[s][Len(att[s])].status)
       /\ Tracked(s, Len(att[s]))

\* A dispatcher sent the request of s and did not record that yet.
JustSent(s) == \E w \in Workers : disp[w].pc = "sent" /\ disp[w].cur = s

\* The tasks that must not be forgotten.
Watched(s) ==
    \/ task[s].status = "dispatched"
    \/ task[s].status = "dispatching" /\ JustSent(s)

\* No task a dispatcher has in hand is dispatched already, and the attempt it
\* publishes is the latest one, unfinished while the task is still its own.
Diligent(w) ==
    /\ disp[w].cur \notin disp[w].todo
    /\ \A s \in disp[w].todo : task[s].status # "dispatched"
    /\ disp[w].pc \notin {"idle", "build"} => task[disp[w].cur].status # "dispatched"
    /\ disp[w].pc \in {"publish", "retry", "sent"} =>
          /\ disp[w].no = Len(att[disp[w].cur])
          /\ task[disp[w].cur].status = "dispatching" =>
                ~terminalStatus(att[disp[w].cur][disp[w].no].status)

TraceInv ==
    /\ TypeInv
    /\ \A s \in Subs : Watched(s) => Covered(s)
    /\ \A w \in Workers : Diligent(w)

\* The Compose stack of docs/v2-deploy.md runs one worker process.
OneWorker == \A v, w \in Workers : v = w

\* What a step does to a stream that loses no waiting message.
KeepsRequests ==
    \A i \in DOMAIN reqs :
        /\ i \in DOMAIN reqs'
        /\ reqs'[i].sub = reqs[i].sub /\ reqs'[i].no = reqs[i].no
        /\ reqs[i].state \in WaitingRequest => reqs'[i].state \in WaitingRequest

KeepsResults ==
    \A i \in DOMAIN ress :
        /\ i \in DOMAIN ress'
        /\ ress'[i].sub = ress[i].sub /\ ress'[i].no = ress[i].no
        /\ ress[i].state \in WaitingResult => ress'[i].state \in WaitingResult

LEMMA TrackedStays ==
    ASSUME KeepsRequests, KeepsResults, NEW s, NEW n, Tracked(s, n)
    PROVE  Tracked(s, n)'
  <1>1. CASE Requested(s, n)
    BY <1>1 DEF KeepsRequests, Requested, Tracked
  <1>2. CASE Answered(s, n)
    BY <1>2 DEF KeepsResults, Answered, Tracked
  <1> QED
    BY <1>1, <1>2 DEF Tracked

LEMMA UnchangedKeeps ==
    /\ UNCHANGED reqs => KeepsRequests
    /\ UNCHANGED ress => KeepsResults
  BY DEF KeepsRequests, KeepsResults

\* Rewriting one entry of a stream.
LEMMA OneRequest ==
    ASSUME TypeOK, NEW i \in DOMAIN reqs, NEW st, NEW p,
           reqs' = [reqs EXCEPT ![i].state = st, ![i].by = p] \/ reqs' = [reqs EXCEPT ![i].state = st]
    PROVE  /\ DOMAIN reqs' = DOMAIN reqs
           /\ \A j \in DOMAIN reqs : reqs'[j].sub = reqs[j].sub /\ reqs'[j].no = reqs[j].no
           /\ \A j \in DOMAIN reqs : j # i => reqs'[j] = reqs[j]
           /\ reqs'[i].state = st
  <1>1. reqs[i] \in RequestEvent /\ reqs = [j \in DOMAIN reqs |-> reqs[j]]
    BY EventSubjects, LenProperties DEF TypeOK
  <1> QED
    BY <1>1 DEF RequestEvent

LEMMA OneResult ==
    ASSUME TypeOK, NEW i \in DOMAIN ress, NEW st, NEW p,
           ress' = [ress EXCEPT ![i].state = st, ![i].by = p] \/ ress' = [ress EXCEPT ![i].state = st]
    PROVE  /\ DOMAIN ress' = DOMAIN ress
           /\ \A j \in DOMAIN ress : ress'[j].sub = ress[j].sub /\ ress'[j].no = ress[j].no
           /\ \A j \in DOMAIN ress : j # i => ress'[j] = ress[j]
           /\ ress'[i].state = st
  <1>1. ress[i] \in ResultEvent /\ ress = [j \in DOMAIN ress |-> ress[j]]
    BY EventSubjects, LenProperties DEF TypeOK
  <1> QED
    BY <1>1 DEF ResultEvent

LEMMA AbandonKeeps ==
    ASSUME TypeOK
    PROVE  /\ \A a \in Agents : reqs' = Abandon(reqs, a) => KeepsRequests
           /\ \A w \in Workers : ress' = Abandon(ress, w) => KeepsResults
  <1>1. ASSUME NEW a \in Agents, reqs' = Abandon(reqs, a) PROVE KeepsRequests
    <2> SUFFICES ASSUME NEW i \in DOMAIN reqs
                 PROVE  /\ i \in DOMAIN reqs'
                        /\ reqs'[i].sub = reqs[i].sub /\ reqs'[i].no = reqs[i].no
                        /\ reqs[i].state \in WaitingRequest => reqs'[i].state \in WaitingRequest
      BY DEF KeepsRequests
    <2>1. i \in DOMAIN reqs' /\ reqs'[i].sub = reqs[i].sub /\ reqs'[i].no = reqs[i].no
      BY <1>1, AbandonReqs
    <2>2. reqs[i] \in RequestEvent
      BY EventSubjects
    <2>3. reqs'[i] = reqs[i] \/ reqs'[i].state = "orphan"
      BY <1>1, <2>2 DEF Abandon, RequestEvent
    <2> QED
      BY <2>1, <2>3 DEF WaitingRequest
  <1>2. ASSUME NEW w \in Workers, ress' = Abandon(ress, w) PROVE KeepsResults
    <2> SUFFICES ASSUME NEW i \in DOMAIN ress
                 PROVE  /\ i \in DOMAIN ress'
                        /\ ress'[i].sub = ress[i].sub /\ ress'[i].no = ress[i].no
                        /\ ress[i].state \in WaitingResult => ress'[i].state \in WaitingResult
      BY DEF KeepsResults
    <2>1. i \in DOMAIN ress' /\ ress'[i].sub = ress[i].sub /\ ress'[i].no = ress[i].no
      BY <1>2, AbandonRess
    <2>2. ress[i] \in ResultEvent
      BY EventSubjects
    <2>3. ress'[i] = ress[i] \/ ress'[i].state = "orphan"
      BY <1>2, <2>2 DEF Abandon, ResultEvent
    <2> QED
      BY <2>1, <2>3 DEF WaitingResult
  <1> QED
    BY <1>1, <1>2

-----------------------------------------------------------------------------
(* Streams: which steps keep every waiting message                         *)

\* A request is appended after the ones already there.
LEMMA AppendKeepsRequests ==
    ASSUME TypeOK, NEW e \in RequestEvent, reqs' = Append(reqs, e)
    PROVE  /\ KeepsRequests
           /\ \E i \in DOMAIN reqs' : reqs'[i] = e
  <1>1. /\ reqs \in Seq(RequestEvent) /\ Len(reqs) \in Nat /\ DOMAIN reqs = 1 .. Len(reqs)
    BY LenProperties DEF TypeOK
  <1>2. /\ reqs' \in Seq(RequestEvent) /\ Len(reqs') = Len(reqs) + 1
        /\ \A i \in 1 .. Len(reqs) : reqs'[i] = reqs[i]
        /\ reqs'[Len(reqs) + 1] = e
    BY <1>1, AppendProperties
  <1>3. DOMAIN reqs' = 1 .. Len(reqs) + 1
    BY <1>2, LenProperties
  <1> QED
    BY <1>1, <1>2, <1>3 DEF KeepsRequests

LEMMA AppendKeepsResults ==
    ASSUME TypeOK, NEW e \in ResultEvent, ress' = Append(ress, e)
    PROVE  /\ KeepsResults
           /\ \E i \in DOMAIN ress' : ress'[i] = e
  <1>1. /\ ress \in Seq(ResultEvent) /\ Len(ress) \in Nat /\ DOMAIN ress = 1 .. Len(ress)
    BY LenProperties DEF TypeOK
  <1>2. /\ ress' \in Seq(ResultEvent) /\ Len(ress') = Len(ress) + 1
        /\ \A i \in 1 .. Len(ress) : ress'[i] = ress[i]
        /\ ress'[Len(ress) + 1] = e
    BY <1>1, AppendProperties
  <1>3. DOMAIN ress' = 1 .. Len(ress) + 1
    BY <1>2, LenProperties
  <1> QED
    BY <1>1, <1>2, <1>3 DEF KeepsResults

\* An exiting worker strands its results and loses none.
LEMMA ExitKeeps ==
    ASSUME TypeOK, NEW w \in Workers, Exit(w)
    PROVE  KeepsResults
  BY AbandonKeeps DEF Exit

\* Judging turns the waiting request into a waiting result; everything else an
\* agent does leaves the request where somebody can find it.
LEMMA AgentKeepsTrack ==
    ASSUME TypeInv, NEW a \in Agents, AgentStep(a) \/ AgentFails(a) \/ AgentCrash(a),
           NEW s, NEW n, Tracked(s, n)
    PROVE  Tracked(s, n)'
  <1>t. TypeOK
    BY DEF TypeInv
  <1>1. CASE AgentConsume(a)
    <2>1. PICK i \in DOMAIN reqs : reqs' = [reqs EXCEPT ![i].state = "held", ![i].by = a]
      BY <1>1 DEF AgentConsume, NewEntries
    <2>2. KeepsRequests
      BY <1>t, <2>1, OneRequest DEF KeepsRequests, WaitingRequest
    <2> QED
      BY <1>1, <2>2, UnchangedKeeps, TrackedStays DEF AgentConsume
  <1>2. CASE AgentPublish(a)
    <2>1. PICK i \in DOMAIN reqs, v \in Verdicts :
             /\ reqs' = [reqs EXCEPT ![i].state = "judged"]
             /\ ress' = Append(ress, [sub |-> reqs[i].sub, no |-> reqs[i].no, verdict |-> v,
                                      state |-> "new", by |-> None])
      BY <1>2 DEF AgentPublish, HeldBy
    <2>2. [sub |-> reqs[i].sub, no |-> reqs[i].no, verdict |-> v, state |-> "new", by |-> None]
             \in ResultEvent
      BY <1>t, EventSubjects DEF RequestEvent, ResultEvent, ResStates
    <2>3. /\ KeepsResults
          /\ \E j \in DOMAIN ress' : ress'[j] = [sub |-> reqs[i].sub, no |-> reqs[i].no, verdict |-> v,
                                                 state |-> "new", by |-> None]
      BY <1>t, <2>1, <2>2, AppendKeepsResults
    <2>4. CASE Answered(s, n)
      BY <2>3, <2>4 DEF KeepsResults, Answered, Tracked
    <2>5. CASE Requested(s, n)
      <3>1. PICK k \in DOMAIN reqs : reqs[k].sub = s /\ reqs[k].no = n /\ reqs[k].state \in WaitingRequest
        BY <2>5 DEF Requested
      <3>2. CASE k = i
        BY <3>1, <3>2, <2>3 DEF Answered, Tracked, WaitingResult
      <3>3. CASE k # i
        <4>1. k \in DOMAIN reqs' /\ reqs'[k] = reqs[k]
          BY <1>t, <2>1, <3>3, OneRequest
        <4> QED
          BY <4>1, <3>1 DEF Requested, Tracked
      <3> QED
        BY <3>2, <3>3
    <2> QED
      BY <2>4, <2>5 DEF Tracked
  <1>3. CASE AgentAck(a)
    <2>1. PICK i \in DOMAIN reqs : /\ reqs[i].state = "judged"
                                   /\ reqs' = [reqs EXCEPT ![i].state = "acked", ![i].by = None]
      BY <1>3 DEF AgentAck, HeldBy
    <2>2. KeepsRequests
      BY <1>t, <2>1, OneRequest DEF KeepsRequests, WaitingRequest
    <2> QED
      BY <1>3, <2>2, UnchangedKeeps, TrackedStays DEF AgentAck
  <1>4. CASE AgentFails(a)
    <2>1. PICK i \in DOMAIN reqs : reqs' = [reqs EXCEPT ![i].state = "dead", ![i].by = None]
      BY <1>4 DEF AgentFails, DeadLetter, HeldBy
    <2>2. KeepsRequests
      BY <1>t, <2>1, OneRequest DEF KeepsRequests, WaitingRequest
    <2> QED
      BY <1>4, <2>2, UnchangedKeeps, TrackedStays DEF AgentFails
  <1>5. CASE AgentCrash(a)
    BY <1>t, <1>5, AbandonKeeps, UnchangedKeeps, TrackedStays DEF AgentCrash
  <1> QED
    BY <1>1, <1>2, <1>3, <1>4, <1>5 DEF AgentStep

\* Reading and acknowledging results loses none that waits.
LEMMA ResultsKept ==
    ASSUME TypeOK, NEW w \in Workers, ResultConsume(w) \/ ResultAck(w)
    PROVE  KeepsRequests /\ KeepsResults
  <1>1. CASE ResultConsume(w)
    <2>1. PICK first \in NewEntries(ress) :
             ress' = [i \in DOMAIN ress |->
                        IF i \in first .. (first + ResultBatch - 1)
                        THEN [ress[i] EXCEPT !.state = "held", !.by = w] ELSE ress[i]]
      BY <1>1 DEF ResultConsume
    <2>2. \A i \in DOMAIN ress : /\ i \in DOMAIN ress'
                                 /\ \/ ress'[i] = ress[i]
                                    \/ ress'[i] = [ress[i] EXCEPT !.state = "held", !.by = w]
      BY <2>1
    <2>3. \A i \in DOMAIN ress : ress[i] \in ResultEvent
      BY EventSubjects
    <2>4. KeepsResults
      BY <2>2, <2>3 DEF KeepsResults, WaitingResult, ResultEvent
    <2> QED
      BY <1>1, <2>4, UnchangedKeeps DEF ResultConsume
  <1>2. CASE ResultAck(w)
    <2>1. PICK i \in DOMAIN ress : /\ ress[i].state = "written"
                                   /\ ress' = [ress EXCEPT ![i].state = "acked", ![i].by = None]
      BY <1>2 DEF ResultAck, HeldBy
    <2>2. KeepsResults
      BY <2>1, OneResult DEF KeepsResults, WaitingResult
    <2> QED
      BY <1>2, <2>2, UnchangedKeeps DEF ResultAck
  <1> QED
    BY <1>1, <1>2

\* Writing or swallowing result i loses only the messages of its own attempt.
LEMMA WrittenKeepsOthers ==
    ASSUME TypeOK, NEW i \in DOMAIN ress, ress' = [ress EXCEPT ![i].state = "written"], UNCHANGED reqs,
           NEW s, NEW n, Tracked(s, n), s # ress[i].sub \/ n # ress[i].no
    PROVE  Tracked(s, n)'
  <1>1. CASE Requested(s, n)
    BY <1>1 DEF Requested, Tracked
  <1>2. CASE Answered(s, n)
    <2>1. PICK j \in DOMAIN ress : ress[j].sub = s /\ ress[j].no = n /\ ress[j].state \in WaitingResult
      BY <1>2 DEF Answered
    <2>2. j \in DOMAIN ress' /\ ress'[j] = ress[j]
      BY <2>1, OneResult
    <2> QED
      BY <2>1, <2>2 DEF Answered, Tracked
  <1> QED
    BY <1>1, <1>2 DEF Tracked

-----------------------------------------------------------------------------
(* TraceInv is preserved: steps outside the dispatcher                     *)

\* Nothing a dispatcher relies on changes as long as the step gives no task
\* the status dispatching or dispatched.
NoNewDispatch ==
    \A s \in Subs : task'[s].status \in {"dispatching", "dispatched"} => task'[s].status = task[s].status

LEMMA DiligentStays ==
    ASSUME TypeInv, NEW w \in Workers, Diligent(w), disp'[w] = disp[w], NoNewDispatch,
           \A s \in Subs : task'[s].status = "dispatching" => att'[s] = att[s],
           \A s \in Subs : Len(att'[s]) = Len(att[s])
    PROVE  Diligent(w)'
  <1>1. /\ disp[w].todo \in SUBSET Subs
        /\ disp[w].pc \notin {"idle", "build"} => disp[w].cur \in Subs
    BY DEF TypeInv, TypeOK, DispatchersRefer, Dispatcher
  <1>2. disp'[w].cur \notin disp'[w].todo
    BY DEF Diligent
  <1>3. \A s \in disp'[w].todo : task'[s].status # "dispatched"
    BY <1>1 DEF Diligent, NoNewDispatch
  <1>4. disp'[w].pc \notin {"idle", "build"} => task'[disp'[w].cur].status # "dispatched"
    BY <1>1 DEF Diligent, NoNewDispatch
  <1>5. disp'[w].pc \in {"publish", "retry", "sent"} =>
          /\ disp'[w].no = Len(att'[disp'[w].cur])
          /\ task'[disp'[w].cur].status = "dispatching" =>
                ~terminalStatus(att'[disp'[w].cur][disp'[w].no].status)
    BY <1>1 DEF Diligent, NoNewDispatch
  <1> QED
    BY <1>2, <1>3, <1>4, <1>5 DEF Diligent, terminalStatus

\* A dispatcher without work has nothing to be diligent about.
LEMMA IdleIsDiligent ==
    ASSUME NEW w \in Workers, disp'[w] = Idle
    PROVE  Diligent(w)'
  <1>1. disp'[w].pc = "idle" /\ disp'[w].todo = {}
    BY DEF Idle
  <1> QED
    BY <1>1 DEF Diligent

\* A step that starts no dispatch, loses no message and takes no verdict back
\* from a task that stays dispatched.
LEMMA CalmKeepsTrace ==
    ASSUME TraceInv, TypeInv', NoNewDispatch, UNCHANGED att,
           \A w \in Workers : disp'[w] = disp[w] \/ disp'[w] = Idle,
           \A s \in Subs : /\ task'[s].status \in {"dispatching", "dispatched"}
                           /\ terminalStatus(sub[s])
                           => terminalStatus(sub'[s]),
           \A s \in Subs : ~terminalStatus(sub'[s]) => \A n : n = Len(att[s]) /\ Covered(s) /\ Tracked(s, n) => Tracked(s, n)'
    PROVE  TraceInv'
  <1>1. ASSUME NEW w \in Workers PROVE Diligent(w)'
    <2>1. CASE disp'[w] = Idle
      BY <2>1, IdleIsDiligent
    <2>2. CASE disp'[w] = disp[w]
      BY <2>2, DiligentStays DEF TraceInv
    <2> QED
      BY <2>1, <2>2
  <1>2. ASSUME NEW s \in Subs, Watched(s)' PROVE Covered(s)'
    <2>0. task'[s].status \in {"dispatching", "dispatched"} /\ task'[s].status = task[s].status
      BY <1>2 DEF Watched, NoNewDispatch
    <2>1. JustSent(s)' => JustSent(s)
      BY DEF JustSent, Idle
    <2>2. Watched(s)
      BY <1>2, <2>0, <2>1 DEF Watched
    <2>3. Covered(s)
      BY <2>2 DEF TraceInv
    <2>4. CASE terminalStatus(sub'[s])
      BY <2>4 DEF Covered, terminalStatus
    <2>5. CASE ~terminalStatus(sub'[s])
      <3>1. PICK n : n = Len(att[s])
        OBVIOUS
      <3>2. n > 0 /\ ~terminalStatus(att[s][n].status) /\ Tracked(s, n)
        BY <2>0, <2>3, <2>5, <3>1 DEF Covered
      <3>3. n = Len(att'[s]) /\ ~terminalStatus(att'[s][n].status) /\ Tracked(s, n)'
        BY <2>3, <2>5, <3>1, <3>2
      <3>4. Tracked(s, Len(att[s]))'
        BY <3>3 DEF Tracked, Requested, Answered
      <3> QED
        BY <3>2, <3>3, <3>4 DEF Covered, terminalStatus
    <2> QED
      BY <2>4, <2>5
  <1> QED
    BY <1>1, <1>2 DEF TraceInv

\* The API's transactions and the reset of stale tasks: a task they touch is
\* neither dispatching nor dispatched afterwards.
LEMMA RowsKeepTrace ==
    ASSUME TraceInv, TypeInv',
           \/ \E s \in Subs : CreateSubmission(s) \/ ResetStaleJudgeTask(s)
           \/ \E b \in Batches : CreateRejudgeBatch(b) \/ CancelRejudgeBatch(b)
    PROVE  TraceInv'
  <1>0. /\ sub \in [Subs -> SubStatuses] /\ task \in [Subs -> TaskRow]
        /\ \A s \in Subs : task[s] \in TaskRow
    BY DEF TraceInv, TypeInv, TypeOK
  <1>1. UNCHANGED <<att, reqs, ress, disp>>
    BY DEF CreateSubmission, ResetStaleJudgeTask, CreateRejudgeBatch, CancelRejudgeBatch, mem
  <1>2. ASSUME NEW s \in Subs, task'[s].status \in {"dispatching", "dispatched"}
        PROVE  task'[s].status = task[s].status /\ sub'[s] = sub[s]
    <2>1. ASSUME NEW r \in Subs, CreateSubmission(r) \/ ResetStaleJudgeTask(r)
          PROVE  task'[s].status = task[s].status /\ sub'[s] = sub[s]
      <3>1. task'[r].status = "pending"
        BY <1>0, <2>1 DEF CreateSubmission, ResetStaleJudgeTask, TaskRow
      <3>2. s # r
        BY <1>2, <3>1
      <3> QED
        BY <1>0, <2>1, <3>2 DEF CreateSubmission, ResetStaleJudgeTask
    <2>2. ASSUME NEW b \in Batches, CreateRejudgeBatch(b)
          PROVE  task'[s].status = task[s].status /\ sub'[s] = sub[s]
      BY <1>2, <2>2 DEF CreateRejudgeBatch, PrepareJudgeTaskForRejudge
    <2>3. ASSUME NEW b \in Batches, CancelRejudgeBatch(b)
          PROVE  task'[s].status = task[s].status /\ sub'[s] = sub[s]
      <3>1. s \in ItemsWith(item, b, "queued") => task'[s].status = "done"
        BY <1>0, <2>3 DEF CancelRejudgeBatch, TaskRow
      <3>2. s \notin ItemsWith(item, b, "queued")
        BY <1>2, <3>1
      <3> QED
        BY <2>3, <3>2 DEF CancelRejudgeBatch
    <2> QED
      BY <2>1, <2>2, <2>3
  <1>3. NoNewDispatch
    BY <1>2 DEF NoNewDispatch
  <1>4. \A s \in Subs : \A n : Tracked(s, n) => Tracked(s, n)'
    BY <1>1, UnchangedKeeps, TrackedStays
  <1> QED
    BY <1>1, <1>2, <1>3, <1>4, CalmKeepsTrace

\* A worker that ends, whatever else its last statement did to its task.
LEMMA ExitKeepsTrace ==
    ASSUME TraceInv, TypeInv', NEW w \in Workers, Exit(w), NoNewDispatch, UNCHANGED <<sub, att, reqs>>
    PROVE  TraceInv'
  <1>0. TypeOK
    BY DEF TraceInv, TypeInv
  <1>1. \A x \in Workers : disp'[x] = disp[x] \/ disp'[x] = Idle
    BY <1>0, ExitEffect
  <1>2. \A s \in Subs : \A n : Tracked(s, n) => Tracked(s, n)'
    BY <1>0, ExitKeeps, UnchangedKeeps, TrackedStays
  <1> QED
    BY <1>1, <1>2, CalmKeepsTrace

LEMMA AgentKeepsTrace ==
    ASSUME TraceInv, TypeInv', NEW a \in Agents, AgentStep(a) \/ AgentFails(a) \/ AgentCrash(a)
    PROVE  TraceInv'
  <1>1. UNCHANGED <<sub, task, att, disp>>
    BY DEF AgentStep, AgentConsume, AgentPublish, AgentAck, AgentFails, AgentCrash, db, mem
  <1>2. \A s \in Subs : \A n : Tracked(s, n) => Tracked(s, n)'
    BY AgentKeepsTrack DEF TraceInv
  <1>3. NoNewDispatch
    BY <1>1 DEF NoNewDispatch
  <1> QED
    BY <1>1, <1>2, <1>3, CalmKeepsTrace

LEMMA ConsumerKeepsTrace ==
    ASSUME TraceInv, TypeInv', NEW w \in Workers, ResultConsume(w) \/ ResultAck(w)
    PROVE  TraceInv'
  <1>1. UNCHANGED <<sub, task, att, disp>>
    BY DEF ResultConsume, ResultAck, db, mem
  <1>2. \A s \in Subs : \A n : Tracked(s, n) => Tracked(s, n)'
    BY ResultsKept, TrackedStays DEF TraceInv, TypeInv
  <1>3. NoNewDispatch
    BY <1>1 DEF NoNewDispatch
  <1> QED
    BY <1>1, <1>2, <1>3, CalmKeepsTrace

\* A result is swallowed only when nobody waits for it any more.
LEMMA SwallowKeepsTrace ==
    ASSUME TraceInv, TypeInv', NEW i \in DOMAIN ress, Swallowed(ress[i].sub, ress[i].no),
           ress' = [ress EXCEPT ![i].state = "written"], UNCHANGED <<db, reqs, mem>>
    PROVE  TraceInv'
  <1>1. UNCHANGED <<sub, task, att, disp, reqs>>
    BY DEF db, mem
  <1>2. ASSUME NEW s \in Subs, ~terminalStatus(sub'[s]), NEW n, n = Len(att[s]), Covered(s), Tracked(s, n)
        PROVE  Tracked(s, n)'
    <2>1. ~terminalStatus(sub[s]) /\ ~terminalStatus(att[s][n].status)
      BY <1>1, <1>2 DEF Covered
    <2>2. s # ress[i].sub \/ n # ress[i].no
      BY <2>1 DEF Swallowed
    <2> QED
      BY <1>1, <1>2, <2>2, WrittenKeepsOthers DEF TraceInv, TypeInv
  <1>3. NoNewDispatch
    BY <1>1 DEF NoNewDispatch
  <1> QED
    BY <1>1, <1>2, <1>3, CalmKeepsTrace

\* A submission stays covered while its verdict, its attempts and the message
\* of its latest attempt stay.
LEMMA CoveredStays ==
    ASSUME NEW s \in Subs, Covered(s), att'[s] = att[s],
           terminalStatus(sub[s]) => terminalStatus(sub'[s]),
           \A n : Tracked(s, n) => Tracked(s, n)'
    PROVE  Covered(s)'
  <1>1. PICK n : n = Len(att[s])
    OBVIOUS
  <1>2. CASE terminalStatus(sub[s])
    BY <1>2 DEF Covered, terminalStatus
  <1>3. CASE ~terminalStatus(sub[s])
    <2>1. n > 0 /\ ~terminalStatus(att[s][n].status) /\ Tracked(s, n)
      BY <1>1, <1>3 DEF Covered
    <2>2. n = Len(att'[s]) /\ ~terminalStatus(att'[s][n].status) /\ Tracked(s, n)'
      BY <1>1, <2>1
    <2>3. Tracked(s, Len(att[s]))'
      BY <2>2 DEF Tracked, Requested, Answered
    <2> QED
      BY <2>1, <2>2, <2>3 DEF Covered, terminalStatus
  <1> QED
    BY <1>2, <1>3

\* The verdict ends the wait of its submission and concerns no other one.
LEMMA VerdictKeepsTrace ==
    ASSUME TraceInv, TypeInv', NEW w \in Workers, NEW i \in DOMAIN ress, WriteVerdict(w, i)
    PROVE  TraceInv'
  <1>0. PICK s \in Subs, no \in DOMAIN att[ress[i].sub], v \in Verdicts :
           s = ress[i].sub /\ no = ress[i].no /\ v = ress[i].verdict
    BY EventSubjects DEF TraceInv, TypeInv, ResultEvent, EventsRefer
  <1>t. TypeOK /\ TypeInv
    BY DEF TraceInv, TypeInv
  <1>1. /\ att' = [att EXCEPT ![s][no].status = v] /\ sub' = [sub EXCEPT ![s] = v]
        /\ ress' = [ress EXCEPT ![i].state = "written"]
        /\ UNCHANGED <<reqs, disp>>
        /\ task' = MarkJudgeTaskDone(s)
    BY <1>0 DEF WriteVerdict, mem
  <1>2. /\ \A t \in Subs : Len(att'[t]) = Len(att[t])
        /\ \A t \in Subs : t # s => att'[t] = att[t] /\ sub'[t] = sub[t] /\ task'[t] = task[t]
        /\ sub'[s] = v
    <2>1. \A t \in Subs : Len(att'[t]) = Len(att[t])
      BY <1>0, <1>1, <1>t, FinishAttempt
    <2>2. \A t \in Subs : t # s => att'[t] = att[t] /\ sub'[t] = sub[t]
      BY <1>1, <1>t DEF TypeOK
    <2>3. \A t \in Subs : t # s => task'[t] = task[t]
      BY <1>1, <1>t DEF TypeOK, MarkJudgeTaskDone
    <2> QED
      BY <1>1, <1>t, <2>1, <2>2, <2>3 DEF TypeOK
  <1>3. task'[s].status \notin {"dispatching", "dispatched"}
    <2>1. task[s] \in TaskRow /\ task \in [Subs -> TaskRow]
      BY <1>t DEF TypeOK
    <2> QED
      BY <1>1, <2>1 DEF MarkJudgeTaskDone, TaskActive, TaskRow
  <1>4. NoNewDispatch
    BY <1>2, <1>3 DEF NoNewDispatch
  <1>5. ASSUME NEW x \in Workers PROVE Diligent(x)'
    <2>1. \A t \in Subs : task'[t].status = "dispatching" => att'[t] = att[t]
      BY <1>2, <1>3
    <2> QED
      BY <1>1, <1>2, <1>4, <1>t, <2>1, DiligentStays DEF TraceInv
  <1>6. ASSUME NEW t \in Subs, Watched(t)' PROVE Covered(t)'
    <2>1. t # s
      BY <1>3, <1>6 DEF Watched
    <2>2. JustSent(t)' => JustSent(t)
      BY <1>1 DEF JustSent
    <2>3. Covered(t)
      BY <1>2, <1>6, <2>1, <2>2 DEF Watched, TraceInv
    <2>4. \A n : Tracked(t, n) => Tracked(t, n)'
      BY <1>0, <1>1, <1>t, <2>1, WrittenKeepsOthers
    <2> QED
      BY <1>2, <2>1, <2>3, <2>4, CoveredStays
  <1> QED
    BY <1>5, <1>6 DEF TraceInv

LEMMA CompleteKeepsTrace ==
    ASSUME TraceInv, TypeInv', NEW w \in Workers, CompleteResult(w)
    PROVE  TraceInv'
  <1>1. PICK i \in DOMAIN ress :
           \/ /\ Swallowed(ress[i].sub, ress[i].no)
              /\ ress' = [ress EXCEPT ![i].state = "written"]
              /\ UNCHANGED <<db, reqs, mem>>
           \/ WriteVerdict(w, i)
           \/ Exit(w) /\ UNCHANGED <<db, reqs>>
    BY DEF CompleteResult, HeldBy
  <1>2. CASE /\ Swallowed(ress[i].sub, ress[i].no)
             /\ ress' = [ress EXCEPT ![i].state = "written"]
             /\ UNCHANGED <<db, reqs, mem>>
    BY <1>2, SwallowKeepsTrace
  <1>3. CASE WriteVerdict(w, i)
    BY <1>3, VerdictKeepsTrace
  <1>4. CASE Exit(w) /\ UNCHANGED <<db, reqs>>
    BY <1>4, ExitKeepsTrace DEF db, NoNewDispatch
  <1> QED
    BY <1>1, <1>2, <1>3, <1>4

-----------------------------------------------------------------------------
(* TraceInv is preserved: the dispatcher of the one worker                 *)

\* What is left to show of a dispatcher's step.
LEMMA DispatcherKeepsTrace ==
    ASSUME TraceInv, TypeInv', OneWorker, NEW w \in Workers, Diligent(w)', KeepsRequests, UNCHANGED ress,
           \A s \in Subs : terminalStatus(sub[s]) => terminalStatus(sub'[s]),
           \A s \in Subs : Watched(s)' => Covered(s)' \/ (Watched(s) /\ att'[s] = att[s])
    PROVE  TraceInv'
  <1>1. \A x \in Workers : Diligent(x)'
    BY DEF OneWorker
  <1>2. \A s \in Subs : \A n : Tracked(s, n) => Tracked(s, n)'
    BY UnchangedKeeps, TrackedStays
  <1>3. ASSUME NEW s \in Subs, Watched(s)' PROVE Covered(s)'
    BY <1>2, <1>3, CoveredStays DEF TraceInv
  <1> QED
    BY <1>1, <1>3 DEF TraceInv

LEMMA ClaimKeepsTrace ==
    ASSUME TraceInv, TypeInv', OneWorker, NEW w \in Workers, ClaimPendingJudgeTasks(w)
    PROVE  TraceInv'
  <1>1. PICK T \in SUBSET {s \in Subs : task[s].status = "pending"} :
           /\ task' = [s \in Subs |->
                         IF s \in T THEN [task[s] EXCEPT !.status = "dispatching"] ELSE task[s]]
           /\ disp' = [disp EXCEPT ![w] = [Idle EXCEPT !.pc = "build", !.todo = T]]
    BY DEF ClaimPendingJudgeTasks
  <1>0. disp \in [Workers -> Dispatcher] /\ \A s \in Subs : task[s] \in TaskRow
    BY DEF TraceInv, TypeInv, TypeOK
  <1>2. /\ disp'[w].pc = "build" /\ disp'[w].todo = T /\ disp'[w].cur = None
        /\ UNCHANGED <<sub, att, reqs, ress>>
    BY <1>0, <1>1 DEF Idle, ClaimPendingJudgeTasks
  <1>3. \A s \in Subs : /\ s \in T => task'[s].status = "dispatching"
                        /\ s \notin T => task'[s] = task[s]
    BY <1>0, <1>1 DEF TaskRow
  <1>4. Diligent(w)'
    BY <1>2, <1>3, ConstantAssumption DEF Diligent
  <1>5. ASSUME NEW s \in Subs, Watched(s)' PROVE Watched(s)
    <2>1. ~JustSent(s)'
      BY <1>2 DEF JustSent, OneWorker
    <2> QED
      BY <1>3, <1>5, <2>1 DEF Watched
  <1> QED
    BY <1>2, <1>4, <1>5, UnchangedKeeps, DispatcherKeepsTrace

LEMMA ReadKeepsTrace ==
    ASSUME TraceInv, TypeInv', OneWorker, NEW w \in Workers, ReadSubmission(w)
    PROVE  TraceInv'
  <1>0. disp \in [Workers -> Dispatcher] /\ Diligent(w)
    BY DEF TraceInv, TypeInv, TypeOK
  <1>1. PICK s \in disp[w].todo, pc \in {"mark", "ensure"} :
           disp' = [disp EXCEPT ![w] =
                      [pc |-> pc, todo |-> disp[w].todo \ {s}, cur |-> s, no |-> 0]]
    BY DEF ReadSubmission
  <1>2. /\ disp'[w].pc \in {"mark", "ensure"} /\ disp'[w].todo = disp[w].todo \ {s} /\ disp'[w].cur = s
        /\ UNCHANGED <<sub, task, att, reqs, ress>>
    BY <1>0, <1>1 DEF ReadSubmission, db
  <1>3. Diligent(w)'
    BY <1>0, <1>2 DEF Diligent
  <1>4. ASSUME NEW t \in Subs, Watched(t)' PROVE Watched(t)
    BY <1>2, <1>4 DEF Watched, JustSent, OneWorker
  <1> QED
    BY <1>2, <1>3, <1>4, UnchangedKeeps, DispatcherKeepsTrace

LEMMA RunningKeepsTrace ==
    ASSUME TraceInv, TypeInv', OneWorker, NEW w \in Workers, MarkSubmissionRunning(w)
    PROVE  TraceInv'
  <1>0. /\ disp \in [Workers -> Dispatcher] /\ sub \in [Subs -> SubStatuses] /\ Diligent(w)
    BY DEF TraceInv, TypeInv, TypeOK
  <1>1. CASE sub[disp[w].cur] = "queued"
    <2>1. /\ sub' = [sub EXCEPT ![disp[w].cur] = "running"]
          /\ disp' = [disp EXCEPT ![w].pc = "ensure"]
          /\ UNCHANGED <<task, att, reqs, ress>>
      BY <1>1 DEF MarkSubmissionRunning
    <2>2. disp'[w].pc = "ensure" /\ disp'[w].todo = disp[w].todo /\ disp'[w].cur = disp[w].cur
      BY <1>0, <2>1 DEF Dispatcher
    <2>3. disp[w].pc = "mark"
      BY DEF MarkSubmissionRunning
    <2>4. Diligent(w)'
      BY <1>0, <2>1, <2>2, <2>3 DEF Diligent
    <2>5. \A s \in Subs : terminalStatus(sub[s]) => terminalStatus(sub'[s])
      BY <1>0, <1>1, <2>1, ConstantAssumption DEF terminalStatus, OpenStatuses
    <2>6. ASSUME NEW t \in Subs, Watched(t)' PROVE Watched(t)
      BY <2>1, <2>2, <2>6 DEF Watched, JustSent, OneWorker
    <2> QED
      BY <2>1, <2>4, <2>5, <2>6, UnchangedKeeps, DispatcherKeepsTrace
  <1>2. CASE sub[disp[w].cur] # "queued"
    BY <1>2, ExitKeepsTrace DEF MarkSubmissionRunning, NoNewDispatch
  <1> QED
    BY <1>1, <1>2

\* ensureJudgeAttempt hands the dispatcher the latest attempt, unfinished.
LEMMA EnsureKeepsTrace ==
    ASSUME TraceInv, TypeInv', OneWorker, NEW w \in Workers, EnsureJudgeAttempt(w)
    PROVE  TraceInv'
  <1>t. TypeInv /\ TypeOK /\ disp \in [Workers -> Dispatcher] /\ Diligent(w)
    BY DEF TraceInv, TypeInv, TypeOK
  <1>0. PICK s \in Subs : s = disp[w].cur
    BY <1>t, EnsureEffect
  <1>a. Len(att[s]) \in Nat /\ disp[w].pc = "ensure" /\ UNCHANGED <<sub, task, reqs, ress>>
    BY <1>t, AttemptRows DEF EnsureJudgeAttempt
  <1>1. CASE Reusable(s)
    <2>1. disp' = [disp EXCEPT ![w].pc = "publish", ![w].no = Len(att[s])] /\ UNCHANGED att
      BY <1>0, <1>1, <1>t, EnsureEffect
    <2>2. /\ disp'[w].pc = "publish" /\ disp'[w].no = Len(att[s])
          /\ disp'[w].todo = disp[w].todo /\ disp'[w].cur = s
      BY <1>0, <1>t, <2>1 DEF Dispatcher
    <2>3. ~terminalStatus(att[s][Len(att[s])].status)
      BY <1>1 DEF Reusable
    <2>4. Diligent(w)'
      BY <1>0, <1>a, <1>t, <2>1, <2>2, <2>3 DEF Diligent, terminalStatus
    <2>5. ASSUME NEW t \in Subs, Watched(t)' PROVE Watched(t)
      BY <1>a, <2>2, <2>5 DEF Watched, JustSent, OneWorker
    <2> QED
      BY <1>a, <2>1, <2>4, <2>5, UnchangedKeeps, DispatcherKeepsTrace
  <1>2. CASE ~Reusable(s)
    <2>1. PICK b \in Batches \cup {None} :
             /\ disp' = [disp EXCEPT ![w].pc = "publish", ![w].no = Len(att[s]) + 1]
             /\ att' = [att EXCEPT ![s] = Append(@, [status |-> "created", batch |-> b])]
      BY <1>0, <1>2, <1>t, EnsureEffect
    <2>2. /\ disp'[w].pc = "publish" /\ disp'[w].no = Len(att[s]) + 1
          /\ disp'[w].todo = disp[w].todo /\ disp'[w].cur = s
      BY <1>0, <1>t, <2>1 DEF Dispatcher
    <2>3. [status |-> "created", batch |-> b] \in AttemptRow
      BY DEF AttemptRow
    <2>4. /\ Len(att'[s]) = Len(att[s]) + 1
          /\ att'[s][Len(att[s]) + 1] = [status |-> "created", batch |-> b]
          /\ \A t \in Subs : t # s => att'[t] = att[t]
      BY <1>t, <2>1, <2>3, AppendAttempt
    <2>5. ~terminalStatus("created")
      BY ConstantAssumption DEF terminalStatus
    <2>6. Diligent(w)'
      BY <1>0, <1>a, <1>t, <2>2, <2>4, <2>5 DEF Diligent, terminalStatus
    <2>7. ASSUME NEW t \in Subs, Watched(t)' PROVE Watched(t) /\ att'[t] = att[t]
      <3>1. Watched(t) /\ task[t].status = "dispatched"
        BY <1>a, <2>2, <2>7 DEF Watched, JustSent, OneWorker
      <3>2. t # s
        BY <1>0, <1>a, <1>t, <3>1 DEF Diligent
      <3> QED
        BY <2>4, <3>1, <3>2
    <2> QED
      BY <1>a, <2>6, <2>7, UnchangedKeeps, DispatcherKeepsTrace
  <1> QED
    BY <1>1, <1>2

\* XADD puts the latest attempt on the request stream, where it waits.
LEMMA PublishKeepsTrace ==
    ASSUME TraceInv, TypeInv', OneWorker, NEW w \in Workers, Publish(w)
    PROVE  TraceInv'
  <1>t. TypeInv /\ TypeOK /\ disp \in [Workers -> Dispatcher] /\ Diligent(w)
    BY DEF TraceInv, TypeInv, TypeOK
  <1>0. PICK s \in Subs, n \in Nat :
           /\ s = disp[w].cur /\ n = disp[w].no /\ n \in DOMAIN att[s]
           /\ disp[w].pc = "publish"
    BY <1>t DEF Publish, TypeInv, DispatchersRefer, Dispatcher
  <1>1. /\ disp' = [disp EXCEPT ![w].pc = "sent"]
        /\ reqs' = Append(reqs, [sub |-> s, no |-> n, state |-> "new", by |-> None])
        /\ UNCHANGED <<sub, task, att, ress>>
    BY <1>0 DEF Publish, Request, db
  <1>2. [sub |-> s, no |-> n, state |-> "new", by |-> None] \in RequestEvent
    BY <1>0 DEF RequestEvent, ReqStates
  <1>3. /\ KeepsRequests
        /\ \E i \in DOMAIN reqs' : reqs'[i] = [sub |-> s, no |-> n, state |-> "new", by |-> None]
    BY <1>1, <1>2, <1>t, AppendKeepsRequests
  <1>4. Tracked(s, n)'
    BY <1>3 DEF Tracked, Requested, WaitingRequest
  <1>5. /\ disp'[w].pc = "sent" /\ disp'[w].todo = disp[w].todo
        /\ disp'[w].cur = s /\ disp'[w].no = n
    BY <1>0, <1>1, <1>t DEF Dispatcher
  <1>6. Diligent(w)'
    BY <1>0, <1>1, <1>t, <1>5 DEF Diligent
  <1>7. n = Len(att'[s]) /\ n > 0
    <2>1. n = Len(att[s]) /\ Len(att[s]) \in Nat /\ DOMAIN att[s] = 1 .. Len(att[s])
      BY <1>0, <1>t, AttemptRows DEF Diligent
    <2> QED
      BY <1>0, <1>1, <2>1
  <1>8. ASSUME NEW t \in Subs, Watched(t)' PROVE Covered(t)' \/ Watched(t)
    <2>1. CASE task[t].status = "dispatched"
      BY <2>1 DEF Watched
    <2>2. CASE task[t].status # "dispatched"
      <3>1. t = s /\ task[s].status = "dispatching"
        BY <1>1, <1>5, <1>8, <2>2 DEF Watched, JustSent, OneWorker
      <3>2. ~terminalStatus(att'[s][n].status)
        BY <1>0, <1>1, <1>t, <3>1 DEF Diligent
      <3>3. Tracked(s, Len(att[s]))'
        BY <1>4, <1>7 DEF Tracked, Requested, Answered
      <3> QED
        BY <1>7, <3>1, <3>2, <3>3 DEF Covered, terminalStatus
    <2> QED
      BY <2>1, <2>2
  <1> QED
    BY <1>1, <1>3, <1>6, <1>8, DispatcherKeepsTrace

\* An XADD that reports an error adds an entry or none, and loses none.
LEMMA PublishErrorKeepsTrace ==
    ASSUME TraceInv, TypeInv', OneWorker, NEW w \in Workers, PublishError(w)
    PROVE  TraceInv'
  <1>t. TypeInv /\ TypeOK /\ disp \in [Workers -> Dispatcher] /\ Diligent(w)
    BY DEF TraceInv, TypeInv, TypeOK
  <1>0. /\ disp[w].cur \in Subs /\ disp[w].no \in Nat /\ disp[w].pc = "publish"
        /\ disp' = [disp EXCEPT ![w].pc = "retry"]
        /\ UNCHANGED <<sub, task, att, ress>>
    BY <1>t DEF PublishError, TypeInv, DispatchersRefer, Dispatcher, db
  <1>1. KeepsRequests
    <2>1. Request(w) \in RequestEvent
      BY <1>0 DEF Request, RequestEvent, ReqStates
    <2>2. reqs' = reqs \/ reqs' = Append(reqs, Request(w))
      BY DEF PublishError
    <2> QED
      BY <1>t, <2>1, <2>2, AppendKeepsRequests, UnchangedKeeps
  <1>2. /\ disp'[w].pc = "retry" /\ disp'[w].todo = disp[w].todo
        /\ disp'[w].cur = disp[w].cur /\ disp'[w].no = disp[w].no
    BY <1>0, <1>t DEF Dispatcher
  <1>3. Diligent(w)'
    BY <1>0, <1>2, <1>t DEF Diligent
  <1>4. ASSUME NEW t \in Subs, Watched(t)' PROVE Watched(t)
    BY <1>0, <1>2, <1>4 DEF Watched, JustSent, OneWorker
  <1> QED
    BY <1>0, <1>1, <1>3, <1>4, DispatcherKeepsTrace

LEMMA RetryKeepsTrace ==
    ASSUME TraceInv, TypeInv', NEW w \in Workers, RetryJudgeTask(w)
    PROVE  TraceInv'
  <1>1. task \in [Subs -> TaskRow] /\ disp[w].cur \in Subs
    BY DEF TraceInv, TypeInv, TypeOK, DispatchersRefer, RetryJudgeTask
  <1>2. task' = task \/ task' = [task EXCEPT ![disp[w].cur] = Retried(disp[w].cur)]
    BY DEF RetryJudgeTask
  <1>3. NoNewDispatch
    BY <1>1, <1>2 DEF NoNewDispatch, Retried
  <1> QED
    BY <1>3, ExitKeepsTrace DEF RetryJudgeTask

\* The task whose request was just sent becomes dispatched: it was watched.
LEMMA DispatchedKeepsTrace ==
    ASSUME TraceInv, TypeInv', OneWorker, NEW w \in Workers, MarkJudgeTaskDispatched(w)
    PROVE  TraceInv'
  <1>t. /\ TypeInv /\ disp \in [Workers -> Dispatcher] /\ Diligent(w)
        /\ task \in [Subs -> TaskRow] /\ \A t \in Subs : task[t] \in TaskRow
    BY DEF TraceInv, TypeInv, TypeOK
  <1>0. PICK s \in Subs : s = disp[w].cur /\ disp[w].pc = "sent"
    BY <1>t DEF MarkJudgeTaskDispatched, TypeInv, DispatchersRefer
  <1>1. CASE task[s].status \in {"dispatching", "running", "done"}
    <2>1. /\ task' = [task EXCEPT ![s].status = IF @ = "dispatching" THEN "dispatched" ELSE @]
          /\ disp' = [disp EXCEPT ![w] =
                        IF disp[w].todo = {} THEN Idle
                        ELSE [Idle EXCEPT !.pc = "build", !.todo = disp[w].todo]]
          /\ UNCHANGED <<sub, att, reqs, ress>>
      BY <1>0, <1>1 DEF MarkJudgeTaskDispatched
    <2>2. /\ disp'[w].pc \in {"idle", "build"} /\ disp'[w].todo = disp[w].todo /\ disp'[w].cur = None
      BY <1>t, <2>1 DEF Idle
    <2>3. /\ \A t \in Subs : t # s => task'[t] = task[t]
          /\ task'[s].status = "dispatched" => task[s].status = "dispatching"
      BY <1>1, <1>t, <2>1 DEF TaskRow
    <2>4. disp[w].todo \in SUBSET Subs
      BY <1>t DEF Dispatcher
    <2>5. Diligent(w)'
      BY <1>0, <1>t, <2>2, <2>3, <2>4, ConstantAssumption DEF Diligent
    <2>6. ASSUME NEW t \in Subs, Watched(t)' PROVE Watched(t)
      <3>1. task'[t].status = "dispatched"
        BY <2>2, <2>6 DEF Watched, JustSent, OneWorker
      <3>2. CASE t = s
        BY <1>0, <2>3, <3>1, <3>2 DEF Watched, JustSent
      <3>3. CASE t # s
        BY <2>3, <3>1, <3>3 DEF Watched
      <3> QED
        BY <3>2, <3>3
    <2> QED
      BY <2>1, <2>5, <2>6, UnchangedKeeps, DispatcherKeepsTrace
  <1>2. CASE task[s].status \notin {"dispatching", "running", "done"}
    BY <1>0, <1>2, ExitKeepsTrace DEF MarkJudgeTaskDispatched, NoNewDispatch
  <1> QED
    BY <1>1, <1>2

LEMMA TraceInit == Init => TraceInv
  <1> SUFFICES ASSUME Init PROVE TraceInv
    OBVIOUS
  <1>1. \A s \in Subs : ~Watched(s)
    BY DEF Init, Watched
  <1>2. \A w \in Workers : Diligent(w)
    BY DEF Init, Diligent, Idle
  <1> QED
    BY <1>1, <1>2, TypeInvInit DEF TraceInv

LEMMA TraceStep ==
    ASSUME TraceInv, [Next]_vars, OneWorker
    PROVE  TraceInv'
  <1>t. TypeInv'
    BY TypeInvStep DEF TraceInv
  <1>0. ASSUME UNCHANGED <<sub, task, att, reqs, ress, disp>> PROVE TraceInv'
    <2>1. \A s \in Subs : \A n : Tracked(s, n) => Tracked(s, n)'
      BY <1>0, UnchangedKeeps, TrackedStays
    <2> QED
      BY <1>0, <1>t, <2>1, CalmKeepsTrace DEF NoNewDispatch
  <1>w. ASSUME NEW w \in Workers, EnsureWaits(w) \/ CompleteWaits(w) PROVE TraceInv'
    BY <1>w, <1>0, WaitingChangesNothing
  <1>1. ASSUME NEW s \in Subs, CreateSubmission(s) \/ ResetAbandoned(s) \/ ResetStalled(s)
        PROVE  TraceInv'
    BY <1>1, <1>t, RowsKeepTrace DEF ResetAbandoned, ResetStalled
  <1>2. ASSUME NEW b \in Batches, CreateRejudgeBatch(b) \/ CancelRejudgeBatch(b) PROVE TraceInv'
    BY <1>2, <1>t, RowsKeepTrace
  <1>3. ASSUME NEW w \in Workers, BuildFails(w) \/ WorkerCrash(w) \/ EnsureFails(w) PROVE TraceInv'
    BY <1>3, <1>t, ExitKeepsTrace DEF BuildFails, WorkerCrash, EnsureFails, db, NoNewDispatch
  <1>4. ASSUME NEW w \in Workers, DispatchStep(w) PROVE TraceInv'
    BY <1>3, <1>4, <1>t, <1>w, ClaimKeepsTrace, ReadKeepsTrace, RunningKeepsTrace, EnsureKeepsTrace,
       PublishKeepsTrace, RetryKeepsTrace, DispatchedKeepsTrace
    DEF DispatchStep
  <1>5. ASSUME NEW w \in Workers, ResultStep(w) PROVE TraceInv'
    BY <1>5, <1>t, <1>w, ConsumerKeepsTrace, CompleteKeepsTrace DEF ResultStep
  <1>6. ASSUME NEW w \in Workers, PublishError(w) PROVE TraceInv'
    BY <1>6, <1>t, PublishErrorKeepsTrace
  <1>7. ASSUME NEW a \in Agents, AgentStep(a) \/ AgentFails(a) \/ AgentCrash(a) PROVE TraceInv'
    BY <1>7, <1>t, AgentKeepsTrace
  <1>8. CASE UNCHANGED vars
    BY <1>0, <1>8 DEF vars
  <1> QED
    BY <1>1, <1>2, <1>3, <1>4, <1>5, <1>6, <1>7, <1>8 DEF Next

\* A dispatched task is never simply forgotten: as long as its submission
\* waits, the request or the result of its latest attempt is on a stream, in a
\* pending list or among the dead letters, whatever crashes, publish errors,
\* resets, late results and rejudges happen.  It takes a single worker process:
\* the dispatchers of two may mark a task dispatched that the other one reset.
THEOREM DispatchedNeverForgotten == OneWorker => (Spec => []DispatchedIsTraceable)
  <1> SUFFICES ASSUME OneWorker PROVE Spec => []DispatchedIsTraceable
    OBVIOUS
  <1>1. TraceInv /\ [Next]_vars => TraceInv'
    BY TraceStep
  <1>2. TraceInv => DispatchedIsTraceable
    <2> SUFFICES ASSUME TraceInv, NEW s \in Subs, task[s].status = "dispatched", ~terminalStatus(sub[s])
                 PROVE  Len(att[s]) > 0 /\ (InFlight(s, Len(att[s])) \/ Stranded(s, Len(att[s])))
      BY DEF DispatchedIsTraceable
    <2>1. Len(att[s]) > 0 /\ Tracked(s, Len(att[s]))
      BY DEF TraceInv, Watched, Covered
    <2> QED
      BY <2>1 DEF Tracked, Requested, Answered, WaitingRequest, WaitingResult, InFlight, Stranded
  <1> QED
    BY <1>1, <1>2, TraceInit, PTL DEF Spec

=============================================================================
