------------------------ MODULE JudgePipelineProofs ------------------------
(***************************************************************************)
(* Machine-checked theorems about JudgePipeline, for every number of       *)
(* submissions, workers, agents and batches and every value of the limits. *)
(*                                                                         *)
(* TypeInv (types, and events that refer to attempts that exist) is proved *)
(* inductive first; the invariants of the attempt history follow from it.  *)
(***************************************************************************)
EXTENDS JudgePipeline, FiniteSetTheorems, SequenceTheorems, TLAPS

\* The statements an action is made of are read as what they write.
USE DEF InsertSubmission, CreateJudgeTask, ListEligibleProblemSubmissionsForRejudge, InsertRejudgeBatch,
        CreateRejudgeBatchItem, PrepareSubmissionForRejudge, CancelQueuedRejudgeBatchItems,
        CancelPendingJudgeTaskForRejudge, RestoreSubmissionAfterCanceledRejudge,
        GetLatestJudgeAttemptBySubmissionID, GetQueuedRejudgeBatchItemByTaskID,
        CreateJudgeAttempt, UpdateSubmissionStatus, MarkJudgeAttemptFinished, finishJudgeAttempt

TypeInv == TypeOK /\ DispatchersRefer /\ EventsRefer

-----------------------------------------------------------------------------
(* Sequences                                                               *)

\* A function on an initial segment of the naturals is a sequence.
LEMMA FunctionIsSeq ==
    ASSUME NEW S, NEW n \in Nat, NEW f \in [1 .. n -> S]
    PROVE  f \in Seq(S) /\ Len(f) = n /\ DOMAIN f = 1 .. n
  <1>1. f \in Seq(S)
    BY SeqDef
  <1> QED
    BY <1>1, LenProperties

\* Rewriting entries of a stream in place keeps its length and its typing.
LEMMA RewriteSeq ==
    ASSUME NEW S, NEW q \in Seq(S), NEW f, DOMAIN f = DOMAIN q,
           f = [i \in DOMAIN q |-> f[i]], \A i \in DOMAIN q : f[i] \in S
    PROVE  f \in Seq(S) /\ DOMAIN f = DOMAIN q
  <1>1. Len(q) \in Nat /\ DOMAIN q = 1 .. Len(q)
    BY LenProperties
  <1>2. f \in [1 .. Len(q) -> S]
    BY <1>1
  <1> QED
    BY <1>1, <1>2, FunctionIsSeq

-----------------------------------------------------------------------------
(* Helpers of the specification                                            *)

\* What a step that moves a dispatcher or closes a task leaves typed.
LEMMA DispatcherMoves ==
    ASSUME disp \in [Workers -> Dispatcher], NEW w \in Workers,
           NEW pc \in {"idle", "build", "mark", "ensure", "publish", "retry", "sent"}
    PROVE  [disp EXCEPT ![w].pc = pc] \in [Workers -> Dispatcher]
  <1>1. [disp[w] EXCEPT !.pc = pc] \in Dispatcher
    BY DEF Dispatcher
  <1> QED
    BY <1>1

LEMMA TaskMoves ==
    ASSUME task \in [Subs -> TaskRow], NEW s \in Subs, NEW st \in TaskStatuses
    PROVE  [task[s] EXCEPT !.status = st] \in TaskRow
  BY DEF TaskRow

\* Counting items gives a natural number, there being finitely many submissions,
\* and leaving some of them out never gives a larger one.
LEMMA ItemCounts ==
    ASSUME NEW items, NEW b, NEW status, NEW missed
    PROVE  /\ Cardinality(ItemsWith(items, b, status)) \in Nat
           /\ Cardinality(ItemsWith(items, b, status) \ missed) \in Nat
           /\ Cardinality(ItemsWith(items, b, status) \ missed)
                 <= Cardinality(ItemsWith(items, b, status))
  <1>1. ItemsWith(items, b, status) \in SUBSET Subs
    BY DEF ItemsWith
  <1>2. IsFiniteSet(ItemsWith(items, b, status))
    BY <1>1, ConstantAssumption, FS_Subset
  <1>3. ItemsWith(items, b, status) \ missed \in SUBSET ItemsWith(items, b, status)
    OBVIOUS
  <1> QED
    BY <1>2, <1>3, FS_Subset, FS_CardinalityType

\* Open transactions stay well-formed when one ends, begins to wait or is
\* overtaken.
LEMMA WaitType ==
    ASSUME TypeOK, NEW w \in Workers, NEW l \in Loops, NEW t \in Refresh
    PROVE  [wait EXCEPT ![w][l] = t] \in [Workers -> [Loops -> Refresh]]
  <1>1. [wait[w] EXCEPT ![l] = t] \in [Loops -> Refresh]
    BY DEF TypeOK
  <1> QED
    BY <1>1 DEF TypeOK

LEMMA NotWaitingType == NotWaiting \in Refresh
  BY DEF NotWaiting, Refresh

LEMMA OvertakenType ==
    ASSUME TypeOK, NEW items
    PROVE  Overtaken(items) \in [Workers -> [Loops -> Refresh]]
  <1> DEFINE over(t) == IF t.of = None THEN t
                        ELSE [t EXCEPT !.missed = @ \cup (ActiveItems(item, t.of) \ ActiveItems(items, t.of))]
  <1>1. \A t \in Refresh : over(t) \in Refresh
    BY DEF Refresh, ActiveItems
  <1>2. Overtaken(items) = [w \in Workers |-> [l \in Loops |-> over(wait[w][l])]]
    BY DEF Overtaken
  <1> HIDE DEF over
  <1> QED
    BY <1>1, <1>2 DEF TypeOK

\* The settling transaction of loop l is over and the others are overtaken.
LEMMA SettledType ==
    ASSUME TypeOK, NEW w \in Workers, NEW l \in Loops, NEW items
    PROVE  [Overtaken(items) EXCEPT ![w][l] = NotWaiting] \in [Workers -> [Loops -> Refresh]]
  <1>1. Overtaken(items) \in [Workers -> [Loops -> Refresh]]
    BY OvertakenType
  <1>2. [Overtaken(items)[w] EXCEPT ![l] = NotWaiting] \in [Loops -> Refresh]
    BY <1>1, NotWaitingType
  <1> QED
    BY <1>1, <1>2

\* A refresh that starts to wait changes nothing but that.
LEMMA AwaitType ==
    ASSUME TypeOK, NEW w \in Workers, NEW l \in Loops, NEW s \in Subs, NEW b \in Batches,
           AwaitBatchRow(w, l, s, b)
    PROVE  /\ wait' \in [Workers -> [Loops -> Refresh]]
           /\ UNCHANGED <<db, reqs, ress, disp, proc, faults>>
  <1>1. [of |-> b, sub |-> s, missed |-> {}] \in Refresh
    BY DEF Refresh
  <1>2. wait' = [wait EXCEPT ![w][l] = [of |-> b, sub |-> s, missed |-> {}]]
    BY DEF AwaitBatchRow
  <1> QED
    BY <1>1, <1>2, WaitType DEF AwaitBatchRow, db

\* RefreshRejudgeBatchProgress writes a well-formed batch row, creates no batch
\* and touches no other one.
LEMMA RefreshType ==
    ASSUME TypeOK, NEW b \in Batches, NEW items, NEW missed
    PROVE  /\ RefreshRejudgeBatchProgress(b, items, missed) \in [Batches -> BatchRow]
           /\ \A c \in Batches :
                 RefreshRejudgeBatchProgress(b, items, missed)[c].status = "none"
                    <=> batch[c].status = "none"
  <1> DEFINE completed == Cardinality(ItemsWith(items, b, "completed") \ missed)
             failed == Cardinality(ItemsWith(items, b, "failed") \ missed)
             canceled == Cardinality(ItemsWith(items, b, "canceled") \ missed)
  <1>1. completed \in Nat /\ failed \in Nat /\ canceled \in Nat
    BY ItemCounts
  <1>2. batch \in [Batches -> BatchRow]
    BY DEF TypeOK
  <1>3. PICK st \in {"canceled", "running", "failed", "completed"} :
           RefreshRejudgeBatchProgress(b, items, missed) =
              IF batch[b].status \notin {"queued", "running", "canceled"} THEN batch
              ELSE [batch EXCEPT ![b] = [status |-> st, completed |-> completed,
                                         failed |-> failed, canceled |-> canceled]]
    BY DEF RefreshRejudgeBatchProgress
  <1> HIDE DEF completed, failed, canceled
  <1>4. [status |-> st, completed |-> completed, failed |-> failed, canceled |-> canceled]
           \in BatchRow
    BY <1>1 DEF BatchRow, BatchStatuses
  <1> QED
    BY <1>2, <1>3, <1>4 DEF BatchRow, BatchStatuses

\* Abandoning a consumer's entries changes neither what they carry nor their number.
LEMMA AbandonReqs ==
    ASSUME TypeOK, NEW a \in Agents
    PROVE  /\ Abandon(reqs, a) \in Seq(RequestEvent)
           /\ DOMAIN Abandon(reqs, a) = DOMAIN reqs
           /\ \A i \in DOMAIN reqs : /\ Abandon(reqs, a)[i].sub = reqs[i].sub
                                     /\ Abandon(reqs, a)[i].no = reqs[i].no
  <1>1. reqs \in Seq(RequestEvent)
    BY DEF TypeOK
  <1>2. \A i \in DOMAIN reqs : reqs[i] \in RequestEvent
    BY <1>1, ElementOfSeq, LenProperties
  <1>3. \A i \in DOMAIN reqs : /\ Abandon(reqs, a)[i] \in RequestEvent
                               /\ Abandon(reqs, a)[i].sub = reqs[i].sub
                               /\ Abandon(reqs, a)[i].no = reqs[i].no
    BY <1>2 DEF Abandon, RequestEvent, ReqStates
  <1> QED
    BY <1>1, <1>3, RewriteSeq DEF Abandon

LEMMA AbandonRess ==
    ASSUME TypeOK, NEW w \in Workers
    PROVE  /\ Abandon(ress, w) \in Seq(ResultEvent)
           /\ DOMAIN Abandon(ress, w) = DOMAIN ress
           /\ \A i \in DOMAIN ress : /\ Abandon(ress, w)[i].sub = ress[i].sub
                                     /\ Abandon(ress, w)[i].no = ress[i].no
  <1>1. ress \in Seq(ResultEvent)
    BY DEF TypeOK
  <1>2. \A i \in DOMAIN ress : ress[i] \in ResultEvent
    BY <1>1, ElementOfSeq, LenProperties
  <1>3. \A i \in DOMAIN ress : /\ Abandon(ress, w)[i] \in ResultEvent
                               /\ Abandon(ress, w)[i].sub = ress[i].sub
                               /\ Abandon(ress, w)[i].no = ress[i].no
    BY <1>2 DEF Abandon, ResultEvent, ResStates
  <1> QED
    BY <1>1, <1>3, RewriteSeq DEF Abandon

LEMMA FinishItemType ==
    ASSUME TypeOK, NEW s \in Subs, NEW no
    PROVE  /\ FinishRejudgeBatchItem(s, no) \in [Batches -> [Subs -> ItemRow]]
           /\ \A b \in Batches, t \in Subs :
                 item[b][t].status = "none" => FinishRejudgeBatchItem(s, no)[b][t].status = "none"
  BY DEF TypeOK, FinishRejudgeBatchItem, RunningItems, ItemRow, ItemStatuses

\* Every attempt of a submission is a row of the attempts table.
LEMMA AttemptRows ==
    ASSUME TypeOK, NEW s \in Subs
    PROVE  /\ Len(att[s]) \in Nat /\ DOMAIN att[s] = 1 .. Len(att[s])
           /\ \A n \in DOMAIN att[s] : att[s][n] \in AttemptRow
  <1>1. att[s] \in Seq(AttemptRow)
    BY DEF TypeOK
  <1> QED
    BY <1>1, ElementOfSeq, LenProperties

\* Every event on a stream is one of its events.
LEMMA EventSubjects ==
    ASSUME TypeOK
    PROVE  /\ \A i \in DOMAIN reqs : reqs[i] \in RequestEvent /\ reqs[i].sub \in Subs
           /\ \A i \in DOMAIN ress : ress[i] \in ResultEvent /\ ress[i].sub \in Subs
  <1>1. reqs \in Seq(RequestEvent) /\ ress \in Seq(ResultEvent)
    BY DEF TypeOK
  <1>2. \A i \in DOMAIN reqs : reqs[i] \in RequestEvent
    BY <1>1, ElementOfSeq, LenProperties
  <1>3. \A i \in DOMAIN ress : ress[i] \in ResultEvent
    BY <1>1, ElementOfSeq, LenProperties
  <1> QED
    BY <1>2, <1>3 DEF RequestEvent, ResultEvent

\* What a worker that exits leaves behind.
LEMMA ExitEffect ==
    ASSUME TypeOK, NEW w \in Workers, Exit(w)
    PROVE  /\ disp' \in [Workers -> Dispatcher]
           /\ proc' \in [Workers -> Processor]
           /\ wait' \in [Workers -> [Loops -> Refresh]]
           /\ ress' \in Seq(ResultEvent)
           /\ DOMAIN ress' = DOMAIN ress
           /\ \A i \in DOMAIN ress : ress'[i].sub = ress[i].sub /\ ress'[i].no = ress[i].no
           /\ \A x \in Workers : disp'[x] = IF x = w THEN Idle ELSE disp[x]
  <1>1. Idle \in Dispatcher /\ NoMessage \in Processor
    BY DEF Idle, NoMessage, Dispatcher, Processor, SubStatuses
  <1>2. disp' \in [Workers -> Dispatcher] /\ proc' \in [Workers -> Processor]
    BY <1>1 DEF TypeOK, Exit
  <1>3. \A x \in Workers : disp'[x] = IF x = w THEN Idle ELSE disp[x]
    BY DEF TypeOK, Exit
  <1>4. wait' \in [Workers -> [Loops -> Refresh]]
    BY NotWaitingType DEF TypeOK, Exit
  <1> QED
    BY <1>2, <1>3, <1>4, AbandonRess DEF Exit

\* As long as no attempt disappears, whatever referred to one still does.
LEMMA RefersPreserved ==
    ASSUME TypeInv, NEW w \in Workers, Exit(w), UNCHANGED <<att, reqs>>
    PROVE  DispatchersRefer' /\ EventsRefer'
  <1>1. DispatchersRefer'
    BY ExitEffect DEF TypeInv, DispatchersRefer, Idle
  <1>2. EventsRefer'
    BY ExitEffect DEF TypeInv, EventsRefer
  <1> QED
    BY <1>1, <1>2

-----------------------------------------------------------------------------
(* TypeInv is preserved by every action                                    *)

LEMMA TypeInvInit == Init => TypeInv
  <1> SUFFICES ASSUME Init PROVE TypeInv
    OBVIOUS
  <1>1. TypeOK
    <2>1. Idle \in Dispatcher /\ NoMessage \in Processor
      BY DEF Idle, NoMessage, Dispatcher, Processor, SubStatuses
    <2> QED
      BY <2>1, NotWaitingType DEF Init, TypeOK, SubStatuses, TaskRow, TaskStatuses, NoResult, ResultRow,
                  NoBatch, BatchRow, BatchStatuses, NoItem, ItemRow, ItemStatuses
  <1>2. DispatchersRefer /\ EventsRefer
    BY DEF Init, DispatchersRefer, EventsRefer, Idle
  <1> QED
    BY <1>1, <1>2 DEF TypeInv

LEMMA CreateSubmissionType ==
    ASSUME TypeInv, NEW s \in Subs, CreateSubmission(s)
    PROVE  TypeInv'
  <1>1. sub' \in [Subs -> SubStatuses]
    BY DEF TypeInv, TypeOK, CreateSubmission, SubStatuses, OpenStatuses
  <1>2. task' \in [Subs -> TaskRow]
    BY DEF TypeInv, TypeOK, CreateSubmission, TaskRow, TaskStatuses
  <1> QED
    BY <1>1, <1>2 DEF TypeInv, TypeOK, CreateSubmission, DispatchersRefer, EventsRefer, mem

LEMMA CreateRejudgeBatchType ==
    ASSUME TypeInv, NEW b \in Batches, CreateRejudgeBatch(b)
    PROVE  TypeInv'
  <1>1. sub' \in [Subs -> SubStatuses]
    BY DEF TypeInv, TypeOK, CreateRejudgeBatch, SubStatuses, OpenStatuses
  <1>2. task' \in [Subs -> TaskRow]
    BY DEF TypeInv, TypeOK, CreateRejudgeBatch, PrepareJudgeTaskForRejudge, TaskRow, TaskStatuses
  <1>3. batch' \in [Batches -> BatchRow]
    BY DEF TypeInv, TypeOK, CreateRejudgeBatch, BatchRow, BatchStatuses
  <1>4. item' \in [Batches -> [Subs -> ItemRow]]
    BY DEF TypeInv, TypeOK, CreateRejudgeBatch, ItemRow, ItemStatuses
  <1> QED
    BY <1>1, <1>2, <1>3, <1>4
    DEF TypeInv, TypeOK, CreateRejudgeBatch, DispatchersRefer, EventsRefer, mem

LEMMA CancelRejudgeBatchType ==
    ASSUME TypeInv, NEW b \in Batches, CancelRejudgeBatch(b)
    PROVE  TypeInv'
  <1>1. sub' \in [Subs -> SubStatuses]
    BY DEF TypeInv, TypeOK, CancelRejudgeBatch, SubStatuses, ResultRow
  <1>2. task' \in [Subs -> TaskRow]
    <2>1. \A s \in Subs : [task[s] EXCEPT !.status = "done"] \in TaskRow /\ task[s] \in TaskRow
      BY TaskMoves DEF TypeInv, TypeOK, TaskStatuses
    <2> QED
      BY <2>1 DEF CancelRejudgeBatch
  <1>3. batch' \in [Batches -> BatchRow]
    <2>0. batch[b] \in BatchRow /\ batch[b].canceled \in Nat
      BY DEF TypeInv, TypeOK, BatchRow
    <2>1. \A n \in Nat : CanceledBatch(b, n) \in BatchRow
      <3> TAKE n \in Nat
      <3>1. batch[b].canceled + n \in Nat
        BY <2>0
      <3> DEFINE m == batch[b].canceled + n
      <3>2. CanceledBatch(b, n) = [[batch[b] EXCEPT !.status = "canceled"] EXCEPT !.canceled = m]
        BY <2>0 DEF CanceledBatch, BatchRow
      <3> QED
        BY <2>0, <3>1, <3>2 DEF BatchRow, BatchStatuses
    <2>2. CanceledBatch(b, Cardinality(ItemsWith(item, b, "queued"))) \in BatchRow
      BY <2>1, ItemCounts
    <2> QED
      BY <2>2 DEF TypeInv, TypeOK, CancelRejudgeBatch
  <1>4. item' \in [Batches -> [Subs -> ItemRow]]
    <2> DEFINE row(s) == IF s \in ItemsWith(item, b, "queued")
                         THEN [item[b][s] EXCEPT !.status = "canceled"] ELSE item[b][s]
    <2>1. item' = [item EXCEPT ![b] = [s \in Subs |-> row(s)]]
      BY DEF TypeInv, TypeOK, CancelRejudgeBatch
    <2>2. \A s \in Subs : item[b][s] \in ItemRow
      BY DEF TypeInv, TypeOK
    <2>3. \A r \in ItemRow : [r EXCEPT !.status = "canceled"] \in ItemRow
      BY DEF ItemRow, ItemStatuses
    <2>4. \A s \in Subs : row(s) \in ItemRow
      BY <2>2, <2>3
    <2> HIDE DEF row
    <2> QED
      BY <2>1, <2>4 DEF TypeInv, TypeOK
  <1>5. wait' \in [Workers -> [Loops -> Refresh]]
    BY OvertakenType DEF TypeInv, CancelRejudgeBatch
  <1> QED
    BY <1>1, <1>2, <1>3, <1>4, <1>5
    DEF TypeInv, TypeOK, CancelRejudgeBatch, DispatchersRefer, EventsRefer

LEMMA ResetStaleJudgeTaskType ==
    ASSUME TypeInv, NEW s \in Subs, ResetStaleJudgeTask(s),
           faults' \in Nat
    PROVE  TypeInv'
  <1>1. sub' \in [Subs -> SubStatuses]
    BY DEF TypeInv, TypeOK, ResetStaleJudgeTask, SubStatuses, OpenStatuses
  <1>2. task' \in [Subs -> TaskRow]
    BY DEF TypeInv, TypeOK, ResetStaleJudgeTask, TaskRow, TaskStatuses
  <1> QED
    BY <1>1, <1>2 DEF TypeInv, TypeOK, ResetStaleJudgeTask, DispatchersRefer, EventsRefer, mem

\* A step that only kills a worker.
LEMMA ExitType ==
    ASSUME TypeInv, NEW w \in Workers, Exit(w),
           UNCHANGED <<db, reqs>>, faults' \in Nat
    PROVE  TypeInv'
  BY ExitEffect, RefersPreserved DEF TypeInv, TypeOK, db

LEMMA FaultCounted ==
    ASSUME TypeOK, NEW kind, Fault(kind)
    PROVE  faults' \in Nat
  BY DEF TypeOK, Fault

LEMMA ClaimPendingType ==
    ASSUME TypeInv, NEW w \in Workers, ClaimPendingJudgeTasks(w)
    PROVE  TypeInv'
  <1>1. PICK T \in SUBSET Subs :
           /\ task' = [s \in Subs |->
                 IF s \in T THEN [task[s] EXCEPT !.status = "dispatching"] ELSE task[s]]
           /\ disp' = [disp EXCEPT ![w] = [Idle EXCEPT !.pc = "build", !.todo = T]]
    BY DEF ClaimPendingJudgeTasks
  <1>2. task' \in [Subs -> TaskRow]
    BY <1>1 DEF TypeInv, TypeOK, TaskRow, TaskStatuses
  <1>3. [Idle EXCEPT !.pc = "build", !.todo = T] \in Dispatcher
    BY <1>1 DEF Idle, Dispatcher
  <1>4. disp' \in [Workers -> Dispatcher]
    BY <1>1, <1>3 DEF TypeInv, TypeOK
  <1>5. DispatchersRefer'
    <2>1. \A x \in Workers : x # w => disp'[x] = disp[x]
      BY <1>1 DEF TypeInv, TypeOK
    <2>2. disp'[w].pc = "build"
      BY <1>1 DEF TypeInv, TypeOK, Idle
    <2> QED
      BY <2>1, <2>2 DEF TypeInv, DispatchersRefer, ClaimPendingJudgeTasks
  <1> QED
    BY <1>2, <1>4, <1>5 DEF TypeInv, TypeOK, ClaimPendingJudgeTasks, EventsRefer

LEMMA ReadSubmissionType ==
    ASSUME TypeInv, NEW w \in Workers, ReadSubmission(w)
    PROVE  TypeInv'
  <1>1. PICK s \in disp[w].todo, pc \in {"mark", "ensure"} :
           disp' = [disp EXCEPT ![w] =
                      [pc |-> pc, todo |-> disp[w].todo \ {s}, cur |-> s, no |-> 0]]
    BY DEF ReadSubmission
  <1>2. s \in Subs
    BY DEF TypeInv, TypeOK, Dispatcher
  <1>3. disp' \in [Workers -> Dispatcher]
    BY <1>1, <1>2 DEF TypeInv, TypeOK, Dispatcher
  <1>4. /\ disp'[w].pc \in {"mark", "ensure"} /\ disp'[w].cur \in Subs
        /\ \A x \in Workers : x # w => disp'[x] = disp[x]
    BY <1>1, <1>2 DEF TypeInv, TypeOK
  <1>5. DispatchersRefer'
    BY <1>4 DEF TypeInv, DispatchersRefer, ReadSubmission, db
  <1> QED
    BY <1>3, <1>5 DEF TypeInv, TypeOK, ReadSubmission, EventsRefer, db

LEMMA MarkSubmissionRunningType ==
    ASSUME TypeInv, NEW w \in Workers, MarkSubmissionRunning(w)
    PROVE  TypeInv'
  <1>1. CASE sub[disp[w].cur] = "queued"
    <2>1. disp' = [disp EXCEPT ![w].pc = "ensure"]
      BY <1>1 DEF MarkSubmissionRunning
    <2>2. sub' \in [Subs -> SubStatuses]
      <3>1. sub' = [sub EXCEPT ![disp[w].cur] = "running"] /\ "running" \in SubStatuses
        BY <1>1 DEF MarkSubmissionRunning, SubStatuses, OpenStatuses
      <3> QED
        BY <3>1 DEF TypeInv, TypeOK
    <2>3. disp' \in [Workers -> Dispatcher]
      BY <2>1, DispatcherMoves DEF TypeInv, TypeOK
    <2>4. /\ disp'[w].pc = "ensure" /\ disp'[w].cur = disp[w].cur
          /\ \A x \in Workers : x # w => disp'[x] = disp[x]
      BY <2>1 DEF TypeInv, TypeOK, Dispatcher
    <2>5. DispatchersRefer'
      BY <2>4 DEF TypeInv, DispatchersRefer, MarkSubmissionRunning
    <2> QED
      BY <1>1, <2>2, <2>3, <2>5 DEF TypeInv, TypeOK, MarkSubmissionRunning, EventsRefer
  <1>2. CASE sub[disp[w].cur] # "queued"
    BY <1>2, ExitType DEF MarkSubmissionRunning, TypeInv, TypeOK, db
  <1> QED
    BY <1>1, <1>2

\* A new attempt is one more row; no earlier one goes away.
LEMMA AppendAttempt ==
    ASSUME TypeOK, NEW s \in Subs, NEW row \in AttemptRow,
           att' = [att EXCEPT ![s] = Append(@, row)]
    PROVE  /\ att' \in [Subs -> Seq(AttemptRow)]
           /\ DOMAIN att'[s] = 1 .. Len(att[s]) + 1
           /\ Len(att'[s]) = Len(att[s]) + 1
           /\ att'[s][Len(att[s]) + 1] = row
           /\ \A t \in Subs : \A n \in DOMAIN att[t] :
                 n \in DOMAIN att'[t] /\ att'[t][n] = att[t][n]
           /\ \A t \in Subs : t # s => att'[t] = att[t]
  <1>1. att[s] \in Seq(AttemptRow) /\ att'[s] = Append(att[s], row)
    BY DEF TypeOK
  <1>2. /\ Append(att[s], row) \in Seq(AttemptRow)
        /\ Len(Append(att[s], row)) = Len(att[s]) + 1
        /\ \A i \in 1 .. Len(att[s]) : Append(att[s], row)[i] = att[s][i]
        /\ Append(att[s], row)[Len(att[s]) + 1] = row
    BY <1>1, AppendProperties
  <1>3. Len(att[s]) \in Nat /\ DOMAIN att[s] = 1 .. Len(att[s])
    BY <1>1, LenProperties
  <1>4. DOMAIN att'[s] = 1 .. Len(att[s]) + 1
    BY <1>1, <1>2, LenProperties
  <1>5. att' \in [Subs -> Seq(AttemptRow)]
    BY <1>1, <1>2 DEF TypeOK
  <1> QED
    BY <1>1, <1>2, <1>3, <1>4, <1>5 DEF TypeOK

LEMMA StartItemType ==
    ASSUME TypeOK, NEW s \in Subs, NEW no \in Nat
    PROVE  /\ StartRejudgeBatchItem(s, no) \in [Batches -> [Subs -> ItemRow]]
           /\ \A b \in Batches, t \in Subs :
                 item[b][t].status = "none" => StartRejudgeBatchItem(s, no)[b][t].status = "none"
  BY DEF TypeOK, StartRejudgeBatchItem, ItemRow, ItemStatuses

\* The two branches of EnsureJudgeAttempt.
LEMMA EnsureEffect ==
    ASSUME TypeInv, NEW w \in Workers, EnsureJudgeAttempt(w)
    PROVE  /\ disp[w].cur \in Subs
           /\ \/ /\ Reusable(disp[w].cur)
                 /\ disp' = [disp EXCEPT ![w].pc = "publish", ![w].no = Len(att[disp[w].cur])]
                 /\ item' = StartRejudgeBatchItem(disp[w].cur, Len(att[disp[w].cur]))
                 /\ UNCHANGED <<att, batch>>
              \/ /\ ~Reusable(disp[w].cur)
                 /\ disp' = [disp EXCEPT ![w].pc = "publish", ![w].no = Len(att[disp[w].cur]) + 1]
                 /\ item' = StartRejudgeBatchItem(disp[w].cur, Len(att[disp[w].cur]) + 1)
                 /\ \E b \in Batches \cup {None} :
                       /\ att' = [att EXCEPT ![disp[w].cur] =
                                    Append(@, [status |-> "created", batch |-> b])]
                       /\ IF b = None THEN UNCHANGED batch
                          ELSE batch' = RefreshRejudgeBatchProgress(b,
                                  StartRejudgeBatchItem(disp[w].cur, Len(att[disp[w].cur]) + 1),
                                  wait[w]["dispatch"].missed)
  <1>1. disp[w].cur \in Subs
    BY DEF EnsureJudgeAttempt, TypeInv, DispatchersRefer
  <1> QED
    BY <1>1, ConstantAssumption DEF EnsureJudgeAttempt

LEMMA EnsureJudgeAttemptType ==
    ASSUME TypeInv, NEW w \in Workers, EnsureJudgeAttempt(w)
    PROVE  TypeInv'
  <1> DEFINE s == disp[w].cur
  <1>1. /\ s \in Subs /\ Len(att[s]) \in Nat /\ DOMAIN att[s] = 1 .. Len(att[s])
        /\ att[s] \in Seq(AttemptRow)
    BY EnsureEffect, LenProperties DEF TypeInv, TypeOK
  <1> DEFINE n == IF Reusable(s) THEN Len(att[s]) ELSE Len(att[s]) + 1
  <1>2. disp' = [disp EXCEPT ![w].pc = "publish", ![w].no = n] /\ item' = StartRejudgeBatchItem(s, n)
    BY EnsureEffect
  <1>n. n \in Nat
    BY <1>1
  <1>u. Reusable(s) => UNCHANGED <<att, batch>>
    BY EnsureEffect
  <1>c. ~Reusable(s) =>
          \E b \in Batches \cup {None} :
             /\ att' = [att EXCEPT ![s] = Append(@, [status |-> "created", batch |-> b])]
             /\ IF b = None THEN UNCHANGED batch
                ELSE batch' = RefreshRejudgeBatchProgress(b, StartRejudgeBatchItem(s, Len(att[s]) + 1),
                                                            wait[w]["dispatch"].missed)
    BY EnsureEffect
  <1> HIDE DEF n
  <1>3. /\ disp' \in [Workers -> Dispatcher]
        /\ disp'[w].pc = "publish" /\ disp'[w].cur = s /\ disp'[w].no = n
        /\ \A x \in Workers : x # w => disp'[x] = disp[x]
    <2>1. disp \in [Workers -> Dispatcher] /\ disp[w] \in Dispatcher
      BY DEF TypeInv, TypeOK
    <2>2. disp' = [disp EXCEPT ![w] = [disp[w] EXCEPT !.pc = "publish", !.no = n]]
      BY <1>2, <2>1
    <2> DEFINE d == [disp[w] EXCEPT !.pc = "publish", !.no = n]
    <2>3. d \in Dispatcher /\ d.pc = "publish" /\ d.cur = s /\ d.no = n
      BY <1>n, <2>1 DEF Dispatcher
    <2> HIDE DEF d
    <2> QED
      BY <2>1, <2>2, <2>3 DEF d
  <1> HIDE DEF s
  <1>4. item' \in [Batches -> [Subs -> ItemRow]]
    BY <1>1, <1>2, <1>n, StartItemType DEF TypeInv
  <1>5. /\ att' \in [Subs -> Seq(AttemptRow)]
        /\ batch' \in [Batches -> BatchRow]
        /\ n \in DOMAIN att'[s]
        /\ \A t \in Subs : DOMAIN att[t] \subseteq DOMAIN att'[t]
    <2>1. CASE Reusable(s)
      BY <2>1, <1>1, <1>u DEF TypeInv, TypeOK, Reusable, n
    <2>2. CASE ~Reusable(s)
      <3>1. n = Len(att[s]) + 1
        BY <2>2 DEF n
      <3>2. PICK b \in Batches \cup {None} :
               /\ att' = [att EXCEPT ![s] = Append(@, [status |-> "created", batch |-> b])]
               /\ IF b = None THEN UNCHANGED batch
                  ELSE batch' = RefreshRejudgeBatchProgress(b, StartRejudgeBatchItem(s, Len(att[s]) + 1),
                                                            wait[w]["dispatch"].missed)
        BY <2>2, <1>c
      <3>3. [status |-> "created", batch |-> b] \in AttemptRow
        BY DEF AttemptRow
      <3>4. batch' \in [Batches -> BatchRow]
        BY <3>2, RefreshType DEF TypeInv, TypeOK
      <3>5. /\ att' \in [Subs -> Seq(AttemptRow)]
            /\ DOMAIN att'[s] = 1 .. Len(att[s]) + 1
            /\ \A t \in Subs : \A k \in DOMAIN att[t] : k \in DOMAIN att'[t]
        BY <1>1, <3>2, <3>3, AppendAttempt DEF TypeInv
      <3> QED
        BY <1>1, <3>1, <3>4, <3>5
    <2> QED
      BY <2>1, <2>2
  <1>6. DispatchersRefer'
    BY <1>1, <1>3, <1>5 DEF TypeInv, TypeOK, DispatchersRefer, Dispatcher
  <1>7. EventsRefer'
    <2>1. UNCHANGED <<reqs, ress>>
      BY DEF EnsureJudgeAttempt
    <2>2. /\ \A i \in DOMAIN reqs : reqs[i].sub \in Subs
          /\ \A i \in DOMAIN ress : ress[i].sub \in Subs
      BY EventSubjects DEF TypeInv
    <2> QED
      BY <1>5, <2>1, <2>2 DEF TypeInv, EventsRefer
  <1>8. wait' \in [Workers -> [Loops -> Refresh]]
    BY WaitType, NotWaitingType DEF TypeInv, EnsureJudgeAttempt, Loops
  <1> QED
    BY <1>3, <1>4, <1>5, <1>6, <1>7, <1>8 DEF TypeInv, TypeOK, EnsureJudgeAttempt

\* The steps at which a refresh starts to wait.
LEMMA EnsureWaitsEffect ==
    ASSUME TypeInv, NEW w \in Workers, EnsureWaits(w)
    PROVE  TypeInv' /\ UNCHANGED <<db, reqs, ress, disp, proc, faults>>
  <1>1. PICK b \in Batches : AwaitBatchRow(w, "dispatch", disp[w].cur, b)
    BY DEF EnsureWaits
  <1>2. disp[w].cur \in Subs
    BY DEF EnsureWaits, TypeInv, DispatchersRefer
  <1>3. /\ wait' \in [Workers -> [Loops -> Refresh]]
        /\ UNCHANGED <<db, reqs, ress, disp, proc, faults>>
    BY <1>1, <1>2, AwaitType DEF TypeInv, Loops
  <1> QED
    BY <1>3 DEF TypeInv, TypeOK, DispatchersRefer, EventsRefer, db

LEMMA CompleteWaitsEffect ==
    ASSUME TypeInv, NEW w \in Workers, CompleteWaits(w)
    PROVE  TypeInv' /\ UNCHANGED <<db, reqs, ress, disp, proc, faults>>
  <1>1. PICK i \in DOMAIN ress, b \in Batches : AwaitBatchRow(w, "consume", ress[i].sub, b)
    BY DEF CompleteWaits, HeldBy, RunningItems
  <1>2. ress[i].sub \in Subs
    BY EventSubjects DEF TypeInv
  <1>3. /\ wait' \in [Workers -> [Loops -> Refresh]]
        /\ UNCHANGED <<db, reqs, ress, disp, proc, faults>>
    BY <1>1, <1>2, AwaitType DEF TypeInv, Loops
  <1> QED
    BY <1>3 DEF TypeInv, TypeOK, DispatchersRefer, EventsRefer, db

\* Two states of a stream that carry the same events
SameEvents(q, r) ==
    /\ DOMAIN q = DOMAIN r
    /\ \A i \in DOMAIN q : q[i].sub = r[i].sub /\ q[i].no = r[i].no

LEMMA RewriteRequest ==
    ASSUME TypeOK, NEW i \in DOMAIN reqs, NEW st \in ReqStates, NEW p \in Agents \cup {None},
           \/ reqs' = [reqs EXCEPT ![i].state = st, ![i].by = p]
           \/ reqs' = [reqs EXCEPT ![i].state = st]
    PROVE  reqs' \in Seq(RequestEvent) /\ SameEvents(reqs', reqs)
  <1>1. reqs[i] \in RequestEvent /\ reqs \in Seq(RequestEvent)
    BY EventSubjects DEF TypeOK
  <1>2. PICK e \in RequestEvent : /\ reqs' = [reqs EXCEPT ![i] = e]
                                  /\ e.sub = reqs[i].sub /\ e.no = reqs[i].no
    <2> DEFINE e1 == [sub |-> reqs[i].sub, no |-> reqs[i].no, state |-> st, by |-> p]
               e2 == [sub |-> reqs[i].sub, no |-> reqs[i].no, state |-> st, by |-> reqs[i].by]
    <2>1. e1 \in RequestEvent /\ e2 \in RequestEvent
      BY <1>1 DEF RequestEvent
    <2>2. reqs' = [reqs EXCEPT ![i] = e1] \/ reqs' = [reqs EXCEPT ![i] = e2]
      BY <1>1 DEF RequestEvent
    <2> QED
      BY <2>1, <2>2
  <1>3. i \in 1 .. Len(reqs) /\ DOMAIN reqs = 1 .. Len(reqs)
    BY <1>1, LenProperties
  <1>4. /\ reqs' \in Seq(RequestEvent) /\ Len(reqs') = Len(reqs)
        /\ \A j \in 1 .. Len(reqs) : reqs'[j] = IF j = i THEN e ELSE reqs[j]
    BY <1>1, <1>2, <1>3, ExceptSeq
  <1> QED
    BY <1>2, <1>3, <1>4, LenProperties DEF SameEvents

LEMMA RewriteResult ==
    ASSUME TypeOK, NEW i \in DOMAIN ress, NEW st \in ResStates,
           \/ ress' = [ress EXCEPT ![i].state = st, ![i].by = None]
           \/ ress' = [ress EXCEPT ![i].state = st]
    PROVE  ress' \in Seq(ResultEvent) /\ SameEvents(ress', ress)
  <1>1. ress[i] \in ResultEvent /\ ress \in Seq(ResultEvent)
    BY EventSubjects DEF TypeOK
  <1>2. PICK e \in ResultEvent : /\ ress' = [ress EXCEPT ![i] = e]
                                 /\ e.sub = ress[i].sub /\ e.no = ress[i].no
    <2> DEFINE e1 == [sub |-> ress[i].sub, no |-> ress[i].no, verdict |-> ress[i].verdict,
                      state |-> st, by |-> None]
               e2 == [e1 EXCEPT !.by = ress[i].by]
    <2>1. e1 \in ResultEvent /\ e2 \in ResultEvent
      BY <1>1 DEF ResultEvent
    <2>2. ress' = [ress EXCEPT ![i] = e1] \/ ress' = [ress EXCEPT ![i] = e2]
      BY <1>1 DEF ResultEvent
    <2> QED
      BY <2>1, <2>2
  <1>3. i \in 1 .. Len(ress) /\ DOMAIN ress = 1 .. Len(ress)
    BY <1>1, LenProperties
  <1>4. /\ ress' \in Seq(ResultEvent) /\ Len(ress') = Len(ress)
        /\ \A j \in 1 .. Len(ress) : ress'[j] = IF j = i THEN e ELSE ress[j]
    BY <1>1, <1>2, <1>3, ExceptSeq
  <1> QED
    BY <1>2, <1>3, <1>4, LenProperties DEF SameEvents

\* Rewriting entries in place keeps every reference.
LEMMA SameEventsRefer ==
    ASSUME TypeInv, UNCHANGED att, SameEvents(reqs', reqs), SameEvents(ress', ress)
    PROVE  EventsRefer'
  BY DEF TypeInv, EventsRefer, SameEvents

LEMMA PublishType ==
    ASSUME TypeInv, NEW w \in Workers, Publish(w)
    PROVE  TypeInv'
  <1>1. disp[w].cur \in Subs /\ disp[w].no \in DOMAIN att[disp[w].cur] /\ disp[w].no \in Nat
    BY DEF Publish, TypeInv, DispatchersRefer, TypeOK, Dispatcher
  <1>2. Request(w) \in RequestEvent
    BY <1>1 DEF Request, RequestEvent, ReqStates
  <1>3. /\ reqs' \in Seq(RequestEvent)
        /\ \A i \in DOMAIN reqs' : (i \in DOMAIN reqs /\ reqs'[i] = reqs[i]) \/ reqs'[i] = Request(w)
    BY <1>2, AppendProperties, LenProperties DEF Publish, TypeInv, TypeOK
  <1>4. EventsRefer'
    BY <1>1, <1>3 DEF Publish, TypeInv, EventsRefer, Request, db
  <1>5. disp' \in [Workers -> Dispatcher]
    BY DispatcherMoves DEF Publish, TypeInv, TypeOK
  <1>6. DispatchersRefer'
    BY <1>1 DEF Publish, TypeInv, TypeOK, Dispatcher, DispatchersRefer, db
  <1> QED
    BY <1>3, <1>4, <1>5, <1>6 DEF Publish, TypeInv, TypeOK, db

LEMMA PublishErrorType ==
    ASSUME TypeInv, NEW w \in Workers, PublishError(w)
    PROVE  TypeInv'
  <1>1. disp[w].cur \in Subs /\ disp[w].no \in DOMAIN att[disp[w].cur] /\ disp[w].no \in Nat
    BY DEF PublishError, TypeInv, DispatchersRefer, TypeOK, Dispatcher
  <1>2. Request(w) \in RequestEvent
    BY <1>1 DEF Request, RequestEvent, ReqStates
  <1>3. /\ reqs' \in Seq(RequestEvent)
        /\ \A i \in DOMAIN reqs' : (i \in DOMAIN reqs /\ reqs'[i] = reqs[i]) \/ reqs'[i] = Request(w)
    <2>1. CASE reqs' = reqs
      BY <2>1 DEF TypeInv, TypeOK
    <2>2. CASE reqs' = Append(reqs, Request(w))
      BY <1>2, <2>2, AppendProperties, LenProperties DEF TypeInv, TypeOK
    <2> QED
      BY <2>1, <2>2 DEF PublishError
  <1>4. EventsRefer'
    BY <1>1, <1>3 DEF PublishError, TypeInv, EventsRefer, Request, db
  <1>5. disp' \in [Workers -> Dispatcher]
    BY DispatcherMoves DEF PublishError, TypeInv, TypeOK
  <1>6. DispatchersRefer'
    BY <1>1 DEF PublishError, TypeInv, TypeOK, Dispatcher, DispatchersRefer, db
  <1>7. faults' \in Nat
    BY FaultCounted DEF PublishError, TypeInv
  <1> QED
    BY <1>3, <1>4, <1>5, <1>6, <1>7 DEF PublishError, TypeInv, TypeOK, db

LEMMA RetryJudgeTaskType ==
    ASSUME TypeInv, NEW w \in Workers, RetryJudgeTask(w)
    PROVE  TypeInv'
  <1>1. task' \in [Subs -> TaskRow]
    <2>1. disp[w].cur \in Subs
      BY DEF RetryJudgeTask, TypeInv, DispatchersRefer
    <2>2. Retried(disp[w].cur) \in TaskRow
      BY <2>1 DEF Retried, TypeInv, TypeOK, TaskRow, TaskStatuses
    <2>3. task' = task \/ task' = [task EXCEPT ![disp[w].cur] = Retried(disp[w].cur)]
      BY DEF RetryJudgeTask
    <2> QED
      BY <2>1, <2>2, <2>3 DEF TypeInv, TypeOK
  <1> QED
    BY <1>1, ExitEffect, RefersPreserved DEF RetryJudgeTask, TypeInv, TypeOK

LEMMA MarkJudgeTaskDispatchedType ==
    ASSUME TypeInv, NEW w \in Workers, MarkJudgeTaskDispatched(w)
    PROVE  TypeInv'
  <1> DEFINE s == disp[w].cur
  <1>1. CASE task[s].status \in {"dispatching", "running", "done"}
    <2>1. task' \in [Subs -> TaskRow]
      <3>1. PICK st \in TaskStatuses : task' = [task EXCEPT ![s].status = st]
        BY <1>1 DEF MarkJudgeTaskDispatched, TaskStatuses
      <3> QED
        BY <3>1 DEF TypeInv, TypeOK, TaskRow
    <2>2. PICK d \in Dispatcher : disp' = [disp EXCEPT ![w] = d] /\ d.pc \in {"idle", "build"}
      <3>1. Idle \in Dispatcher /\ [Idle EXCEPT !.pc = "build", !.todo = disp[w].todo] \in Dispatcher
        BY DEF Idle, Dispatcher, TypeInv, TypeOK
      <3> QED
        BY <1>1, <3>1 DEF MarkJudgeTaskDispatched, Idle
    <2>3. disp' \in [Workers -> Dispatcher] /\ DispatchersRefer'
      BY <2>2 DEF MarkJudgeTaskDispatched, TypeInv, TypeOK, DispatchersRefer
    <2> QED
      BY <1>1, <2>1, <2>3 DEF MarkJudgeTaskDispatched, TypeInv, TypeOK, EventsRefer
  <1>2. CASE task[s].status \notin {"dispatching", "running", "done"}
    BY <1>2, ExitType DEF MarkJudgeTaskDispatched, TypeInv, TypeOK, db
  <1> QED
    BY <1>1, <1>2

LEMMA AgentConsumeType ==
    ASSUME TypeInv, NEW a \in Agents, AgentConsume(a)
    PROVE  TypeInv'
  <1>1. PICK i \in DOMAIN reqs : reqs' = [reqs EXCEPT ![i].state = "held", ![i].by = a]
    BY DEF AgentConsume, NewEntries
  <1>2. reqs' \in Seq(RequestEvent) /\ SameEvents(reqs', reqs)
    BY <1>1, RewriteRequest DEF TypeInv, ReqStates
  <1>3. SameEvents(ress', ress)
    BY DEF AgentConsume, SameEvents
  <1> QED
    BY <1>2, <1>3, SameEventsRefer DEF AgentConsume, TypeInv, TypeOK, DispatchersRefer, db, mem

LEMMA AgentPublishType ==
    ASSUME TypeInv, NEW a \in Agents, AgentPublish(a)
    PROVE  TypeInv'
  <1>1. PICK i \in DOMAIN reqs, v \in Verdicts :
           /\ reqs' = [reqs EXCEPT ![i].state = "judged"]
           /\ ress' = Append(ress, [sub |-> reqs[i].sub, no |-> reqs[i].no, verdict |-> v,
                                    state |-> "new", by |-> None])
    BY DEF AgentPublish, HeldBy
  <1> DEFINE e == [sub |-> reqs[i].sub, no |-> reqs[i].no, verdict |-> v,
                   state |-> "new", by |-> None]
  <1>2. reqs' \in Seq(RequestEvent) /\ SameEvents(reqs', reqs)
    BY <1>1, RewriteRequest DEF TypeInv, ReqStates
  <1>3. e \in ResultEvent /\ e.no \in DOMAIN att[e.sub]
    BY EventSubjects DEF TypeInv, EventsRefer, RequestEvent, ResultEvent, ResStates
  <1> HIDE DEF e
  <1>4. /\ ress' \in Seq(ResultEvent)
        /\ \A j \in DOMAIN ress' : (j \in DOMAIN ress /\ ress'[j] = ress[j]) \/ ress'[j] = e
    BY <1>1, <1>3, AppendProperties, LenProperties DEF TypeInv, TypeOK, e
  <1>5. EventsRefer'
    BY <1>2, <1>3, <1>4 DEF AgentPublish, TypeInv, EventsRefer, SameEvents, db
  <1> QED
    BY <1>2, <1>4, <1>5 DEF AgentPublish, TypeInv, TypeOK, DispatchersRefer, db, mem

LEMMA AgentAckType ==
    ASSUME TypeInv, NEW a \in Agents, AgentAck(a)
    PROVE  TypeInv'
  <1>1. PICK i \in DOMAIN reqs : reqs' = [reqs EXCEPT ![i].state = "acked", ![i].by = None]
    BY DEF AgentAck, HeldBy
  <1>2. reqs' \in Seq(RequestEvent) /\ SameEvents(reqs', reqs)
    BY <1>1, RewriteRequest DEF TypeInv, ReqStates
  <1>3. SameEvents(ress', ress)
    BY DEF AgentAck, SameEvents
  <1> QED
    BY <1>2, <1>3, SameEventsRefer DEF AgentAck, TypeInv, TypeOK, DispatchersRefer, db, mem

LEMMA AgentFailsType ==
    ASSUME TypeInv, NEW a \in Agents, AgentFails(a)
    PROVE  TypeInv'
  <1>1. PICK i \in DOMAIN reqs : reqs' = [reqs EXCEPT ![i].state = "dead", ![i].by = None]
    BY DEF AgentFails, DeadLetter, HeldBy
  <1>2. reqs' \in Seq(RequestEvent) /\ SameEvents(reqs', reqs)
    BY <1>1, RewriteRequest DEF TypeInv, ReqStates
  <1>3. SameEvents(ress', ress)
    BY DEF AgentFails, SameEvents
  <1>4. faults' \in Nat
    BY FaultCounted DEF AgentFails, TypeInv
  <1> QED
    BY <1>2, <1>3, <1>4, SameEventsRefer
    DEF AgentFails, TypeInv, TypeOK, DispatchersRefer, db, mem

LEMMA AgentCrashType ==
    ASSUME TypeInv, NEW a \in Agents, AgentCrash(a)
    PROVE  TypeInv'
  <1>1. reqs' \in Seq(RequestEvent) /\ SameEvents(reqs', reqs)
    BY AbandonReqs DEF AgentCrash, TypeInv, SameEvents
  <1>2. SameEvents(ress', ress)
    BY DEF AgentCrash, SameEvents
  <1>3. faults' \in Nat
    BY FaultCounted DEF AgentCrash, TypeInv
  <1> QED
    BY <1>1, <1>2, <1>3, SameEventsRefer
    DEF AgentCrash, TypeInv, TypeOK, DispatchersRefer, db, mem

LEMMA ResultConsumeType ==
    ASSUME TypeInv, NEW w \in Workers, ResultConsume(w)
    PROVE  TypeInv'
  <1>1. PICK first \in NewEntries(ress) :
           ress' = [i \in DOMAIN ress |->
                      IF i \in first .. (first + ResultBatch - 1)
                      THEN [ress[i] EXCEPT !.state = "held", !.by = w] ELSE ress[i]]
    BY DEF ResultConsume
  <1>2. \A i \in DOMAIN ress : /\ ress'[i] \in ResultEvent
                               /\ ress'[i].sub = ress[i].sub /\ ress'[i].no = ress[i].no
    <2> TAKE i \in DOMAIN ress
    <2>1. ress'[i] = ress[i] \/ ress'[i] = [ress[i] EXCEPT !.state = "held", !.by = w]
      BY <1>1
    <2> QED
      BY <2>1, EventSubjects DEF TypeInv, ResultEvent, ResStates
  <1>3. DOMAIN ress' = DOMAIN ress /\ ress' = [i \in DOMAIN ress |-> ress'[i]]
    BY <1>1
  <1>4. ress' \in Seq(ResultEvent) /\ SameEvents(ress', ress)
    BY <1>2, <1>3, RewriteSeq DEF TypeInv, TypeOK, SameEvents
  <1>5. SameEvents(reqs', reqs)
    BY DEF ResultConsume, SameEvents
  <1> QED
    BY <1>4, <1>5, SameEventsRefer DEF ResultConsume, TypeInv, TypeOK, DispatchersRefer, db, mem

LEMMA ResultAckType ==
    ASSUME TypeInv, NEW w \in Workers, ResultAck(w)
    PROVE  TypeInv'
  <1>1. PICK i \in DOMAIN ress : ress' = [ress EXCEPT ![i].state = "acked", ![i].by = None]
    BY DEF ResultAck, HeldBy
  <1>2. ress' \in Seq(ResultEvent) /\ SameEvents(ress', ress)
    BY <1>1, RewriteResult DEF TypeInv, ResStates
  <1>3. SameEvents(reqs', reqs)
    BY DEF ResultAck, SameEvents
  <1> QED
    BY <1>2, <1>3, SameEventsRefer DEF ResultAck, TypeInv, TypeOK, DispatchersRefer, db, mem

\* Finishing an attempt rewrites the status of that row and nothing else.
LEMMA FinishAttempt ==
    ASSUME TypeOK, NEW s \in Subs, NEW no \in DOMAIN att[s], NEW v \in Verdicts,
           att' = [att EXCEPT ![s][no].status = v]
    PROVE  /\ att' \in [Subs -> Seq(AttemptRow)]
           /\ \A t \in Subs : DOMAIN att'[t] = DOMAIN att[t] /\ Len(att'[t]) = Len(att[t])
           /\ att'[s][no].status = v
           /\ \A t \in Subs : \A n \in DOMAIN att[t] :
                 t # s \/ n # no => att'[t][n] = att[t][n]
  <1>1. /\ att[s] \in Seq(AttemptRow) /\ Len(att[s]) \in Nat
        /\ DOMAIN att[s] = 1 .. Len(att[s]) /\ att[s][no] \in AttemptRow
    BY ElementOfSeq, LenProperties DEF TypeOK
  <1> DEFINE row == [att[s][no] EXCEPT !.status = v]
             rows == [att[s] EXCEPT ![no] = row]
  <1>2. row \in AttemptRow /\ row.status = v
    BY <1>1 DEF AttemptRow
  <1>3. att' = [att EXCEPT ![s] = rows]
    BY DEF TypeOK
  <1> HIDE DEF row
  <1>4. /\ rows \in Seq(AttemptRow) /\ Len(rows) = Len(att[s])
        /\ \A j \in 1 .. Len(att[s]) : rows[j] = IF j = no THEN row ELSE att[s][j]
    BY <1>1, <1>2, ExceptSeq
  <1> HIDE DEF rows
  <1>5. DOMAIN rows = DOMAIN att[s]
    BY <1>1, <1>4, LenProperties
  <1>6. /\ att' \in [Subs -> Seq(AttemptRow)]
        /\ att'[s] = rows /\ \A t \in Subs : t # s => att'[t] = att[t]
    BY <1>3, <1>4 DEF TypeOK
  <1> QED
    BY <1>1, <1>2, <1>4, <1>5, <1>6

LEMMA WriteVerdictType ==
    ASSUME TypeInv, NEW w \in Workers, NEW i \in DOMAIN ress, WriteVerdict(w, i)
    PROVE  TypeInv'
  <1> DEFINE s == ress[i].sub
             no == ress[i].no
             v == ress[i].verdict
  <1>1. s \in Subs /\ no \in Nat /\ v \in Verdicts /\ no \in DOMAIN att[s]
    BY EventSubjects DEF TypeInv, ResultEvent, EventsRefer
  <1>2. sub' \in [Subs -> SubStatuses]
    BY <1>1 DEF WriteVerdict, TypeInv, TypeOK, SubStatuses
  <1>3. /\ att' \in [Subs -> Seq(AttemptRow)]
        /\ \A t \in Subs : DOMAIN att'[t] = DOMAIN att[t]
    BY <1>1, FinishAttempt DEF WriteVerdict, TypeInv
  <1>4. task' \in [Subs -> TaskRow]
    <2>1. [task[s] EXCEPT !.status = "done"] \in TaskRow
      BY <1>1, TaskMoves DEF TypeInv, TypeOK, TaskStatuses
    <2>2. task' = task \/ task' = [task EXCEPT ![s] = [task[s] EXCEPT !.status = "done"]]
      BY DEF WriteVerdict, MarkJudgeTaskDone
    <2> QED
      BY <2>1, <2>2 DEF TypeInv, TypeOK
  <1>5. result' \in [Subs -> ResultRow]
    BY <1>1 DEF WriteVerdict, UpsertSubmissionResult, TypeInv, TypeOK, ResultRow
  <1>7. item' \in [Batches -> [Subs -> ItemRow]]
    <2>1. item' = item \/ item' = FinishRejudgeBatchItem(s, no)
      BY DEF WriteVerdict
    <2> QED
      BY <1>1, <2>1, FinishItemType DEF TypeInv, TypeOK
  <1>8. batch' \in [Batches -> BatchRow]
    <2>1. batch' = batch \/ \E b \in Batches :
                 batch' = RefreshRejudgeBatchProgress(b, FinishRejudgeBatchItem(s, no),
                                                      wait[w]["consume"].missed)
      BY DEF WriteVerdict, RunningItems
    <2> QED
      BY <2>1, RefreshType DEF TypeInv, TypeOK
  <1>9. ress' \in Seq(ResultEvent) /\ SameEvents(ress', ress)
    BY RewriteResult DEF WriteVerdict, TypeInv, ResStates
  <1>10. EventsRefer'
    BY <1>3, <1>9, EventSubjects DEF WriteVerdict, TypeInv, EventsRefer, SameEvents
  <1>11. DispatchersRefer'
    BY <1>3 DEF WriteVerdict, TypeInv, TypeOK, DispatchersRefer, Dispatcher, mem
  <1>12. wait' \in [Workers -> [Loops -> Refresh]]
    BY SettledType DEF WriteVerdict, TypeInv, Loops
  <1> QED
    BY <1>2, <1>3, <1>4, <1>5, <1>7, <1>8, <1>9, <1>10, <1>11, <1>12
    DEF WriteVerdict, TypeInv, TypeOK

LEMMA CompleteResultType ==
    ASSUME TypeInv, NEW w \in Workers, CompleteResult(w)
    PROVE  TypeInv'
  <1>1. PICK i \in DOMAIN ress :
           \/ ress' = [ress EXCEPT ![i].state = "written"] /\ UNCHANGED <<db, reqs, mem, faults>>
           \/ WriteVerdict(w, i)
           \/ Exit(w) /\ UNCHANGED <<db, reqs, faults>>
    BY DEF CompleteResult, HeldBy
  <1>2. CASE ress' = [ress EXCEPT ![i].state = "written"] /\ UNCHANGED <<db, reqs, mem, faults>>
    <2>1. ress' \in Seq(ResultEvent) /\ SameEvents(ress', ress)
      BY <1>2, RewriteResult DEF TypeInv, ResStates
    <2>2. SameEvents(reqs', reqs)
      BY <1>2 DEF SameEvents
    <2> QED
      BY <1>2, <2>1, <2>2, SameEventsRefer DEF TypeInv, TypeOK, DispatchersRefer, db, mem
  <1>3. CASE WriteVerdict(w, i)
    BY <1>3, WriteVerdictType
  <1>4. CASE Exit(w) /\ UNCHANGED <<db, reqs, faults>>
    BY <1>4, ExitType DEF TypeInv, TypeOK
  <1> QED
    BY <1>1, <1>2, <1>3, <1>4

LEMMA TypeInvStep == TypeInv /\ [Next]_vars => TypeInv'
  <1> SUFFICES ASSUME TypeInv, [Next]_vars PROVE TypeInv'
    OBVIOUS
  <1>1. ASSUME NEW s \in Subs, CreateSubmission(s) PROVE TypeInv'
    BY <1>1, CreateSubmissionType
  <1>2. ASSUME NEW s \in Subs, ResetAbandoned(s) PROVE TypeInv'
    BY <1>2, ResetStaleJudgeTaskType DEF ResetAbandoned, TypeInv, TypeOK
  <1>3. ASSUME NEW s \in Subs, ResetStalled(s) PROVE TypeInv'
    BY <1>3, ResetStaleJudgeTaskType, FaultCounted DEF ResetStalled, TypeInv
  <1>4. ASSUME NEW b \in Batches, CreateRejudgeBatch(b) \/ CancelRejudgeBatch(b) PROVE TypeInv'
    BY <1>4, CreateRejudgeBatchType, CancelRejudgeBatchType
  <1>5. ASSUME NEW w \in Workers, DispatchStep(w) PROVE TypeInv'
    <2>1. CASE EnsureFails(w)
      BY <2>1, ExitType DEF EnsureFails, TypeInv, TypeOK
    <2> QED
      BY <1>5, <2>1, ClaimPendingType, ReadSubmissionType, MarkSubmissionRunningType,
         EnsureJudgeAttemptType, EnsureWaitsEffect, PublishType, RetryJudgeTaskType,
         MarkJudgeTaskDispatchedType
      DEF DispatchStep
  <1>6. ASSUME NEW w \in Workers, ResultStep(w) PROVE TypeInv'
    BY <1>6, ResultConsumeType, CompleteWaitsEffect, CompleteResultType, ResultAckType
    DEF ResultStep
  <1>7. ASSUME NEW w \in Workers, BuildFails(w) \/ WorkerCrash(w) PROVE TypeInv'
    BY <1>7, ExitType, FaultCounted DEF BuildFails, WorkerCrash, TypeInv
  <1>8. ASSUME NEW w \in Workers, PublishError(w) PROVE TypeInv'
    BY <1>8, PublishErrorType
  <1>9. ASSUME NEW a \in Agents, AgentStep(a) \/ AgentFails(a) \/ AgentCrash(a) PROVE TypeInv'
    BY <1>9, AgentConsumeType, AgentPublishType, AgentAckType, AgentFailsType, AgentCrashType
    DEF AgentStep
  <1>10. CASE UNCHANGED vars
    BY <1>10 DEF vars, TypeInv, TypeOK, DispatchersRefer, EventsRefer
  <1> QED
    BY <1>1, <1>2, <1>3, <1>4, <1>5, <1>6, <1>7, <1>8, <1>9, <1>10 DEF Next

\* In every reachable state of the pipeline, all rows, events and processes are
\* well-formed: the type invariant of the whole system.
THEOREM TypeCorrect == Spec => []TypeOK
  <1>1. Spec => []TypeInv
    BY TypeInvInit, TypeInvStep, PTL DEF Spec
  <1>2. TypeInv => TypeOK
    BY DEF TypeInv
  <1> QED
    BY <1>1, <1>2, PTL
=============================================================================
