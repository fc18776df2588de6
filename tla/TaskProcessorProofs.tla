------------------------ MODULE TaskProcessorProofs ------------------------
(***************************************************************************)
(* The pipeline with TaskProcessor in it: what JudgePipeline guarantees    *)
(* about verdicts and rejudge batches survives in-process judging, retries *)
(* and dead tasks, and a dead task leaves nothing waiting.                 *)
(***************************************************************************)
EXTENDS VerdictProofs, TaskProcessor

\* The statements an action is made of are read as what they write.
USE DEF InsertSubmission, CreateJudgeTask, ListEligibleProblemSubmissionsForRejudge, InsertRejudgeBatch,
        CreateRejudgeBatchItem, PrepareSubmissionForRejudge, CancelQueuedRejudgeBatchItems,
        CancelPendingJudgeTaskForRejudge, RestoreSubmissionAfterCanceledRejudge,
        GetLatestJudgeAttemptBySubmissionID, GetQueuedRejudgeBatchItemByTaskID,
        CreateJudgeAttempt, UpdateSubmissionStatus, MarkJudgeAttemptFinished, finishJudgeAttempt

\* A processor at work has claimed an entry of the stream.
ProcessorsRefer ==
    \A w \in Workers : proc[w].pc # "idle" => proc[w].entry \in DOMAIN reqs

ProcessorTypes == TypeInv /\ ProcessorsRefer

LEMMA SubjectExists ==
    ASSUME ProcessorTypes, NEW w \in Workers, proc[w].pc # "idle"
    PROVE  /\ proc[w].entry \in DOMAIN reqs /\ Subject(w) \in Subs
           /\ task[Subject(w)] \in TaskRow /\ sub[Subject(w)] \in SubStatuses
  <1>1. proc[w].entry \in DOMAIN reqs
    BY DEF ProcessorTypes, ProcessorsRefer
  <1>2. Subject(w) \in Subs
    BY <1>1, EventSubjects DEF ProcessorTypes, TypeInv, Subject, Entry
  <1> QED
    BY <1>1, <1>2 DEF ProcessorTypes, TypeInv, TypeOK

-----------------------------------------------------------------------------
(* The processor's own memory                                              *)

\* The steps of JudgePipeline keep the stream's entries, and touch a processor
\* only by ending its worker.
LEMMA PipelineKeepsProcessors ==
    ASSUME ProcessorTypes, [Next]_vars
    PROVE  ProcessorsRefer'
  <1> SUFFICES /\ DOMAIN reqs \subseteq DOMAIN reqs'
               /\ \A w \in Workers : proc'[w] = proc[w] \/ proc'[w] = NoMessage
    BY DEF ProcessorTypes, ProcessorsRefer, NoMessage
  <1> DEFINE Kept == /\ DOMAIN reqs \subseteq DOMAIN reqs'
                     /\ \A w \in Workers : proc'[w] = proc[w] \/ proc'[w] = NoMessage
  <1>0. TypeInv /\ TypeOK /\ reqs \in Seq(RequestEvent) /\ proc \in [Workers -> Processor]
    BY DEF ProcessorTypes, TypeInv, TypeOK
  <1>1. ASSUME NEW s \in Subs, CreateSubmission(s) \/ ResetStaleJudgeTask(s) PROVE Kept
    BY <1>1 DEF CreateSubmission, ResetStaleJudgeTask, mem
  <1>2. ASSUME NEW b \in Batches, CreateRejudgeBatch(b) \/ CancelRejudgeBatch(b) PROVE Kept
    BY <1>2 DEF CreateRejudgeBatch, CancelRejudgeBatch, mem
  <1>3. ASSUME NEW w \in Workers, Publish(w) \/ PublishError(w) PROVE Kept
    <2>1. reqs' \in {reqs, Append(reqs, Request(w))} /\ UNCHANGED proc
      BY <1>3 DEF Publish, PublishError
    <2>2. disp[w].cur \in Subs /\ disp[w].no \in Nat
      BY <1>0, <1>3 DEF Publish, PublishError, TypeInv, DispatchersRefer, TypeOK, Dispatcher
    <2>3. Request(w) \in RequestEvent
      BY <2>2 DEF Request, RequestEvent, ReqStates
    <2>4. Len(Append(reqs, Request(w))) = Len(reqs) + 1 /\ Append(reqs, Request(w)) \in Seq(RequestEvent)
      BY <1>0, <2>3, AppendProperties
    <2>5. Len(reqs) \in Nat /\ DOMAIN reqs = 1 .. Len(reqs) /\ DOMAIN Append(reqs, Request(w)) = 1 .. Len(reqs) + 1
      BY <1>0, <2>4, LenProperties
    <2> QED
      BY <2>1, <2>5
  <1>4. ASSUME NEW w \in Workers, BuildFails(w) \/ EnsureFails(w) \/ WorkerCrash(w) \/ RetryJudgeTask(w)
        PROVE  Kept
    <2>1. Exit(w) /\ UNCHANGED reqs
      BY <1>4 DEF BuildFails, EnsureFails, WorkerCrash, RetryJudgeTask
    <2> QED
      BY <1>0, <2>1 DEF Exit
  <1>5. ASSUME NEW w \in Workers,
               ClaimPendingJudgeTasks(w) \/ ReadSubmission(w) \/ MarkSubmissionRunning(w) \/ EnsureJudgeAttempt(w)
                 \/ MarkJudgeTaskDispatched(w) \/ ResultConsume(w) \/ CompleteResult(w) \/ ResultAck(w)
        PROVE  Kept
    <2>1. UNCHANGED reqs /\ (UNCHANGED proc \/ Exit(w))
      BY <1>5 DEF ClaimPendingJudgeTasks, ReadSubmission, MarkSubmissionRunning, EnsureJudgeAttempt,
                  MarkJudgeTaskDispatched, ResultConsume, CompleteResult, WriteVerdict, ResultAck, mem
    <2> QED
      BY <1>0, <2>1 DEF Exit
  <1>6. ASSUME NEW a \in Agents, AgentStep(a) \/ AgentFails(a) \/ AgentCrash(a) PROVE Kept
    BY <1>6 DEF AgentStep, AgentConsume, AgentPublish, AgentAck, AgentFails, AgentCrash, DeadLetter, Abandon, mem
  <1>7. CASE UNCHANGED vars
    BY <1>7 DEF vars
  <1>8. ASSUME NEW w \in Workers, EnsureWaits(w) \/ CompleteWaits(w) PROVE Kept
    BY <1>8, WaitingChangesNothing
  <1> QED
    BY <1>1, <1>2, <1>3, <1>4, <1>5, <1>6, <1>7, <1>8
    DEF Next, DispatchStep, ResultStep, ResetAbandoned, ResetStalled

\* A processor moves to another step of the same message.
LEMMA GotoEffect ==
    ASSUME ProcessorTypes, NEW w \in Workers, proc[w].pc # "idle",
           NEW pc \in {"submission", "start", "mark", "judge", "close", "retry", "requeue", "ack", "dead"},
           NEW n \in Nat, NEW st \in SubStatuses,
           \/ proc' = [proc EXCEPT ![w].pc = pc]
           \/ proc' = [proc EXCEPT ![w].pc = pc, ![w].attempts = n]
           \/ proc' = [proc EXCEPT ![w].pc = pc, ![w].seen = st],
           DOMAIN reqs' = DOMAIN reqs
    PROVE  proc' \in [Workers -> Processor] /\ ProcessorsRefer'
  <1>1. proc \in [Workers -> Processor] /\ proc[w] \in Processor /\ proc[w].entry \in DOMAIN reqs
    BY SubjectExists DEF ProcessorTypes, TypeInv, TypeOK
  <1>2. PICK m \in Processor : m.entry = proc[w].entry /\ proc' = [proc EXCEPT ![w] = m]
    <2> DEFINE m1 == [proc[w] EXCEPT !.pc = pc]
               m2 == [proc[w] EXCEPT !.pc = pc, !.attempts = n]
               m3 == [proc[w] EXCEPT !.pc = pc, !.seen = st]
    <2>1. m1 \in Processor /\ m1.entry = proc[w].entry
      BY <1>1 DEF Processor
    <2>2. m2 \in Processor /\ m2.entry = proc[w].entry
      BY <1>1 DEF Processor
    <2>3. m3 \in Processor /\ m3.entry = proc[w].entry
      BY <1>1 DEF Processor
    <2>4. proc' = [proc EXCEPT ![w] = m1] \/ proc' = [proc EXCEPT ![w] = m2] \/ proc' = [proc EXCEPT ![w] = m3]
      BY <1>1
    <2> HIDE DEF m1, m2, m3
    <2> QED
      BY <2>1, <2>2, <2>3, <2>4
  <1>3. proc' \in [Workers -> Processor]
    BY <1>1, <1>2
  <1>4. \A x \in Workers : proc'[x] = IF x = w THEN m ELSE proc[x]
    BY <1>1, <1>2
  <1> QED
    BY <1>1, <1>2, <1>3, <1>4 DEF ProcessorTypes, ProcessorsRefer

\* A processor gives its message up.
LEMMA ForgetEffect ==
    ASSUME ProcessorTypes, NEW w \in Workers, proc' = [proc EXCEPT ![w] = NoMessage],
           DOMAIN reqs' = DOMAIN reqs
    PROVE  proc' \in [Workers -> Processor] /\ ProcessorsRefer'
  <1>1. proc \in [Workers -> Processor] /\ NoMessage \in Processor
    BY DEF ProcessorTypes, TypeInv, TypeOK, NoMessage, Processor, SubStatuses
  <1>2. \A x \in Workers : proc'[x] = IF x = w THEN NoMessage ELSE proc[x]
    BY <1>1
  <1>3. NoMessage.pc = "idle"
    BY DEF NoMessage
  <1> QED
    BY <1>1, <1>2, <1>3 DEF ProcessorTypes, ProcessorsRefer

\* What a processor step may do to streams and to the memory of its worker.
MemoryKept ==
    /\ proc' \in [Workers -> Processor] /\ ProcessorsRefer'
    /\ disp' \in [Workers -> Dispatcher] /\ \A x \in Workers : disp'[x] \in {disp[x], Idle}
    /\ reqs' \in Seq(RequestEvent) /\ SameEvents(reqs', reqs)
    /\ ress' \in Seq(ResultEvent) /\ SameEvents(ress', ress)
    /\ faults' \in Nat

LEMMA FailKeepsMemory ==
    ASSUME ProcessorTypes, NEW w \in Workers, Exit(w), UNCHANGED <<reqs, faults>>
    PROVE  MemoryKept
  <1>1. proc' = [proc EXCEPT ![w] = NoMessage]
    BY DEF Exit
  <1>2. proc' \in [Workers -> Processor] /\ ProcessorsRefer'
    BY <1>1, ForgetEffect
  <1> QED
    BY <1>2, ExitEffect DEF ProcessorTypes, TypeInv, TypeOK, MemoryKept, SameEvents

\* MarkDeadWaits too changes nothing but the wait.
LEMMA DeadWaitEffect ==
    ASSUME ProcessorTypes, NEW w \in Workers, MarkDeadWaits(w)
    PROVE  /\ wait' \in [Workers -> [Loops -> Refresh]]
           /\ UNCHANGED <<sub, task, att, result, batch, item, reqs, ress, disp, proc, faults>>
  <1>1. PICK b \in Batches : AwaitBatchRow(w, "process", Subject(w), b)
    BY DEF MarkDeadWaits, OpenIn
  <1>2. Subject(w) \in Subs
    BY SubjectExists DEF MarkDeadWaits
  <1>3. wait' \in [Workers -> [Loops -> Refresh]]
    BY <1>1, <1>2, AwaitType DEF ProcessorTypes, TypeInv, Loops
  <1> QED
    BY <1>1, <1>3 DEF AwaitBatchRow

\* What waits is of its type after every step of the processor.
LEMMA StepKeepsWaits ==
    ASSUME ProcessorTypes, NEW w \in Workers, ProcessorStep(w)
    PROVE  wait' \in [Workers -> [Loops -> Refresh]]
  <1>1. TypeOK /\ wait \in [Workers -> [Loops -> Refresh]]
    BY DEF ProcessorTypes, TypeInv, TypeOK
  <1>2. CASE Exit(w)
    BY <1>1, <1>2, ExitEffect
  <1>3. CASE MarkDeadWaits(w)
    BY <1>3, DeadWaitEffect
  <1>4. CASE ~Exit(w) /\ MarkJudgeTaskDead(w)
    <2>1. \E items : wait' = [Overtaken(items) EXCEPT ![w]["process"] = NotWaiting]
      BY <1>4 DEF MarkJudgeTaskDead, Fail
    <2> QED
      BY <1>1, <2>1, SettledType DEF Loops
  <1>5. CASE ~Exit(w) /\ ~MarkJudgeTaskDead(w) /\ ~MarkDeadWaits(w)
    <2>1. UNCHANGED wait
      BY <1>5 DEF ProcessorStep, ClaimStale, GetJudgeTask, GetSubmission, MarkJudgeTaskRunning, MarkRunning,
                  JudgeFails, JudgeInProcess, CloseTask, Retry, Requeue, DeadLetterAndAck, Ack, Fail
    <2> QED
      BY <1>1, <2>1
  <1> QED
    BY <1>2, <1>3, <1>4, <1>5

LEMMA StepKeepsMemory ==
    ASSUME ProcessorTypes, NEW w \in Workers, ProcessorStep(w)
    PROVE  MemoryKept
  <1>1. /\ proc \in [Workers -> Processor] /\ disp \in [Workers -> Dispatcher]
        /\ reqs \in Seq(RequestEvent) /\ ress \in Seq(ResultEvent) /\ faults \in Nat
        /\ SameEvents(reqs, reqs) /\ SameEvents(ress, ress)
    BY DEF ProcessorTypes, TypeInv, TypeOK, SameEvents
  <1> DEFINE Same == UNCHANGED <<reqs, ress, disp>>
             Proc == proc' \in [Workers -> Processor] /\ ProcessorsRefer'
  <1>2. ASSUME Same, Proc, faults' \in Nat PROVE MemoryKept
    BY <1>1, <1>2 DEF MemoryKept
  <1>3. CASE ClaimStale(w)
    <2>1. PICK i \in DOMAIN reqs : /\ proc' = [proc EXCEPT ![w] = [NoMessage EXCEPT !.pc = "task", !.entry = i]]
                                   /\ UNCHANGED faults \/ Fault("stall")
      BY <1>3 DEF ClaimStale
    <2>2. i \in Nat
      BY <1>1, LenProperties
    <2> DEFINE m == [NoMessage EXCEPT !.pc = "task", !.entry = i]
    <2>3. m \in Processor /\ m.entry = i
      BY <2>2 DEF NoMessage, Processor, SubStatuses
    <2> HIDE DEF m
    <2>4. proc' \in [Workers -> Processor] /\ \A x \in Workers : proc'[x] = IF x = w THEN m ELSE proc[x]
      BY <1>1, <2>1, <2>3 DEF m
    <2>5. Same
      BY <1>3 DEF ClaimStale
    <2>6. ProcessorsRefer'
      BY <2>3, <2>4, <2>5 DEF ProcessorTypes, ProcessorsRefer
    <2>7. faults' \in Nat
      BY <1>1, <2>1, FaultCounted DEF ProcessorTypes, TypeInv
    <2> QED
      BY <1>2, <2>4, <2>5, <2>6, <2>7
  <1>4. CASE GetJudgeTask(w) \/ GetSubmission(w) \/ MarkRunning(w) \/ JudgeFails(w) \/ JudgeInProcess(w) \/ Requeue(w)
    <2>1. proc[w].pc # "idle" /\ Same /\ UNCHANGED faults
      BY <1>4 DEF GetJudgeTask, GetSubmission, MarkRunning, JudgeFails, JudgeInProcess, Requeue
    <2>2. task[Subject(w)].attempts \in Nat /\ sub[Subject(w)] \in SubStatuses
      BY <2>1, SubjectExists DEF TaskRow
    <2>3. PICK pc \in {"submission", "start", "mark", "judge", "close", "retry", "requeue", "ack", "dead"} :
             \/ proc' = [proc EXCEPT ![w].pc = pc]
             \/ proc' = [proc EXCEPT ![w].pc = pc, ![w].attempts = task[Subject(w)].attempts]
             \/ proc' = [proc EXCEPT ![w].pc = pc, ![w].seen = sub[Subject(w)]]
      BY <1>4 DEF GetJudgeTask, GetSubmission, MarkRunning, JudgeFails, JudgeInProcess, Requeue, Goto
    <2>4. Proc
      BY <2>1, <2>2, <2>3, GotoEffect
    <2> QED
      BY <1>1, <1>2, <2>1, <2>4
  <1>5. CASE MarkJudgeTaskRunning(w) \/ CloseTask(w) \/ Retry(w) \/ MarkJudgeTaskDead(w)
    <2>1. proc[w].pc # "idle" /\ UNCHANGED <<reqs, faults>>
      BY <1>5 DEF MarkJudgeTaskRunning, CloseTask, Retry, MarkJudgeTaskDead
    <2>2. \/ Exit(w)
          \/ UNCHANGED <<ress, disp>> /\ \E pc \in {"mark", "judge", "ack", "requeue", "dead"} : proc' = [proc EXCEPT ![w].pc = pc]
      BY <1>5 DEF MarkJudgeTaskRunning, CloseTask, Retry, MarkJudgeTaskDead, Fail, Goto
    <2>3. CASE Exit(w)
      BY <2>1, <2>3, FailKeepsMemory
    <2>4. CASE ~Exit(w)
      <3>1. PICK pc \in {"mark", "judge", "ack", "requeue", "dead"} : proc' = [proc EXCEPT ![w].pc = pc]
        BY <2>2, <2>4
      <3>2. Proc
        BY <2>1, <3>1, 0 \in Nat, GotoEffect, SubjectExists
      <3> QED
        BY <1>1, <1>2, <2>1, <2>2, <2>4, <3>2
    <2> QED
      BY <2>3, <2>4
  <1>6. CASE Ack(w) \/ DeadLetterAndAck(w)
    <2>1. /\ proc[w].pc # "idle" /\ UNCHANGED <<ress, disp, faults>>
          /\ proc' = [proc EXCEPT ![w] = NoMessage]
          /\ \/ reqs' = reqs
             \/ \E st \in {"acked", "dead"} : reqs' = [reqs EXCEPT ![proc[w].entry].state = st]
      BY <1>6 DEF Ack, DeadLetterAndAck
    <2>2. proc[w].entry \in DOMAIN reqs
      BY <2>1, SubjectExists
    <2>3. reqs' \in Seq(RequestEvent) /\ SameEvents(reqs', reqs)
      <3>1. CASE reqs' = reqs
        BY <1>1, <3>1
      <3>2. ASSUME NEW st \in {"acked", "dead"}, reqs' = [reqs EXCEPT ![proc[w].entry].state = st]
            PROVE  reqs' \in Seq(RequestEvent) /\ SameEvents(reqs', reqs)
        BY <2>2, <3>2, RewriteRequest DEF ReqStates, ProcessorTypes, TypeInv
      <3> QED
        BY <2>1, <3>1, <3>2
    <2>4. DOMAIN reqs' = DOMAIN reqs
      BY <2>3 DEF SameEvents
    <2>5. Proc
      BY <2>1, <2>4, ForgetEffect
    <2> QED
      BY <1>1, <2>1, <2>3, <2>5 DEF MemoryKept
  <1>7. CASE MarkDeadWaits(w)
    <2>1. Same /\ UNCHANGED <<proc, faults>>
      BY <1>7, DeadWaitEffect
    <2> QED
      BY <1>1, <1>2, <2>1 DEF ProcessorTypes, ProcessorsRefer
  <1> QED
    BY <1>3, <1>4, <1>5, <1>6, <1>7 DEF ProcessorStep

-----------------------------------------------------------------------------
(* What a processor step does to the rows                                  *)

\* It writes nothing; it moves a task it found active; it puts a submission
\* that has no verdict back to an open status; it judges one itself; it declares
\* a task dead.
WritesNothing == UNCHANGED <<sub, task, att, result, batch, item>>
MovesTask(s) ==
    /\ \E row \in TaskRow : row.status # "dead" /\ task' = [task EXCEPT ![s] = row]
    /\ UNCHANGED <<sub, att, result, batch, item>>
SetsOpen(s) ==
    /\ ~terminalStatus(sub[s])
    /\ \E st \in OpenStatuses : sub' = [sub EXCEPT ![s] = st]
    /\ UNCHANGED <<task, att, result, batch, item>>
JudgesItself(s) ==
    /\ ~terminalStatus(sub[s])
    /\ \E v \in Verdicts : /\ sub' = [sub EXCEPT ![s] = v]
                           /\ att' = [att EXCEPT ![s] = Append(@, [status |-> v, batch |-> None])]
                           /\ result' = [result EXCEPT ![s] = [attempt |-> Len(att[s]) + 1, status |-> v]]
    /\ UNCHANGED <<task, batch, item>>
FailsItem(s) ==
    /\ item' = FailActiveRejudgeBatchItemByTaskID(s)
    /\ \/ (\A b \in Batches : ~Active(item[b][s])) /\ UNCHANGED batch
       \/ \E b \in Batches, m \in SUBSET Subs :
             Active(item[b][s]) /\ batch' = RefreshRejudgeBatchProgress(b, item', m)
KillsTask(s) ==
    /\ task' = [task EXCEPT ![s].status = "dead"]
    /\ sub' = IF terminalStatus(sub[s]) THEN sub ELSE [sub EXCEPT ![s] = SystemError]
    /\ FailsItem(s)
    /\ UNCHANGED <<att, result>>

LEMMA ProcessorEffect ==
    ASSUME ProcessorTypes, NEW w \in Workers, ProcessorStep(w)
    PROVE  \/ WritesNothing
           \/ \E s \in Subs : MovesTask(s) \/ SetsOpen(s) \/ JudgesItself(s) \/ KillsTask(s)
  <1>1. CASE \/ ClaimStale(w) \/ GetJudgeTask(w) \/ GetSubmission(w) \/ JudgeFails(w)
             \/ DeadLetterAndAck(w) \/ Ack(w)
    BY <1>1 DEF ClaimStale, GetJudgeTask, GetSubmission, JudgeFails, DeadLetterAndAck, Ack, WritesNothing, db
  <1>2. ASSUME MarkJudgeTaskRunning(w) \/ CloseTask(w) \/ Retry(w)
        PROVE  WritesNothing \/ MovesTask(Subject(w))
    <2>1. proc[w].pc # "idle"
      BY <1>2 DEF MarkJudgeTaskRunning, CloseTask, Retry
    <2>2. task[Subject(w)] \in TaskRow /\ task \in [Subs -> TaskRow]
      BY <2>1, SubjectExists DEF ProcessorTypes, TypeInv, TypeOK
    <2> DEFINE s == Subject(w)
               r1 == [task[s] EXCEPT !.status = "running"]
               r2 == [task[s] EXCEPT !.status = "done"]
    <2>3. r1 \in TaskRow /\ r1.status # "dead" /\ r2 \in TaskRow /\ r2.status # "dead"
      BY <2>2 DEF TaskRow, TaskStatuses
    <2>4. Retried(s) \in TaskRow /\ Retried(s).status # "dead"
      BY <2>2 DEF Retried, TaskRow, TaskStatuses
    <2>5. \/ WritesNothing
          \/ /\ UNCHANGED <<sub, att, result, batch, item>>
             /\ \/ task' = [task EXCEPT ![s].status = "running"]
                \/ task' = [task EXCEPT ![s].status = "done"]
                \/ task' = [task EXCEPT ![s] = Retried(s)]
      BY <1>2 DEF MarkJudgeTaskRunning, CloseTask, Retry, Fail, MarkJudgeTaskDone, WritesNothing
    <2>6. /\ [task EXCEPT ![s].status = "running"] = [task EXCEPT ![s] = r1]
          /\ [task EXCEPT ![s].status = "done"] = [task EXCEPT ![s] = r2]
      BY <2>2
    <2> HIDE DEF s, r1, r2
    <2>7. WritesNothing \/ MovesTask(s)
      BY <2>3, <2>4, <2>5, <2>6 DEF MovesTask
    <2> QED
      BY <2>7 DEF s
  <1>3. ASSUME MarkRunning(w) \/ Requeue(w)
        PROVE  WritesNothing \/ SetsOpen(Subject(w))
    <2>1. ~terminalStatus("queued")
      BY ConstantAssumption DEF terminalStatus, OpenStatuses
    <2> QED
      BY <1>3, <2>1 DEF MarkRunning, Requeue, MarkSubmissionQueued, WritesNothing, SetsOpen, OpenStatuses
  <1>4. ASSUME JudgeInProcess(w)
        PROVE  WritesNothing \/ JudgesItself(Subject(w))
    BY <1>4, ProcessorAssumption
    DEF JudgeInProcess, persistJudgeResult, UpsertSubmissionResult, WritesNothing, JudgesItself
  <1>5. ASSUME MarkJudgeTaskDead(w)
        PROVE  WritesNothing \/ KillsTask(Subject(w))
    <2>1. CASE Fail(w)
      BY <2>1 DEF Fail, WritesNothing
    <2>2. CASE ~Fail(w)
      <3> DEFINE s == Subject(w)
                 m == wait[w]["process"].missed
      <3>1. /\ task' = [task EXCEPT ![s].status = "dead"]
            /\ sub' = IF terminalStatus(sub[s]) THEN sub ELSE [sub EXCEPT ![s] = SystemError]
            /\ item' = FailActiveRejudgeBatchItemByTaskID(s)
            /\ UNCHANGED <<att, result>>
        BY <1>5, <2>2 DEF MarkJudgeTaskDead, DeadTask, SystemErrorUnlessJudged
      <3>2. \/ OpenIn(s) = {} /\ UNCHANGED batch
            \/ \E b \in OpenIn(s) : batch' = RefreshRejudgeBatchProgress(b, FailActiveRejudgeBatchItemByTaskID(s), m)
        BY <1>5, <2>2 DEF MarkJudgeTaskDead
      <3>4. m \in SUBSET Subs
        BY MissedType DEF ProcessorTypes, TypeInv, Loops
      <3> HIDE DEF s, m
      <3>3. KillsTask(s)
        BY <3>1, <3>2, <3>4 DEF KillsTask, FailsItem, OpenIn
      <3> QED
        BY <3>3 DEF s
    <2> QED
      BY <2>1, <2>2
  <1>6. proc[w].pc # "idle" => Subject(w) \in Subs
    BY SubjectExists
  <1>7. ASSUME \/ MarkJudgeTaskRunning(w) \/ CloseTask(w) \/ Retry(w) \/ MarkRunning(w) \/ Requeue(w)
               \/ JudgeInProcess(w) \/ MarkJudgeTaskDead(w)
        PROVE  proc[w].pc # "idle"
    BY <1>7 DEF MarkJudgeTaskRunning, CloseTask, Retry, MarkRunning, Requeue, JudgeInProcess, MarkJudgeTaskDead
  <1>8. CASE MarkDeadWaits(w)
    BY <1>8, DeadWaitEffect DEF WritesNothing
  <1> QED
    BY <1>1, <1>2, <1>3, <1>4, <1>5, <1>6, <1>7, <1>8 DEF ProcessorStep

-----------------------------------------------------------------------------
(* Types                                                                   *)

\* An attempt that is created finished is one more row.
LEMMA JudgedRows ==
    ASSUME TypeInv, NEW s \in Subs, JudgesItself(s)
    PROVE  /\ sub' \in [Subs -> SubStatuses] /\ att' \in [Subs -> Seq(AttemptRow)]
           /\ result' \in [Subs -> ResultRow]
           /\ \A t \in Subs : DOMAIN att[t] \subseteq DOMAIN att'[t]
  <1>1. PICK v \in Verdicts : /\ sub' = [sub EXCEPT ![s] = v]
                              /\ att' = [att EXCEPT ![s] = Append(@, [status |-> v, batch |-> None])]
                              /\ result' = [result EXCEPT ![s] = [attempt |-> Len(att[s]) + 1, status |-> v]]
    BY DEF JudgesItself
  <1>2. [status |-> v, batch |-> None] \in AttemptRow
    BY DEF AttemptRow
  <1>3. att' \in [Subs -> Seq(AttemptRow)] /\ \A t \in Subs : DOMAIN att[t] \subseteq DOMAIN att'[t]
    BY <1>1, <1>2, AppendAttempt DEF TypeInv
  <1>4. Len(att[s]) + 1 \in Nat
    BY AttemptRows DEF TypeInv
  <1>5. [attempt |-> Len(att[s]) + 1, status |-> v] \in ResultRow
    BY <1>4 DEF ResultRow
  <1>6. sub' \in [Subs -> SubStatuses] /\ result' \in [Subs -> ResultRow]
    BY <1>1, <1>5 DEF TypeInv, TypeOK, SubStatuses
  <1> QED
    BY <1>3, <1>6

LEMMA FailedItems ==
    ASSUME TypeOK, NEW s \in Subs, item' = FailActiveRejudgeBatchItemByTaskID(s)
    PROVE  /\ item' \in [Batches -> [Subs -> ItemRow]]
           /\ \A b \in Batches, t \in Subs :
                 IF t = s /\ Active(item[b][t]) THEN item'[b][t].status = "failed" ELSE item'[b][t] = item[b][t]
  <1>1. item \in [Batches -> [Subs -> ItemRow]]
    BY DEF TypeOK
  <1>2. ASSUME NEW b \in Batches
        PROVE  /\ item'[b] \in [Subs -> ItemRow]
               /\ \A t \in Subs :
                     IF t = s /\ Active(item[b][t]) THEN item'[b][t].status = "failed" ELSE item'[b][t] = item[b][t]
    <2>1. item[b] \in [Subs -> ItemRow]
      BY <1>1
    <2>2. item'[b] = IF Active(item[b][s]) THEN [item[b] EXCEPT ![s].status = "failed"] ELSE item[b]
      BY DEF FailActiveRejudgeBatchItemByTaskID
    <2>3. [item[b][s] EXCEPT !.status = "failed"] \in ItemRow /\ [item[b][s] EXCEPT !.status = "failed"].status = "failed"
      BY <2>1 DEF ItemRow, ItemStatuses
    <2> QED
      BY <2>1, <2>2, <2>3
  <1>3. item' = [b \in Batches |-> item'[b]]
    BY DEF FailActiveRejudgeBatchItemByTaskID
  <1> QED
    BY <1>2, <1>3

LEMMA ProcessorRows ==
    ASSUME ProcessorTypes,
           WritesNothing \/ \E s \in Subs : MovesTask(s) \/ SetsOpen(s) \/ JudgesItself(s) \/ KillsTask(s)
    PROVE  /\ sub' \in [Subs -> SubStatuses] /\ task' \in [Subs -> TaskRow]
           /\ att' \in [Subs -> Seq(AttemptRow)] /\ result' \in [Subs -> ResultRow]
           /\ batch' \in [Batches -> BatchRow] /\ item' \in [Batches -> [Subs -> ItemRow]]
           /\ \A t \in Subs : DOMAIN att[t] \subseteq DOMAIN att'[t]
  <1> DEFINE Typed == /\ sub' \in [Subs -> SubStatuses] /\ task' \in [Subs -> TaskRow]
                      /\ att' \in [Subs -> Seq(AttemptRow)] /\ result' \in [Subs -> ResultRow]
                      /\ batch' \in [Batches -> BatchRow] /\ item' \in [Batches -> [Subs -> ItemRow]]
                      /\ \A t \in Subs : DOMAIN att[t] \subseteq DOMAIN att'[t]
  <1>1. /\ TypeInv /\ TypeOK
        /\ sub \in [Subs -> SubStatuses] /\ task \in [Subs -> TaskRow]
        /\ att \in [Subs -> Seq(AttemptRow)] /\ result \in [Subs -> ResultRow]
        /\ batch \in [Batches -> BatchRow] /\ item \in [Batches -> [Subs -> ItemRow]]
    BY DEF ProcessorTypes, TypeInv, TypeOK
  <1>2. CASE WritesNothing
    BY <1>1, <1>2 DEF WritesNothing
  <1>3. ASSUME NEW s \in Subs, MovesTask(s) PROVE Typed
    BY <1>1, <1>3 DEF MovesTask
  <1>4. ASSUME NEW s \in Subs, SetsOpen(s) PROVE Typed
    BY <1>1, <1>4 DEF SetsOpen, SubStatuses
  <1>5. ASSUME NEW s \in Subs, JudgesItself(s) PROVE Typed
    BY <1>1, <1>5, JudgedRows DEF JudgesItself
  <1>6. ASSUME NEW s \in Subs, KillsTask(s) PROVE Typed
    <2>1. task' \in [Subs -> TaskRow]
      BY <1>1, <1>6 DEF KillsTask, TaskRow, TaskStatuses
    <2>2. sub' \in [Subs -> SubStatuses]
      BY <1>1, <1>6, ProcessorAssumption DEF KillsTask, SubStatuses
    <2>3. item' \in [Batches -> [Subs -> ItemRow]]
      BY <1>1, <1>6, FailedItems DEF KillsTask, FailsItem
    <2>4. batch' \in [Batches -> BatchRow]
      <3>1. CASE UNCHANGED batch
        BY <1>1, <3>1
      <3>2. ASSUME NEW b \in Batches, NEW m, batch' = RefreshRejudgeBatchProgress(b, item', m)
            PROVE  batch' \in [Batches -> BatchRow]
        BY <1>1, <3>2, RefreshType
      <3> QED
        BY <1>6, <3>1, <3>2 DEF KillsTask, FailsItem
    <2> QED
      BY <1>1, <1>6, <2>1, <2>2, <2>3, <2>4 DEF KillsTask
  <1> QED
    BY <1>2, <1>3, <1>4, <1>5, <1>6

LEMMA ProcessorStepTypes ==
    ASSUME ProcessorTypes, NEW w \in Workers, ProcessorStep(w)
    PROVE  ProcessorTypes'
  <1>1. MemoryKept
    BY StepKeepsMemory
  <1>2. /\ sub' \in [Subs -> SubStatuses] /\ task' \in [Subs -> TaskRow]
        /\ att' \in [Subs -> Seq(AttemptRow)] /\ result' \in [Subs -> ResultRow]
        /\ batch' \in [Batches -> BatchRow] /\ item' \in [Batches -> [Subs -> ItemRow]]
        /\ \A t \in Subs : DOMAIN att[t] \subseteq DOMAIN att'[t]
    BY ProcessorEffect, ProcessorRows
  <1>w. wait' \in [Workers -> [Loops -> Refresh]]
    BY StepKeepsWaits
  <1>3. TypeOK'
    BY <1>1, <1>2, <1>w DEF TypeOK, MemoryKept
  <1>4. DispatchersRefer'
    <2>1. \A x \in Workers : disp'[x] = disp[x] \/ disp'[x].pc = "idle"
      BY <1>1 DEF MemoryKept, Idle
    <2> QED
      BY <1>2, <2>1 DEF DispatchersRefer, ProcessorTypes, TypeInv
  <1>5. EventsRefer'
    <2>1. /\ \A i \in DOMAIN reqs : reqs[i].sub \in Subs
          /\ \A i \in DOMAIN ress : ress[i].sub \in Subs
      BY EventSubjects DEF ProcessorTypes, TypeInv
    <2>2. SameEvents(reqs', reqs) /\ SameEvents(ress', ress)
      BY <1>1 DEF MemoryKept
    <2> QED
      BY <1>2, <2>1, <2>2 DEF EventsRefer, SameEvents, ProcessorTypes, TypeInv
  <1> QED
    BY <1>1, <1>3, <1>4, <1>5 DEF ProcessorTypes, TypeInv, MemoryKept

LEMMA RecoverTypes ==
    ASSUME ProcessorTypes, NEW s \in Subs, RecoverDeadJudgeTask(s)
    PROVE  ProcessorTypes'
  <1>1. sub' \in [Subs -> SubStatuses]
    BY DEF RecoverDeadJudgeTask, ProcessorTypes, TypeInv, TypeOK, SubStatuses, OpenStatuses
  <1>2. task' \in [Subs -> TaskRow]
    BY DEF RecoverDeadJudgeTask, RecoveredTask, ProcessorTypes, TypeInv, TypeOK, TaskRow, TaskStatuses
  <1> QED
    BY <1>1, <1>2 DEF RecoverDeadJudgeTask, ProcessorTypes, TypeInv, TypeOK, DispatchersRefer, EventsRefer,
                      ProcessorsRefer, mem

LEMMA ProcessorTypesStep == ProcessorTypes /\ [ProcessorNext]_vars => ProcessorTypes'
  <1>1. ASSUME ProcessorTypes, [Next]_vars PROVE ProcessorTypes'
    BY <1>1, TypeInvStep, PipelineKeepsProcessors DEF ProcessorTypes
  <1> QED
    BY <1>1, ProcessorStepTypes, RecoverTypes DEF ProcessorNext, runWorkerRecoverDeadTask

-----------------------------------------------------------------------------
(* Rejudge batches                                                         *)

\* The dead task's submission has one item in work, in the batch recounted.
LEMMA FailKeepsBatches ==
    ASSUME BatchInv, NEW s \in Subs, FailsItem(s)
    PROVE  NoItemsBeforeBatch' /\ OneActiveItem' /\ RowsFit'
  <1>1. TypeOK /\ item' = FailActiveRejudgeBatchItemByTaskID(s)
    BY DEF BatchInv, TypeInv, FailsItem
  <1>2. \A b \in Batches, t \in Subs :
           IF t = s /\ Active(item[b][t]) THEN item'[b][t].status = "failed" ELSE item'[b][t] = item[b][t]
    BY <1>1, FailedItems
  <1>3. \A b \in Batches, t \in Subs : Active(item'[b][t]) => Active(item[b][t])
    BY <1>2 DEF Active
  <1>4. OneActiveItem'
    BY <1>3 DEF BatchInv, OneActiveItem, Active
  <1>5. \A b \in Batches, t \in Subs : item[b][t].status = "none" => item'[b][t].status = "none"
    BY <1>2 DEF Active
  <1>6. CASE (\A b \in Batches : ~Active(item[b][s])) /\ UNCHANGED batch
    <2>1. \A b \in Batches, t \in Subs : item'[b][t] = item[b][t]
      BY <1>2, <1>6
    <2>2. \A b \in Batches : SameItems(b)
      BY <2>1 DEF SameItems, ItemsWith, ActiveItems
    <2>3. RowsFit'
      BY <1>6, <2>2, SameItemsFit DEF BatchInv, RowsFit
    <2>4. NoItemsBeforeBatch'
      BY <1>6, <2>1 DEF BatchInv, NoItemsBeforeBatch
    <2> QED
      BY <1>4, <2>3, <2>4
  <1>7. ASSUME NEW b \in Batches, NEW m \in SUBSET Subs, Active(item[b][s]),
               batch' = RefreshRejudgeBatchProgress(b, item', m)
        PROVE  NoItemsBeforeBatch' /\ RowsFit'
    <2>1. batch[b].status \in {"queued", "running", "canceled"}
      BY <1>7, WorkedOnIsOpen
    <2>2. \A c \in Batches : c # b => ~Active(item[c][s])
      BY <1>7 DEF BatchInv, OneActiveItem
    <2>3. \A c \in Batches, t \in Subs : c # b => item'[c][t] = item[c][t]
      BY <1>2, <2>2
    <2>4. \A c \in Batches : c # b => SameItems(c)
      BY <2>3 DEF SameItems, ItemsWith, ActiveItems
    <2>5. RowsFit'
      BY <1>1, <1>7, <2>1, <2>4, Recounted DEF BatchInv
    <2>6. \A c \in Batches : batch'[c].status = "none" => batch[c].status = "none"
      BY <1>1, <1>7, RefreshType
    <2>7. NoItemsBeforeBatch'
      BY <1>5, <2>6 DEF BatchInv, NoItemsBeforeBatch
    <2> QED
      BY <2>5, <2>7
  <1> QED
    BY <1>4, <1>6, <1>7 DEF FailsItem

LEMMA SameBatches ==
    ASSUME BatchInv, UNCHANGED <<batch, item>>
    PROVE  NoItemsBeforeBatch' /\ OneActiveItem' /\ RowsFit'
  <1>1. OneActiveItem' /\ NoItemsBeforeBatch'
    BY DEF BatchInv, OneActiveItem, NoItemsBeforeBatch, Active
  <1>2. \A b \in Batches : SameItems(b)
    BY DEF SameItems, ItemsWith, ActiveItems
  <1>3. RowsFit'
    BY <1>2, SameItemsFit DEF BatchInv, RowsFit
  <1> QED
    BY <1>1, <1>3

-----------------------------------------------------------------------------
(* Dead tasks                                                              *)

\* Nothing in JudgePipeline declares a task dead.
LEMMA NoTaskDies ==
    ASSUME TypeInv, [Next]_vars, NEW s \in Subs, task'[s].status = "dead"
    PROVE  task[s].status = "dead"
  <1>0. task \in [Subs -> TaskRow] /\ task[s] \in TaskRow
    BY DEF TypeInv, TypeOK
  <1>1. ASSUME NEW r \in Subs, CreateSubmission(r) \/ ResetStaleJudgeTask(r) PROVE task[s].status = "dead"
    BY <1>0, <1>1 DEF CreateSubmission, ResetStaleJudgeTask, TaskRow
  <1>2. ASSUME NEW b \in Batches, CreateRejudgeBatch(b) \/ CancelRejudgeBatch(b) PROVE task[s].status = "dead"
    <2>1. CASE CreateRejudgeBatch(b)
      BY <1>0, <2>1 DEF CreateRejudgeBatch, PrepareJudgeTaskForRejudge
    <2>2. CASE CancelRejudgeBatch(b)
      BY <1>0, <2>2 DEF CancelRejudgeBatch, TaskRow
    <2> QED
      BY <1>2, <2>1, <2>2
  <1>3. ASSUME NEW w \in Workers, ClaimPendingJudgeTasks(w) PROVE task[s].status = "dead"
    BY <1>0, <1>3 DEF ClaimPendingJudgeTasks, TaskRow
  <1>4. ASSUME NEW w \in Workers, RetryJudgeTask(w) PROVE task[s].status = "dead"
    BY <1>0, <1>4 DEF RetryJudgeTask, Retried
  <1>5. ASSUME NEW w \in Workers, MarkJudgeTaskDispatched(w) PROVE task[s].status = "dead"
    <2>1. \/ UNCHANGED task
          \/ \E r : task' = [task EXCEPT ![r].status = IF @ = "dispatching" THEN "dispatched" ELSE @]
      BY <1>5 DEF MarkJudgeTaskDispatched
    <2> QED
      BY <1>0, <2>1 DEF TaskRow
  <1>6. ASSUME NEW w \in Workers, CompleteResult(w) PROVE task[s].status = "dead"
    <2>1. UNCHANGED task \/ \E r : task' = MarkJudgeTaskDone(r)
      BY <1>6 DEF CompleteResult, WriteVerdict, db
    <2> QED
      BY <1>0, <2>1 DEF MarkJudgeTaskDone, TaskRow
  <1>7. ASSUME NEW w \in Workers,
               ReadSubmission(w) \/ MarkSubmissionRunning(w) \/ EnsureJudgeAttempt(w) \/ Publish(w)
                 \/ ResultConsume(w) \/ ResultAck(w) \/ BuildFails(w) \/ EnsureFails(w)
                 \/ PublishError(w) \/ WorkerCrash(w)
        PROVE  UNCHANGED task
    BY <1>7 DEF ReadSubmission, MarkSubmissionRunning, EnsureJudgeAttempt, Publish, ResultConsume,
                ResultAck, BuildFails, EnsureFails, PublishError, WorkerCrash, db
  <1>8. ASSUME NEW a \in Agents, AgentStep(a) \/ AgentFails(a) \/ AgentCrash(a)
        PROVE  UNCHANGED task
    BY <1>8 DEF AgentStep, AgentConsume, AgentPublish, AgentAck, AgentFails, AgentCrash, db
  <1>9. CASE UNCHANGED vars
    BY <1>9 DEF vars
  <1>10. ASSUME NEW w \in Workers, EnsureWaits(w) \/ CompleteWaits(w) PROVE UNCHANGED task
    BY <1>10, WaitingChangesNothing
  <1> QED
    BY <1>1, <1>2, <1>3, <1>4, <1>5, <1>6, <1>7, <1>8, <1>9, <1>10
    DEF Next, DispatchStep, ResultStep, ResetAbandoned, ResetStalled

\* JudgePipeline reopens a submission, or gives it a new item, only together
\* with its task.
LEMMA PipelineKeepsSettled ==
    ASSUME BatchInv, DeadTaskIsSettled, [Next]_vars
    PROVE  DeadTaskIsSettled'
  <1> SUFFICES ASSUME NEW s \in Subs, task'[s].status = "dead"
               PROVE  terminalStatus(sub'[s]) /\ \A b \in Batches : ~Active(item'[b][s])
    BY DEF DeadTaskIsSettled, terminalStatus, Active
  <1>0. TypeInv /\ TypeOK /\ sub \in [Subs -> SubStatuses] /\ item \in [Batches -> [Subs -> ItemRow]]
    BY DEF BatchInv, TypeInv, TypeOK
  <1>1. task[s].status = "dead" /\ terminalStatus(sub[s]) /\ \A b \in Batches : ~Active(item[b][s])
    BY <1>0, NoTaskDies DEF DeadTaskIsSettled
  <1>2. ASSUME NEW c \in Batches, CreateRejudgeBatch(c) PROVE FALSE
    BY <1>1, <1>2 DEF CreateRejudgeBatch, PrepareJudgeTaskForRejudge
  <1>3. ASSUME NEW c \in Batches, CancelRejudgeBatch(c)
        PROVE  terminalStatus(sub'[s]) /\ \A b \in Batches : ~Active(item'[b][s])
    <2>1. s \notin ItemsWith(item, c, "queued")
      BY <1>1 DEF ItemsWith, Active
    <2>2. sub'[s] = sub[s] /\ \A b \in Batches : item'[b][s] = item[b][s]
      BY <1>0, <1>3, <2>1 DEF CancelRejudgeBatch
    <2> QED
      BY <1>1, <2>2
  <1>4. ASSUME ~\E c \in Batches : CreateRejudgeBatch(c) \/ CancelRejudgeBatch(c)
        PROVE  terminalStatus(sub'[s])
    <2>1. CASE OpensAttempt
      BY <1>1, <2>1 DEF OpensAttempt
    <2>2. CASE WritesVerdict
      <3>1. PICK r \in Subs, v \in Verdicts : sub' = [sub EXCEPT ![r] = v]
        BY <2>2 DEF WritesVerdict, Writes
      <3> QED
        BY <1>0, <1>1, <3>1 DEF terminalStatus
    <2> QED
      BY <1>0, <1>1, <1>4, <2>1, <2>2, TerminalSteps
  <1>5. ASSUME ~\E c \in Batches : CreateRejudgeBatch(c) \/ CancelRejudgeBatch(c), NEW b \in Batches
        PROVE  ~Active(item'[b][s])
    <2>1. CASE UNCHANGED <<batch, item>>
      BY <1>1, <2>1
    <2>2. CASE StartsItem
      <3>1. PICK t \in Subs, n \in Nat : item' = StartRejudgeBatchItem(t, n)
        BY <2>2 DEF StartsItem
      <3> QED
        BY <1>0, <1>1, <3>1, StartedItems DEF Active
    <2>3. CASE FinishesItem
      <3>1. PICK t \in Subs, n \in Nat : item' = FinishRejudgeBatchItem(t, n)
        BY <2>3 DEF FinishesItem
      <3> QED
        BY <1>0, <1>1, <3>1, FinishedItems DEF Active
    <2> QED
      BY <1>0, <1>5, <2>1, <2>2, <2>3, BatchSteps
  <1> QED
    BY <1>2, <1>3, <1>4, <1>5

\* The processor declares a task dead together with its submission and item,
\* and takes no verdict back.
LEMMA ProcessorKeepsSettled ==
    ASSUME ProcessorTypes, DeadTaskIsSettled,
           WritesNothing \/ \E s \in Subs : MovesTask(s) \/ SetsOpen(s) \/ JudgesItself(s) \/ KillsTask(s)
    PROVE  DeadTaskIsSettled'
  <1> SUFFICES ASSUME NEW r \in Subs, task'[r].status = "dead"
               PROVE  terminalStatus(sub'[r]) /\ \A b \in Batches : ~Active(item'[b][r])
    BY DEF DeadTaskIsSettled, terminalStatus, Active
  <1>0. TypeOK /\ sub \in [Subs -> SubStatuses] /\ task \in [Subs -> TaskRow]
    BY DEF ProcessorTypes, TypeInv, TypeOK
  <1>1. task[r].status = "dead" => terminalStatus(sub[r]) /\ \A b \in Batches : ~Active(item[b][r])
    BY DEF DeadTaskIsSettled
  <1>2. CASE WritesNothing
    BY <1>1, <1>2 DEF WritesNothing
  <1>3. ASSUME NEW s \in Subs, MovesTask(s)
        PROVE  terminalStatus(sub'[r]) /\ \A b \in Batches : ~Active(item'[b][r])
    BY <1>0, <1>1, <1>3 DEF MovesTask
  <1>4. ASSUME NEW s \in Subs, SetsOpen(s)
        PROVE  terminalStatus(sub'[r]) /\ \A b \in Batches : ~Active(item'[b][r])
    BY <1>0, <1>1, <1>4 DEF SetsOpen
  <1>5. ASSUME NEW s \in Subs, JudgesItself(s)
        PROVE  terminalStatus(sub'[r]) /\ \A b \in Batches : ~Active(item'[b][r])
    BY <1>0, <1>1, <1>5 DEF JudgesItself
  <1>6. ASSUME NEW s \in Subs, KillsTask(s)
        PROVE  terminalStatus(sub'[r]) /\ \A b \in Batches : ~Active(item'[b][r])
    <2>1. \A b \in Batches, t \in Subs :
             IF t = s /\ Active(item[b][t]) THEN item'[b][t].status = "failed" ELSE item'[b][t] = item[b][t]
      BY <1>0, <1>6, FailedItems DEF KillsTask, FailsItem
    <2>2. CASE r = s
      <3>1. terminalStatus(sub'[r])
        BY <1>0, <1>6, <2>2, ProcessorAssumption DEF KillsTask, terminalStatus
      <3>2. \A b \in Batches : ~Active(item'[b][r])
        BY <2>1, <2>2 DEF Active
      <3> QED
        BY <3>1, <3>2
    <2>3. CASE r # s
      <3>1. task[r].status = "dead" /\ sub'[r] = sub[r]
        BY <1>0, <1>6, <2>3 DEF KillsTask
      <3>2. \A b \in Batches : item'[b][r] = item[b][r]
        BY <2>1, <2>3
      <3> QED
        BY <1>1, <3>1, <3>2
    <2> QED
      BY <2>2, <2>3
  <1> QED
    BY <1>2, <1>3, <1>4, <1>5, <1>6

LEMMA RecoverKeepsSettled ==
    ASSUME ProcessorTypes, DeadTaskIsSettled, NEW s \in Subs, RecoverDeadJudgeTask(s)
    PROVE  DeadTaskIsSettled'
  <1>1. sub \in [Subs -> SubStatuses] /\ task \in [Subs -> TaskRow]
    BY DEF ProcessorTypes, TypeInv, TypeOK
  <1>2. /\ task'[s].status = "pending" /\ UNCHANGED item
        /\ \A r \in Subs : r # s => task'[r] = task[r] /\ sub'[r] = sub[r]
    BY <1>1 DEF RecoverDeadJudgeTask, RecoveredTask
  <1> QED
    BY <1>2 DEF DeadTaskIsSettled, terminalStatus, Active

-----------------------------------------------------------------------------
(* The invariant of the whole                                              *)

ProcessorInv == ProcessorTypes /\ BatchInv /\ DeadTaskIsSettled

LEMMA ProcessorInvStep == ProcessorInv /\ [ProcessorNext]_vars => ProcessorInv'
  <1> SUFFICES ASSUME ProcessorInv, [ProcessorNext]_vars PROVE ProcessorInv'
    OBVIOUS
  <1>1. ProcessorTypes'
    BY ProcessorTypesStep DEF ProcessorInv
  <1>2. CASE [Next]_vars
    BY <1>1, <1>2, BatchStep, PipelineKeepsSettled DEF ProcessorInv
  <1>3. ASSUME NEW w \in Workers, ProcessorStep(w) PROVE ProcessorInv'
    <2>1. WritesNothing \/ \E s \in Subs : MovesTask(s) \/ SetsOpen(s) \/ JudgesItself(s) \/ KillsTask(s)
      BY <1>3, ProcessorEffect DEF ProcessorInv
    <2>2. UNCHANGED <<batch, item>> \/ \E s \in Subs : FailsItem(s)
      BY <2>1 DEF WritesNothing, MovesTask, SetsOpen, JudgesItself, KillsTask
    <2>3. NoItemsBeforeBatch' /\ OneActiveItem' /\ RowsFit'
      BY <2>2, SameBatches, FailKeepsBatches DEF ProcessorInv
    <2>4. DeadTaskIsSettled'
      BY <2>1, ProcessorKeepsSettled DEF ProcessorInv
    <2> QED
      BY <1>1, <2>3, <2>4 DEF ProcessorInv, ProcessorTypes, BatchInv
  <1>4. ASSUME NEW s \in Subs, RecoverDeadJudgeTask(s) PROVE ProcessorInv'
    <2>1. UNCHANGED <<batch, item>>
      BY <1>4 DEF RecoverDeadJudgeTask
    <2>2. NoItemsBeforeBatch' /\ OneActiveItem' /\ RowsFit'
      BY <2>1, SameBatches DEF ProcessorInv
    <2>3. DeadTaskIsSettled'
      BY <1>4, RecoverKeepsSettled DEF ProcessorInv
    <2> QED
      BY <1>1, <2>2, <2>3 DEF ProcessorInv, ProcessorTypes, BatchInv
  <1> QED
    BY <1>2, <1>3, <1>4 DEF ProcessorNext, runWorkerRecoverDeadTask

LEMMA ProcessorInvariant == ProcessorSpec => []ProcessorInv
  <1>1. Init => ProcessorInv
    <2>1. Init => ProcessorsRefer /\ DeadTaskIsSettled
      BY DEF Init, ProcessorsRefer, NoMessage, DeadTaskIsSettled
    <2> QED
      BY <2>1, TypeInvInit, BatchInit DEF ProcessorInv, ProcessorTypes
  <1> QED
    BY <1>1, ProcessorInvStep, PTL DEF ProcessorSpec

\* MarkJudgeTaskDead: whoever retries, judges or reports beside it, a dead task
\* never leaves its submission waiting or an item of it in work.
THEOREM DeadTasksSettled == ProcessorSpec => []DeadTaskIsSettled
  BY ProcessorInvariant, PTL DEF ProcessorInv

\* With the processor too, the rows, events and processes keep their types, no
\* counter of a rejudge batch exceeds its items, however long a refresh waited
\* for the batch row, and a batch reported completed or failed has no item in
\* work and exact counters.
THEOREM ProcessorKeepsBatches ==
    ProcessorSpec => [](TypeOK /\ BatchNeverOvercounts /\ ClosedBatchIsSettled)
  BY ProcessorInvariant, RowsFitMeans, PTL DEF ProcessorInv, BatchInv, TypeInv

\* An agent and a worker may judge the same request side by side, and late
\* results arrive for tasks retried, dead or recovered: a verdict a user has
\* seen still changes only when a rejudge batch takes the submission in or an
\* operator recovers its dead task.
THEOREM VerdictsReopened == ProcessorSpec => VerdictOnlyByReopening
  <1> DEFINE Reopened(s) ==
         \/ \E b \in Batches : item[b][s].status = "none" /\ item'[b][s].status = "queued"
         \/ task[s].status = "dead" /\ task'[s].status = "pending"
  <1>1. ASSUME ProcessorInv, [ProcessorNext]_vars, NEW s \in Subs, terminalStatus(sub[s]), sub'[s] # sub[s]
        PROVE  Reopened(s)
    <2>0. sub \in [Subs -> SubStatuses] /\ task \in [Subs -> TaskRow]
      BY <1>1 DEF ProcessorInv, ProcessorTypes, TypeInv, TypeOK
    <2>1. CASE [Next]_vars
      BY <1>1, <2>1, VerdictStep DEF ProcessorInv, BatchInv
    <2>2. ASSUME NEW w \in Workers, ProcessorStep(w) PROVE FALSE
      <3>1. WritesNothing \/ \E t \in Subs : MovesTask(t) \/ SetsOpen(t) \/ JudgesItself(t) \/ KillsTask(t)
        BY <1>1, <2>2, ProcessorEffect DEF ProcessorInv
      <3> QED
        BY <1>1, <2>0, <3>1 DEF WritesNothing, MovesTask, SetsOpen, JudgesItself, KillsTask
    <2>3. ASSUME NEW t \in Subs, RecoverDeadJudgeTask(t) PROVE Reopened(s)
      BY <1>1, <2>0, <2>3 DEF RecoverDeadJudgeTask, RecoveredTask
    <2> QED
      BY <1>1, <2>1, <2>2, <2>3 DEF ProcessorNext, runWorkerRecoverDeadTask
  <1>2. ProcessorInv /\ [ProcessorNext]_vars =>
           [\A s \in Subs : terminalStatus(sub[s]) /\ sub'[s] # sub[s] => Reopened(s)]_vars
    BY <1>1
  <1> QED
    BY <1>2, ProcessorInvariant, PTL DEF ProcessorSpec, VerdictOnlyByReopening

=============================================================================
