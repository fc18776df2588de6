---------------------------- MODULE TaskProcessor ----------------------------
(***************************************************************************)
(* The judging pipeline when the agents read the request stream through    *)
(* the workers' own consumer group (redis.agent_group = redis.group).      *)
(* The reconciler of a worker then claims requests that sat in a pending   *)
(* list for five minutes and runs them through TaskProcessor: in-process   *)
(* judging, retries, dead tasks and the operator's recovery of those.      *)
(* With the default, distinct groups the reconciler has nothing to claim   *)
(* and JudgePipeline is the whole system.                                  *)
(***************************************************************************)
EXTENDS JudgePipeline

CONSTANTS
    EngineVerdicts,  \* what the worker's own engine answers; {} in production
    SystemError,     \* the verdict of a task that died
    MaxTries         \* TaskFailureHandler.maxAttempts

ASSUME ProcessorAssumption ==
    /\ EngineVerdicts \subseteq Verdicts
    /\ SystemError \in Verdicts
    /\ MaxTries \in Nat

Goto(w, pc) == proc' = [proc EXCEPT ![w].pc = pc]
Entry(w) == reqs[proc[w].entry]
Subject(w) == Entry(w).sub

\* A reconciler error ends the worker like any other.
Fail(w) == Exit(w) /\ UNCHANGED <<sub, task, att, result, batch, item>>

-----------------------------------------------------------------------------
\* XAUTOCLAIM by w: an entry of a dead consumer, or of one that has been busy
\* with it for minutes and stays so.
ClaimStale(w) ==
    /\ proc[w].pc = "idle"
    /\ \E i \in DOMAIN reqs :
          /\ reqs[i].state \in {"orphan", "held", "judged"}
          /\ IF reqs[i].state = "orphan" THEN UNCHANGED faults ELSE Fault("stall")
          /\ proc' = [proc EXCEPT ![w] = [NoMessage EXCEPT !.pc = "task", !.entry = i]]
    /\ UNCHANGED <<db, reqs, ress, wait, disp>>

\* processMessage reads the task ...
GetJudgeTask(w) ==
    /\ proc[w].pc = "task"
    /\ IF task[Subject(w)].status \in {"done", "dead"}
       THEN Goto(w, "ack")
       ELSE proc' = [proc EXCEPT ![w].pc = "submission",
                                 ![w].attempts = task[Subject(w)].attempts]
    /\ UNCHANGED <<db, reqs, ress, wait, disp, faults>>

\* ... then the submission, whose task is closed if it is judged already.
GetSubmission(w) ==
    /\ proc[w].pc = "submission"
    /\ IF terminalStatus(sub[Subject(w)])
       THEN Goto(w, "close")
       ELSE proc' = [proc EXCEPT ![w].pc = "start", ![w].seen = sub[Subject(w)]]
    /\ UNCHANGED <<db, reqs, ress, wait, disp, faults>>

MarkJudgeTaskRunning(w) ==
    /\ proc[w].pc = "start"
    /\ Unlocked(Subject(w))
    /\ \/ /\ TaskActive(Subject(w))
          /\ task' = [task EXCEPT ![Subject(w)].status = "running"]
          /\ Goto(w, IF proc[w].seen = "queued" THEN "mark" ELSE "judge")
          /\ UNCHANGED <<sub, att, result, batch, item, ress, wait, disp>>
       \/ /\ ~TaskActive(Subject(w))
          /\ Fail(w)
    /\ UNCHANGED <<reqs, faults>>

\* A submission no longer queued is an error that costs a retry.
MarkRunning(w) ==
    /\ proc[w].pc = "mark"
    /\ Unlocked(Subject(w))
    /\ IF sub[Subject(w)] = "queued"
       THEN /\ sub' = [sub EXCEPT ![Subject(w)] = "running"]
            /\ Goto(w, "judge")
       ELSE /\ Goto(w, "retry")
            /\ UNCHANGED sub
    /\ UNCHANGED <<task, att, result, batch, item, reqs, ress, wait, disp, faults>>

\* A read or MarkSubmissionRunning fails, or artifact, source, language,
\* testcases, engine or completeSubmission do.
JudgeFails(w) ==
    /\ proc[w].pc \in {"submission", "mark", "judge"}
    /\ Goto(w, "retry")
    /\ UNCHANGED <<db, reqs, ress, wait, disp, faults>>

\* persistJudgeResult: the verdict's attempt is created finished and projected.
persistJudgeResult(s, v) ==
    /\ att' = [att EXCEPT ![s] = Append(@, [status |-> v, batch |-> None])]
    /\ result' = [result EXCEPT ![s] = UpsertSubmissionResult(s, Len(att[s]) + 1, v)]

\* completeSubmission: the in-process verdict gets an attempt of its own, linked
\* to no task and no batch; a submission judged meanwhile keeps its verdict.
JudgeInProcess(w) ==
    LET s == Subject(w)
    IN  /\ proc[w].pc = "judge"
        /\ Holders(s) = {}
        /\ \E v \in EngineVerdicts :
              \/ /\ ~terminalStatus(sub[s])
                 /\ Len(att[s]) < MaxAttempts
                 /\ sub' = UpdateSubmissionStatus(s, v)
                 /\ persistJudgeResult(s, v)
              \/ /\ terminalStatus(sub[s])
                 /\ UNCHANGED <<sub, att, result>>
        /\ Goto(w, "close")
        /\ UNCHANGED <<task, batch, item, reqs, ress, wait, disp, faults>>

CloseTask(w) ==
    /\ proc[w].pc = "close"
    /\ Unlocked(Subject(w))
    /\ \/ /\ TaskActive(Subject(w))
          /\ task' = MarkJudgeTaskDone(Subject(w))
          /\ Goto(w, "ack")
          /\ UNCHANGED <<sub, att, result, batch, item, ress, wait, disp>>
       \/ /\ ~TaskActive(Subject(w))
          /\ Fail(w)
    /\ UNCHANGED <<reqs, faults>>

\* The agent that still executes the request acknowledges it itself.
Ack(w) ==
    /\ proc[w].pc = "ack"
    /\ reqs' = IF Entry(w).state = "orphan"
               THEN [reqs EXCEPT ![proc[w].entry].state = "acked"] ELSE reqs
    /\ proc' = [proc EXCEPT ![w] = NoMessage]
    /\ UNCHANGED <<db, ress, wait, disp, faults>>

-----------------------------------------------------------------------------
(* TaskFailureHandler.retryOrDead                                          *)

\* The count read with the task, not the one it has by now
BudgetSpent(w) == proc[w].attempts >= MaxTries

Retry(w) ==
    /\ proc[w].pc = "retry"
    /\ ~BudgetSpent(w)
    /\ Unlocked(Subject(w))
    /\ \/ /\ TaskActive(Subject(w))
          /\ task' = [task EXCEPT ![Subject(w)] = Retried(Subject(w))]
          /\ Goto(w, "requeue")
          /\ UNCHANGED <<sub, att, result, batch, item, ress, wait, disp>>
       \/ /\ ~TaskActive(Subject(w))
          /\ Fail(w)
    /\ UNCHANGED <<reqs, faults>>

\* MarkSubmissionQueued leaves a terminal submission alone.
MarkSubmissionQueued(s) ==
    IF terminalStatus(sub[s]) THEN sub ELSE [sub EXCEPT ![s] = "queued"]

Requeue(w) ==
    /\ proc[w].pc = "requeue"
    /\ Unlocked(Subject(w))
    /\ sub' = MarkSubmissionQueued(Subject(w))
    /\ Goto(w, "ack")
    /\ UNCHANGED <<task, att, result, batch, item, reqs, ress, wait, disp, faults>>

\* Mutant: the dead task leaves its submission waiting.
SubmissionLeftOpen(s) == sub

\* markSubmissionSystemError
SystemErrorUnlessJudged(s) ==
    IF terminalStatus(sub[s]) THEN sub ELSE [sub EXCEPT ![s] = SystemError]

DeadTask(s) == [task EXCEPT ![s].status = "dead"]

\* FailActiveRejudgeBatchItemByTaskID
FailActiveRejudgeBatchItemByTaskID(s) ==
    [b \in Batches |-> IF Active(item[b][s]) THEN [item[b] EXCEPT ![s].status = "failed"]
                       ELSE item[b]]

OpenIn(s) == {b \in Batches : Active(item[b][s])}

\* MarkJudgeTaskDead: task, submission, rejudge item and batch in one
\* transaction.
MarkJudgeTaskDead(w) ==
    LET s == Subject(w)
        items == FailActiveRejudgeBatchItemByTaskID(s)
    IN  /\ proc[w].pc = "retry"
        /\ BudgetSpent(w)
        /\ Holders(s) \subseteq {<<w, "process">>}
        /\ \/ /\ TaskActive(s)
              /\ task' = DeadTask(s)
              /\ sub' = SystemErrorUnlessJudged(s)
              /\ item' = items
              /\ \/ OpenIn(s) = {} /\ UNCHANGED batch
                 \/ \E b \in OpenIn(s) :
                       batch' = RefreshRejudgeBatchProgress(b, items, wait[w]["process"].missed)
              /\ wait' = [Overtaken(items) EXCEPT ![w]["process"] = NotWaiting]
              /\ Goto(w, "dead")
              /\ UNCHANGED <<att, result, ress, disp>>
           \/ /\ ~TaskActive(s)
              /\ Fail(w)
        /\ UNCHANGED <<reqs, faults>>

\* ... which may have to wait for the batch.
MarkDeadWaits(w) ==
    LET s == Subject(w)
    IN  /\ proc[w].pc = "retry"
        /\ BudgetSpent(w)
        /\ TaskActive(s)
        /\ Holders(s) = {}
        /\ \E b \in OpenIn(s) : AwaitBatchRow(w, "process", s, b)

\* DeadLetter, its failure ignored, then Ack.
DeadLetterAndAck(w) ==
    /\ proc[w].pc = "dead"
    /\ reqs' = IF Entry(w).state = "orphan"
               THEN [reqs EXCEPT ![proc[w].entry].state = "dead"] ELSE reqs
    /\ proc' = [proc EXCEPT ![w] = NoMessage]
    /\ UNCHANGED <<db, ress, wait, disp, faults>>

RecoveredTask(s) == [task EXCEPT ![s] = [status |-> "pending", attempts |-> 0]]

\* The dead task goes back to the queue with a fresh budget, with its submission.
RecoverDeadJudgeTask(s) ==
    /\ task[s].status = "dead"
    /\ sub[s] = SystemError
    /\ task' = RecoveredTask(s)
    /\ sub' = [sub EXCEPT ![s] = "queued"]
    /\ UNCHANGED <<att, result, batch, item, reqs, ress, mem, faults>>

\* soj-worker recover-dead-task: an operator names a task.
runWorkerRecoverDeadTask == \E s \in Subs : RecoverDeadJudgeTask(s)

ProcessorStep(w) ==
    \/ ClaimStale(w) \/ GetJudgeTask(w) \/ GetSubmission(w)
    \/ MarkJudgeTaskRunning(w) \/ MarkRunning(w)
    \/ JudgeFails(w) \/ JudgeInProcess(w) \/ CloseTask(w)
    \/ Retry(w) \/ Requeue(w) \/ MarkJudgeTaskDead(w) \/ MarkDeadWaits(w)
    \/ DeadLetterAndAck(w) \/ Ack(w)

ProcessorNext ==
    \/ Next
    \/ \E w \in Workers : ProcessorStep(w)
    \/ runWorkerRecoverDeadTask

ProcessorSpec == Init /\ [][ProcessorNext]_vars
ProcessorFairSpec ==
    ProcessorSpec /\ Fairness /\ \A w \in Workers : WF_vars(ProcessorStep(w))

-----------------------------------------------------------------------------
\* A verdict once shown changes only when a rejudge item or the recovery of
\* its dead task reopens the submission, although agent and worker may now
\* judge the same request side by side.
VerdictOnlyByReopening ==
    [][\A s \in Subs :
          terminalStatus(sub[s]) /\ sub'[s] # sub[s] =>
             \/ \E b \in Batches : item[b][s].status = "none" /\ item'[b][s].status = "queued"
             \/ task[s].status = "dead" /\ task'[s].status = "pending"]_vars

\* The user of a dead task is never left waiting, and no rejudge counts on it:
\* its submission is terminal and no batch item of it is active
\* (docs/v2-worker.md, Dead Letter Policy).
DeadTaskIsSettled ==
    \A s \in Subs : task[s].status = "dead" =>
        /\ terminalStatus(sub[s])
        /\ \A b \in Batches : ~Active(item[b][s])
=============================================================================
