--------------------------- MODULE JudgePipeline ---------------------------
(***************************************************************************)
(* The asynchronous judging pipeline of SOJ: how a submission travels from *)
(* its PostgreSQL row over the Redis request stream to a judge agent and   *)
(* back over the result stream, and how rejudge batches reopen it.         *)
(*                                                                         *)
(* PostgreSQL transactions and single statements take effect when they     *)
(* commit; between two of them, or between one of them and a Redis call,   *)
(* any other process may run.  A transaction that refreshes a rejudge      *)
(* batch may have to wait for the batch row after it counted the items:    *)
(* its count is then as old as its wait.  A worker process runs a          *)
(* dispatcher and a result consumer; an error either of them returns ends  *)
(* the whole process, which its supervisor restarts with empty memory.     *)
(***************************************************************************)
EXTENDS Integers, Sequences, FiniteSets

CONSTANTS
    Subs,          \* submissions of one problem; each has exactly one judge task
    Workers,       \* soj-worker processes
    Agents,        \* soj-judge-agent processes
    Batches,       \* identities available for rejudge batches
    Verdicts,      \* the verdicts a judge may return
    None,          \* SQL NULL / nobody
    ClaimLimit,    \* LIMIT of ClaimPendingJudgeTasks
    ResultBatch,   \* COUNT of the result consumer's XREADGROUP
    Slots,         \* messages one agent executes at a time
    MaxAttempts,   \* bound: judge attempts per submission
    MaxRequests,   \* bound: requests in the stream when a task is last claimed
    Faults,        \* the kinds of fault that may occur
    MaxFaults      \* bound: how many faults occur in a behaviour

OpenStatuses == {"queued", "running"}
FaultKinds == {"worker", "publish", "build", "agent", "judge", "stall"}

ASSUME ConstantAssumption ==
    /\ None \notin Subs \cup Workers \cup Agents \cup Batches
    /\ IsFiniteSet(Subs)
    /\ Verdicts \cap (OpenStatuses \cup {"none", "created"}) = {}
    /\ ClaimLimit \in Nat \ {0}
    /\ ResultBatch \in Nat \ {0}
    /\ Slots \in Nat \ {0}
    /\ MaxAttempts \in Nat
    /\ MaxRequests \in Nat
    /\ MaxFaults \in Nat
    /\ Faults \subseteq FaultKinds

VARIABLES
    \* PostgreSQL
    sub,      \* submissions.status
    task,     \* judge_tasks: status and attempts (publish retries so far)
    att,      \* judge_attempts of a submission, by attempt_no
    result,   \* submission_results: the attempt projected, and its verdict
    batch,    \* rejudge_batches: status and the three counters
    item,     \* rejudge_batch_items: status and attempt_id (0 is NULL)
    wait,     \* open transactions whose batch refresh waits for the batch row
    \* Redis: each stream is a log; an entry's state is its place in the
    \* consumer group, and `by` the consumer whose pending list holds it
    reqs,
    ress,
    \* process memory
    disp,     \* what the dispatcher of a worker is doing
    proc,     \* the stale request its reconciler works on (module TaskProcessor)
    faults    \* faults so far

db == <<sub, task, att, result, batch, item>>
mem == <<wait, disp, proc>>
vars == <<sub, task, att, result, batch, item, wait, reqs, ress, disp, proc, faults>>

-----------------------------------------------------------------------------
(* Rows, events and process states                                         *)

SubStatuses == {"none"} \cup OpenStatuses \cup Verdicts
TaskStatuses == {"none", "pending", "dispatching", "dispatched", "running", "done", "dead"}
ItemStatuses == {"none", "queued", "running", "completed", "failed", "canceled"}
BatchStatuses == {"none", "queued", "running", "completed", "failed", "canceled"}
ReqStates == {"new", "held", "judged", "acked", "orphan", "dead"}
ResStates == {"new", "held", "written", "acked", "orphan"}

TaskRow == [status : TaskStatuses, attempts : Nat]
AttemptRow == [status : {"created"} \cup Verdicts, batch : Batches \cup {None}]
ResultRow == [attempt : Nat, status : {"none"} \cup Verdicts]
BatchRow == [status : BatchStatuses, completed : Nat, failed : Nat, canceled : Nat]
ItemRow == [status : ItemStatuses, attempt : Nat]

\* The loops of a worker that run transactions; a refresh of batch `of` that
\* waits in one for `sub`, and the items settled since it counted.
Loops == {"dispatch", "consume", "process"}
Refresh == [of : Batches \cup {None}, sub : Subs \cup {None}, missed : SUBSET Subs]
RequestEvent == [sub : Subs, no : Nat, state : ReqStates, by : Agents \cup {None}]
ResultEvent == [sub : Subs, no : Nat, verdict : Verdicts, state : ResStates,
                by : Workers \cup {None}]
Dispatcher == [pc : {"idle", "build", "mark", "ensure", "publish", "retry", "sent"},
               todo : SUBSET Subs, cur : Subs \cup {None}, no : Nat]
Processor == [pc : {"idle", "task", "submission", "start", "mark", "judge", "close",
                    "retry", "requeue", "ack", "dead"},
              entry : Nat, attempts : Nat, seen : SubStatuses]

NoResult == [attempt |-> 0, status |-> "none"]
NoItem == [status |-> "none", attempt |-> 0]
NoBatch == [status |-> "none", completed |-> 0, failed |-> 0, canceled |-> 0]
Idle == [pc |-> "idle", todo |-> {}, cur |-> None, no |-> 0]
NotWaiting == [of |-> None, sub |-> None, missed |-> {}]
NoMessage == [pc |-> "idle", entry |-> 0, attempts |-> 0, seen |-> "none"]

terminalStatus(status) == status \in Verdicts

\* MarkJudgeTaskDone, RetryJudgeTask: the statuses of a task somebody works on.
TaskActive(s) == task[s].status \in {"dispatching", "dispatched", "running"}

Active(row) == row.status \in {"queued", "running"}

\* Rows, events and the processes' local state have their types; a retry never
\* takes a counter outside its range.
TypeOK ==
    /\ sub \in [Subs -> SubStatuses]
    /\ task \in [Subs -> TaskRow]
    /\ att \in [Subs -> Seq(AttemptRow)]
    /\ result \in [Subs -> ResultRow]
    /\ batch \in [Batches -> BatchRow]
    /\ item \in [Batches -> [Subs -> ItemRow]]
    /\ wait \in [Workers -> [Loops -> Refresh]]
    /\ reqs \in Seq(RequestEvent)
    /\ ress \in Seq(ResultEvent)
    /\ disp \in [Workers -> Dispatcher]
    /\ proc \in [Workers -> Processor]
    /\ faults \in Nat

Init ==
    /\ sub = [s \in Subs |-> "none"]
    /\ task = [s \in Subs |-> [status |-> "none", attempts |-> 0]]
    /\ att = [s \in Subs |-> << >>]
    /\ result = [s \in Subs |-> NoResult]
    /\ batch = [b \in Batches |-> NoBatch]
    /\ item = [b \in Batches |-> [s \in Subs |-> NoItem]]
    /\ wait = [w \in Workers |-> [l \in Loops |-> NotWaiting]]
    /\ reqs = << >>
    /\ ress = << >>
    /\ disp = [w \in Workers |-> Idle]
    /\ proc = [w \in Workers |-> NoMessage]
    /\ faults = 0

-----------------------------------------------------------------------------
(* Faults and process exit                                                 *)

Fault(kind) ==
    /\ kind \in Faults
    /\ faults < MaxFaults
    /\ faults' = faults + 1

\* The result entries worker w read and did not acknowledge stay in the
\* pending list of a consumer that will only ever ask for ">" again.
Abandon(stream, p) ==
    [i \in DOMAIN stream |->
        IF stream[i].by = p
        THEN [stream[i] EXCEPT !.state = "orphan", !.by = None]
        ELSE stream[i]]

\* runWorkerLoops returns the first error of any loop and the process ends:
\* the dispatcher forgets its claimed batch, the result consumer its messages,
\* and PostgreSQL rolls its open transactions back.
Exit(w) ==
    /\ wait' = [wait EXCEPT ![w] = [l \in Loops |-> NotWaiting]]
    /\ disp' = [disp EXCEPT ![w] = Idle]
    /\ proc' = [proc EXCEPT ![w] = NoMessage]
    /\ ress' = Abandon(ress, w)

WorkerCrash(w) ==
    /\ disp[w] # Idle \/ proc[w] # NoMessage \/ \E i \in DOMAIN ress : ress[i].by = w
    /\ Fault("worker")
    /\ Exit(w)
    /\ UNCHANGED <<db, reqs>>

-----------------------------------------------------------------------------
(* soj-api: a new submission, its row and its task in one transaction      *)

InsertSubmission(s) == [sub EXCEPT ![s] = "queued"]
CreateJudgeTask(s) == [task EXCEPT ![s].status = "pending"]

CreateSubmission(s) ==
    /\ sub[s] = "none"
    /\ sub' = InsertSubmission(s)
    /\ task' = CreateJudgeTask(s)
    /\ UNCHANGED <<att, result, batch, item, reqs, ress, mem, faults>>

-----------------------------------------------------------------------------
(* Rejudge batches                                                         *)

ItemsWith(items, b, status) == {s \in Subs : items[b][s].status = status}

\* Mutant: only items already dispatched count as active.
RunningOnly(items, b) == ItemsWith(items, b, "running")

\* The items RefreshRejudgeBatchProgress counts as active.
ActiveItems(items, b) == {s \in Subs : Active(items[b][s])}

\* RefreshRejudgeBatchProgress: recount the items of b and derive its status.
\* The counts are those of the statement's snapshot, in which the items in
\* `missed` were still active; the batch row is the one it finds in the end.
\* A batch completed or failed has no active item left, and matches no row.
RefreshRejudgeBatchProgress(b, items, missed) ==
    LET active == ActiveItems(items, b) \cup missed
        counted(status) == ItemsWith(items, b, status) \ missed
    IN  IF batch[b].status \notin {"queued", "running", "canceled"} THEN batch
        ELSE [batch EXCEPT ![b] =
               [status    |-> CASE batch[b].status = "canceled" -> "canceled"
                                [] batch[b].status # "canceled" /\ active # {} -> "running"
                                [] batch[b].status # "canceled" /\ active = {} /\ counted("failed") # {} -> "failed"
                                [] OTHER -> "completed",
                completed |-> Cardinality(counted("completed")),
                failed    |-> Cardinality(counted("failed")),
                canceled  |-> Cardinality(counted("canceled"))]]

\* The items of b were counted for the transaction of s that a loop of w runs,
\* and the row of b is held by another transaction.
AwaitBatchRow(w, loop, s, b) ==
    /\ wait[w][loop] = NotWaiting
    /\ wait' = [wait EXCEPT ![w][loop] = [of |-> b, sub |-> s, missed |-> {}]]
    /\ UNCHANGED <<sub, task, att, result, batch, item, reqs, ress, disp, proc, faults>>

\* What the refreshes that wait do not see when the items become `items`.
Overtaken(items) ==
    [w \in Workers |-> [l \in Loops |->
        LET t == wait[w][l]
        IN  IF t.of = None THEN t
            ELSE [t EXCEPT !.missed = @ \cup (ActiveItems(item, t.of) \ ActiveItems(items, t.of))]]]

\* The transactions that wait with rows of s locked: the dispatcher's has its
\* item, its new attempt number and, by foreign key, task and submission in
\* share mode; the other two have updated task and submission.
Holders(s) == {h \in Workers \X Loops : wait[h[1]][h[2]].sub = s}
Unlocked(s) == \A w \in Workers : wait[w]["consume"].sub # s /\ wait[w]["process"].sub # s

\* The statements of CreateRejudgeBatchWithItems.
ListEligibleProblemSubmissionsForRejudge == {s \in Subs : terminalStatus(sub[s])}
InsertRejudgeBatch(b) == [batch EXCEPT ![b].status = "queued"]
CreateRejudgeBatchItem(s) == [status |-> "queued", attempt |-> 0]
PrepareJudgeTaskForRejudge(s) == [status |-> "pending", attempts |-> 0]
PrepareSubmissionForRejudge(s) == "queued"

\* Every terminal submission of the problem, or none: one task that is not
\* done or dead, or one active item, refuses the whole batch.
CreateRejudgeBatch(b) ==
    LET eligible == ListEligibleProblemSubmissionsForRejudge
    IN  /\ batch[b].status = "none"
        /\ eligible # {}
        /\ \A s \in eligible :
              /\ task[s].status \in {"done", "dead"}
              /\ \A c \in Batches : ~Active(item[c][s])
        /\ batch' = InsertRejudgeBatch(b)
        /\ item' = [item EXCEPT ![b] = [s \in Subs |->
                       IF s \in eligible THEN CreateRejudgeBatchItem(s) ELSE @[s]]]
        /\ task' = [s \in Subs |->
                       IF s \in eligible THEN PrepareJudgeTaskForRejudge(s) ELSE task[s]]
        /\ sub' = [s \in Subs |->
                       IF s \in eligible THEN PrepareSubmissionForRejudge(s) ELSE sub[s]]
        /\ UNCHANGED <<att, result, reqs, ress, mem, faults>>

\* Mutant: every item of the batch is counted as canceled.
CanceledAll(b, n) ==
    [batch[b] EXCEPT !.status = "canceled",
                     !.canceled = @ + Cardinality(Subs \ ItemsWith(item, b, "none"))]

\* The row CancelRejudgeBatch (SQL) writes when n items were canceled.
CanceledBatch(b, n) == [batch[b] EXCEPT !.status = "canceled", !.canceled = @ + n]

\* The other statements of CancelRejudgeBatch.
CancelQueuedRejudgeBatchItems(b, queued) ==
    [item EXCEPT ![b] = [s \in Subs |->
        IF s \in queued THEN [@[s] EXCEPT !.status = "canceled"] ELSE @[s]]]
CancelPendingJudgeTaskForRejudge(s) == [task[s] EXCEPT !.status = "done"]
RestoreSubmissionAfterCanceledRejudge(s) == result[s].status

\* Only items still queued are canceled, each with its pending task and its
\* submission put back to the projected verdict; one that cannot be put back
\* refuses the whole cancellation.
CancelRejudgeBatch(b) ==
    LET queued == ItemsWith(item, b, "queued")
    IN  /\ Active(batch[b])
        /\ \A s \in queued :
              /\ task[s].status = "pending"
              /\ sub[s] = "queued"
              /\ result[s] # NoResult
              /\ Holders(s) = {}
        /\ item' = CancelQueuedRejudgeBatchItems(b, queued)
        /\ task' = [s \in Subs |->
                       IF s \in queued THEN CancelPendingJudgeTaskForRejudge(s) ELSE task[s]]
        /\ sub' = [s \in Subs |->
                      IF s \in queued THEN RestoreSubmissionAfterCanceledRejudge(s) ELSE sub[s]]
        /\ batch' = [batch EXCEPT ![b] = CanceledBatch(b, Cardinality(queued))]
        /\ wait' = Overtaken(CancelQueuedRejudgeBatchItems(b, queued))
        /\ UNCHANGED <<att, result, reqs, ress, disp, proc, faults>>

-----------------------------------------------------------------------------
(* soj-worker: the dispatcher (TaskDispatcher.publish), one step per call  *)

\* ClaimPendingJudgeTasks, SKIP LOCKED; which pending tasks are due is up to
\* the clock.
ClaimPendingJudgeTasks(w) ==
    /\ disp[w].pc = "idle"
    /\ Len(reqs) < MaxRequests
    /\ \E T \in SUBSET {s \in Subs : task[s].status = "pending" /\ Holders(s) = {}} :
          /\ T # {}
          /\ Cardinality(T) <= ClaimLimit
          /\ task' = [s \in Subs |->
                        IF s \in T THEN [task[s] EXCEPT !.status = "dispatching"] ELSE task[s]]
          /\ disp' = [disp EXCEPT ![w] = [Idle EXCEPT !.pc = "build", !.todo = T]]
    /\ UNCHANGED <<sub, att, result, batch, item, reqs, ress, wait, proc, faults>>

\* submissionRequestEvent reads the submission; a status read as queued is
\* acted upon in the next step, when it may have changed.
ReadSubmission(w) ==
    /\ disp[w].pc = "build"
    /\ \E s \in disp[w].todo :
          disp' = [disp EXCEPT ![w] =
                     [pc |-> IF sub[s] = "queued" THEN "mark" ELSE "ensure",
                      todo |-> disp[w].todo \ {s}, cur |-> s, no |-> 0]]
    /\ UNCHANGED <<db, reqs, ress, wait, proc, faults>>

\* A disabled language, a missing artifact or testcase set: publish returns
\* the error without touching the task.
BuildFails(w) ==
    /\ disp[w].pc = "build"
    /\ Fault("build")
    /\ Exit(w)
    /\ UNCHANGED <<db, reqs>>

\* MarkSubmissionRunning ... WHERE status = 'queued'; no row is an error.
MarkSubmissionRunning(w) ==
    /\ disp[w].pc = "mark"
    /\ Unlocked(disp[w].cur)
    /\ IF sub[disp[w].cur] = "queued"
       THEN /\ sub' = [sub EXCEPT ![disp[w].cur] = "running"]
            /\ disp' = [disp EXCEPT ![w].pc = "ensure"]
            /\ UNCHANGED <<wait, ress, proc>>
       ELSE /\ Exit(w)
            /\ UNCHANGED sub
    /\ UNCHANGED <<task, att, result, batch, item, reqs, faults>>

\* StartRejudgeBatchItem for the queued item of s, if there is one.
StartRejudgeBatchItem(s, no) ==
    [b \in Batches |->
        IF item[b][s].status = "queued" /\ item[b][s].attempt = 0
        THEN [item[b] EXCEPT ![s] = [status |-> "running", attempt |-> no]]
        ELSE item[b]]

\* Mutant: every dispatch opens an attempt of its own.
NeverReusable(s) == FALSE

GetLatestJudgeAttemptBySubmissionID(s) == att[s][Len(att[s])]

\* The latest attempt of s exists and is not finished.
Reusable(s) ==
    Len(att[s]) > 0 /\ ~terminalStatus(GetLatestJudgeAttemptBySubmissionID(s).status)

GetQueuedRejudgeBatchItemByTaskID(s) == {b \in Batches : item[b][s].status = "queued"}
CreateJudgeAttempt(s, b) == Append(att[s], [status |-> "created", batch |-> b])

\* The unique index on rejudge_batch_items.attempt_id: an attempt serves one
\* item for ever, also when that item has failed since.
LinkTaken(s) ==
    /\ Reusable(s)
    /\ \E b \in Batches : item[b][s].status = "queued"
    /\ \E b \in Batches : item[b][s].attempt = Len(att[s])

\* The queued item cannot be linked, or another dispatcher is about to create
\* the same attempt_no: the transaction fails and the worker ends.
EnsureFails(w) ==
    /\ disp[w].pc = "ensure"
    /\ \/ LinkTaken(disp[w].cur)
       \/ \E v \in Workers \ {w} : wait[v]["dispatch"].sub = disp[w].cur
    /\ Exit(w)
    /\ UNCHANGED <<db, reqs, faults>>

\* The latest attempt serves again while it is unfinished; otherwise the
\* next one is created, linked to the batch whose queued item it starts.
EnsureJudgeAttempt(w) ==
    LET s == disp[w].cur
        last == Len(att[s])
        queuedIn == GetQueuedRejudgeBatchItemByTaskID(s)
    IN  /\ disp[w].pc = "ensure"
        /\ ~LinkTaken(s)
        /\ queuedIn = {} \/ Holders(s) \subseteq {<<w, "dispatch">>}
        /\ IF Reusable(s)
           THEN /\ item' = StartRejudgeBatchItem(s, last)
                /\ disp' = [disp EXCEPT ![w].pc = "publish", ![w].no = last]
                /\ UNCHANGED <<att, batch>>
           ELSE /\ last < MaxAttempts
                /\ item' = StartRejudgeBatchItem(s, last + 1)
                /\ disp' = [disp EXCEPT ![w].pc = "publish", ![w].no = last + 1]
                /\ \/ /\ queuedIn = {}
                      /\ att' = [att EXCEPT ![s] = CreateJudgeAttempt(s, None)]
                      /\ UNCHANGED batch
                   \/ \E b \in queuedIn :
                        /\ att' = [att EXCEPT ![s] = CreateJudgeAttempt(s, b)]
                        /\ batch' = RefreshRejudgeBatchProgress(b, StartRejudgeBatchItem(s, last + 1),
                                                                wait[w]["dispatch"].missed)
        /\ wait' = [wait EXCEPT ![w]["dispatch"] = NotWaiting]
        /\ UNCHANGED <<sub, task, result, reqs, ress, proc, faults>>

\* A new attempt for a queued item ends in a refresh, which may have to wait.
EnsureWaits(w) ==
    LET s == disp[w].cur
    IN  /\ disp[w].pc = "ensure"
        /\ ~Reusable(s)
        /\ Len(att[s]) < MaxAttempts
        /\ Holders(s) = {}
        /\ \E b \in GetQueuedRejudgeBatchItemByTaskID(s) : AwaitBatchRow(w, "dispatch", s, b)

Request(w) == [sub |-> disp[w].cur, no |-> disp[w].no, state |-> "new", by |-> None]

Publish(w) ==
    /\ disp[w].pc = "publish"
    /\ reqs' = Append(reqs, Request(w))
    /\ disp' = [disp EXCEPT ![w].pc = "sent"]
    /\ UNCHANGED <<db, ress, wait, proc, faults>>

\* XADD reports an error: the entry may or may not be in the stream.
PublishError(w) ==
    /\ disp[w].pc = "publish"
    /\ Fault("publish")
    /\ reqs' \in {reqs, Append(reqs, Request(w))}
    /\ disp' = [disp EXCEPT ![w].pc = "retry"]
    /\ UNCHANGED <<db, ress, wait, proc>>

\* Mutant: the retry counter runs backwards.
RetriedDown(s) == [status |-> "pending", attempts |-> task[s].attempts - 1]

\* The row RetryJudgeTask (SQL) writes.
Retried(s) == [status |-> "pending", attempts |-> task[s].attempts + 1]

\* RetryJudgeTask, its own error ignored, and publish returns the XADD error.
RetryJudgeTask(w) ==
    /\ disp[w].pc = "retry"
    /\ Unlocked(disp[w].cur)
    /\ task' = IF TaskActive(disp[w].cur)
               THEN [task EXCEPT ![disp[w].cur] = Retried(disp[w].cur)]
               ELSE task
    /\ Exit(w)
    /\ UNCHANGED <<sub, att, result, batch, item, reqs, faults>>

\* MarkJudgeTaskDispatched: a task that moved on meanwhile keeps its status;
\* one that is pending, dispatched or dead by now matches no row, an error.
MarkJudgeTaskDispatched(w) ==
    LET s == disp[w].cur
    IN  /\ disp[w].pc = "sent"
        /\ Unlocked(s)
        /\ IF task[s].status \in {"dispatching", "running", "done"}
           THEN /\ task' = [task EXCEPT ![s].status =
                              IF @ = "dispatching" THEN "dispatched" ELSE @]
                /\ disp' = [disp EXCEPT ![w] =
                              IF disp[w].todo = {} THEN Idle
                              ELSE [Idle EXCEPT !.pc = "build", !.todo = disp[w].todo]]
                /\ UNCHANGED <<wait, ress, proc>>
           ELSE /\ Exit(w)
                /\ UNCHANGED task
        /\ UNCHANGED <<sub, att, result, batch, item, reqs, faults>>

\* Mutant: only tasks an executor started are reset.
ResetRunningOnly(s) ==
    /\ task[s].status = "running"
    /\ sub[s] \in OpenStatuses
    /\ Unlocked(s)
    /\ task' = [task EXCEPT ![s].status = "pending"]
    /\ sub' = [sub EXCEPT ![s] = "queued"]
    /\ UNCHANGED <<att, result, batch, item, reqs, ress, mem>>

\* ResetStaleJudgeTasks: a task dispatching or running for 30 minutes, its
\* submission not terminal, becomes pending again, its submission queued.
ResetStaleJudgeTask(s) ==
    /\ task[s].status \in {"dispatching", "running"}
    /\ sub[s] \in OpenStatuses
    /\ Unlocked(s)
    /\ task' = [task EXCEPT ![s].status = "pending"]
    /\ sub' = [sub EXCEPT ![s] = "queued"]
    /\ UNCHANGED <<att, result, batch, item, reqs, ress, mem>>

Owned(s) ==
    \E w \in Workers :
        \/ s \in disp[w].todo \/ s = disp[w].cur
        \/ proc[w].pc # "idle" /\ reqs[proc[w].entry].sub = s

\* The clock catches every task whose dispatcher is gone ...
ResetAbandoned(s) ==
    /\ ~Owned(s)
    /\ ResetStaleJudgeTask(s)
    /\ UNCHANGED faults

\* ... and one whose dispatcher lives only if it stalls for that long.
ResetStalled(s) ==
    /\ Owned(s)
    /\ ResetStaleJudgeTask(s)
    /\ Fault("stall")

-----------------------------------------------------------------------------
(* soj-judge-agent                                                         *)

NewEntries(stream) == {i \in DOMAIN stream : stream[i].state = "new"}
HeldBy(stream, p) == {i \in DOMAIN stream : stream[i].by = p}

\* XREADGROUP ">" hands out entries in order, never one it handed out before.
AgentConsume(a) ==
    /\ Cardinality(HeldBy(reqs, a)) < Slots
    /\ \E i \in NewEntries(reqs) :
          /\ \A j \in NewEntries(reqs) : i <= j
          /\ reqs' = [reqs EXCEPT ![i].state = "held", ![i].by = a]
    /\ UNCHANGED <<db, ress, mem, faults>>

\* Judging, then publishAsyncResult; the messages of an agent run in parallel.
AgentPublish(a) ==
    /\ \E i \in HeldBy(reqs, a), v \in Verdicts :
          /\ reqs[i].state = "held"
          /\ reqs' = [reqs EXCEPT ![i].state = "judged"]
          /\ ress' = Append(ress, [sub |-> reqs[i].sub, no |-> reqs[i].no, verdict |-> v,
                                   state |-> "new", by |-> None])
    /\ UNCHANGED <<db, mem, faults>>

AgentAck(a) ==
    /\ \E i \in HeldBy(reqs, a) :
          /\ reqs[i].state = "judged"
          /\ reqs' = [reqs EXCEPT ![i].state = "acked", ![i].by = None]
    /\ UNCHANGED <<db, ress, mem, faults>>

\* Mutant: the failed message is acknowledged and kept nowhere.
DropMessage(i) == [reqs EXCEPT ![i].state = "acked", ![i].by = None]

\* DeadLetter, then Ack
DeadLetter(i) == [reqs EXCEPT ![i].state = "dead", ![i].by = None]

\* Any error of ProcessRequestMessage, before the result is out (language,
\* source, testcases, core) or after (the ack): dead-letter, then ack.
AgentFails(a) ==
    /\ Fault("judge")
    /\ \E i \in HeldBy(reqs, a) : reqs' = DeadLetter(i)
    /\ UNCHANGED <<db, ress, mem>>

AgentCrash(a) ==
    /\ HeldBy(reqs, a) # {}
    /\ Fault("agent")
    /\ reqs' = Abandon(reqs, a)
    /\ UNCHANGED <<db, ress, mem>>

-----------------------------------------------------------------------------
(* soj-worker: the result consumer                                         *)

\* One XREADGROUP of up to ResultBatch entries, once the last batch is done.
ResultConsume(w) ==
    /\ HeldBy(ress, w) = {}
    /\ NewEntries(ress) # {}
    /\ \E first \in NewEntries(ress) :
          /\ \A j \in NewEntries(ress) : first <= j
          /\ ress' = [i \in DOMAIN ress |->
                        IF i \in first .. (first + ResultBatch - 1)
                        THEN [ress[i] EXCEPT !.state = "held", !.by = w] ELSE ress[i]]
    /\ UNCHANGED <<db, reqs, mem, faults>>

\* The entry the consumer is at: results are processed in stream order.
Current(w, i) == i \in HeldBy(ress, w) /\ \A j \in HeldBy(ress, w) : i <= j

\* finishJudgeAttempt's MarkJudgeTaskDone, no matching row being no error.
MarkJudgeTaskDone(s) ==
    IF TaskActive(s) THEN [task EXCEPT ![s].status = "done"] ELSE task

\* The batches in which an item of s runs under attempt no
RunningItems(s, no) ==
    {b \in Batches : item[b][s].status = "running" /\ item[b][s].attempt = no}

\* FinishRejudgeBatchItem finds the item by its attempt, not by its batch.
FinishRejudgeBatchItem(s, no) ==
    [b \in Batches |-> IF b \in RunningItems(s, no)
                       THEN [item[b] EXCEPT ![s].status = "completed"] ELSE item[b]]

\* Mutant: the projection row is inserted once and never updated.
FirstResultKept(s, no, v) ==
    IF result[s] = NoResult THEN [attempt |-> no, status |-> v] ELSE result[s]

\* UpsertSubmissionResult
UpsertSubmissionResult(s, no, v) == [attempt |-> no, status |-> v]

UpdateSubmissionStatus(s, v) == [sub EXCEPT ![s] = v]
MarkJudgeAttemptFinished(s, no, v) == [att EXCEPT ![s][no].status = v]

\* finishJudgeAttempt: attempt, task, rejudge item and batch.  An attempt made
\* for a batch must find its running item.
finishJudgeAttempt(s, no, v, missed) ==
    /\ att' = MarkJudgeAttemptFinished(s, no, v)
    /\ task' = MarkJudgeTaskDone(s)
    /\ \/ /\ att[s][no].batch = None
          /\ UNCHANGED <<batch, item>>
       \/ /\ att[s][no].batch # None
          /\ item' = FinishRejudgeBatchItem(s, no)
          /\ \E b \in RunningItems(s, no) :
                batch' = RefreshRejudgeBatchProgress(b, FinishRejudgeBatchItem(s, no), missed)

\* completeSubmissionAttempt: the verdict of result entry i is written to the
\* submission, its attempt, its projection, its task and its rejudge item.
WriteVerdict(w, i) ==
    LET s == ress[i].sub
        no == ress[i].no
    IN  /\ sub' = UpdateSubmissionStatus(s, ress[i].verdict)
        /\ finishJudgeAttempt(s, no, ress[i].verdict, wait[w]["consume"].missed)
        /\ result' = [result EXCEPT ![s] = UpsertSubmissionResult(s, no, ress[i].verdict)]
        /\ ress' = [ress EXCEPT ![i].state = "written"]
        /\ wait' = [Overtaken(item') EXCEPT ![w]["consume"] = NotWaiting]
        /\ UNCHANGED <<reqs, disp, proc, faults>>

\* Mutants: only one of the two rows is looked at.
SwallowedByAttempt(s, no) == terminalStatus(att[s][no].status)
SwallowedBySubmission(s, no) == terminalStatus(sub[s])

\* The early returns of CompleteJudgeAttemptResult (attempt finished) and of
\* completeSubmissionAttempt (submission terminal).
Swallowed(s, no) == terminalStatus(att[s][no].status) \/ terminalStatus(sub[s])

\* CompleteJudgeAttemptResult.  A finished attempt or a terminal submission
\* swallows the result; an attempt made for a batch under which no item runs
\* fails the transaction and with it the worker.
CompleteResult(w) ==
    \E i \in HeldBy(ress, w) :
        LET s == ress[i].sub
            no == ress[i].no
        IN  /\ Current(w, i)
            /\ ress[i].state = "held"
            /\ Holders(s) \subseteq {<<w, "consume">>}
            /\ \/ /\ Swallowed(s, no)
                  /\ ress' = [ress EXCEPT ![i].state = "written"]
                  /\ UNCHANGED <<db, reqs, mem, faults>>
               \/ /\ ~Swallowed(s, no)
                  /\ WriteVerdict(w, i)
               \/ /\ ~Swallowed(s, no)
                  /\ att[s][no].batch # None
                  /\ RunningItems(s, no) = {}
                  /\ Exit(w)
                  /\ UNCHANGED <<db, reqs, faults>>

\* The verdict of a rejudged submission is written but for its batch.
CompleteWaits(w) ==
    \E i \in HeldBy(ress, w) :
        LET s == ress[i].sub
            no == ress[i].no
        IN  /\ Current(w, i)
            /\ ress[i].state = "held"
            /\ Holders(s) = {}
            /\ ~Swallowed(s, no)
            /\ att[s][no].batch # None
            /\ \E b \in RunningItems(s, no) : AwaitBatchRow(w, "consume", s, b)

ResultAck(w) ==
    /\ \E i \in HeldBy(ress, w) :
          /\ ress[i].state = "written"
          /\ ress' = [ress EXCEPT ![i].state = "acked", ![i].by = None]
    /\ UNCHANGED <<db, reqs, mem, faults>>

-----------------------------------------------------------------------------
DispatchStep(w) ==
    \/ ClaimPendingJudgeTasks(w)
    \/ ReadSubmission(w)
    \/ MarkSubmissionRunning(w)
    \/ EnsureJudgeAttempt(w) \/ EnsureWaits(w) \/ EnsureFails(w)
    \/ Publish(w)
    \/ RetryJudgeTask(w)
    \/ MarkJudgeTaskDispatched(w)

ResultStep(w) == ResultConsume(w) \/ CompleteWaits(w) \/ CompleteResult(w) \/ ResultAck(w)

AgentStep(a) == AgentConsume(a) \/ AgentPublish(a) \/ AgentAck(a)

Next ==
    \/ \E s \in Subs : CreateSubmission(s) \/ ResetAbandoned(s) \/ ResetStalled(s)
    \/ \E b \in Batches : CreateRejudgeBatch(b) \/ CancelRejudgeBatch(b)
    \/ \E w \in Workers : DispatchStep(w) \/ ResultStep(w)
    \/ \E w \in Workers : BuildFails(w) \/ PublishError(w) \/ WorkerCrash(w)
    \/ \E a \in Agents : AgentStep(a)
    \/ \E a \in Agents : AgentFails(a) \/ AgentCrash(a)

Spec == Init /\ [][Next]_vars

\* The loops of worker and agent poll for ever, and a stale task is found by
\* some reconciler; users and faults owe us nothing.
Fairness ==
    /\ \A w \in Workers : WF_vars(DispatchStep(w)) /\ WF_vars(ResultStep(w))
    /\ \A a \in Agents : WF_vars(AgentStep(a))
    /\ \A s \in Subs : WF_vars(ResetAbandoned(s))

FairSpec == Spec /\ Fairness

-----------------------------------------------------------------------------
(* What holds between the rows, the streams and the dispatchers: the facts *)
(* that make the properties below inductive (module JudgePipelineProofs)   *)

\* A dispatcher past the claim works on a submission, and the attempt it
\* publishes exists.
DispatchersRefer ==
    \A w \in Workers :
        /\ disp[w].pc \notin {"idle", "build"} => disp[w].cur \in Subs
        /\ disp[w].pc \in {"publish", "retry", "sent"} => disp[w].no \in DOMAIN att[disp[w].cur]

\* Every event names an attempt that exists.
EventsRefer ==
    /\ \A i \in DOMAIN reqs : reqs[i].no \in DOMAIN att[reqs[i].sub]
    /\ \A i \in DOMAIN ress : ress[i].no \in DOMAIN att[ress[i].sub]

\* Nothing is claimed, dispatched or attempted for a submission not made yet.
OnlyCreatedWorkedOn ==
    \A s \in Subs : sub[s] = "none" =>
        /\ task[s].status = "none"
        /\ att[s] = << >>
        /\ \A w \in Workers : s \notin disp[w].todo /\ s # disp[w].cur

\* A batch not created yet has no items.
NoItemsBeforeBatch ==
    \A b \in Batches : batch[b].status = "none" =>
        \A s \in Subs : item[b][s].status = "none"

-----------------------------------------------------------------------------
(* Properties                                                              *)

\* A terminal verdict is final: results that arrive late, twice or out of
\* order never change it.  Only a new rejudge item for the submission may
\* reopen it (docs/v2-worker.md: duplicates must not change judged_at).
VerdictOnlyByRejudge ==
    [][\A s \in Subs :
          terminalStatus(sub[s]) /\ sub'[s] # sub[s]
             => \E b \in Batches : /\ item[b][s].status = "none"
                                   /\ item'[b][s].status = "queued"]_vars

\* A finished judge attempt is never rewritten, whatever duplicates arrive:
\* MarkJudgeAttemptFinished has no guard of its own, only the row lock and the
\* re-read in CompleteJudgeAttemptResult protect finished_at.
FinishedAttemptsFrozen ==
    [][\A s \in Subs : \A n \in DOMAIN att[s] :
          /\ n \in DOMAIN att'[s]
          /\ terminalStatus(att[s][n].status) => att'[s][n] = att[s][n]]_vars

\* Attempt numbers form a history: all attempts of a submission but the latest
\* are finished, so an old request can never be confused with an open attempt.
OnlyLatestAttemptOpen ==
    \A s \in Subs : \A n \in DOMAIN att[s] :
        n < Len(att[s]) => terminalStatus(att[s][n].status)

\* The projected result is the verdict of the newest finished attempt, and a
\* terminal submission shows exactly that verdict, after a rejudge and after a
\* canceled one too.
ProjectionShowsLatestVerdict ==
    \A s \in Subs :
        /\ \A n \in DOMAIN att[s] :
              terminalStatus(att[s][n].status) => n <= result[s].attempt
        /\ result[s] # NoResult =>
              /\ result[s].attempt \in DOMAIN att[s]
              /\ att[s][result[s].attempt].status = result[s].status
        /\ terminalStatus(sub[s]) => sub[s] = result[s].status

\* However many times a submission is dispatched, at most one of its attempts
\* is accepted per round: the first judging, and each rejudge not canceled.
OneVerdictPerRound ==
    \A s \in Subs :
        Cardinality({n \in DOMAIN att[s] : terminalStatus(att[s][n].status)})
          <= 1 + Cardinality({b \in Batches : item[b][s].status \notin {"none", "canceled"}})

\* No counter of a batch ever exceeds its items of that status: duplicated
\* results are not counted twice (docs/v2-worker.md), and a refresh that had to
\* wait for the batch row may write a count that is too small, never too large.
BatchNeverOvercounts ==
    \A b \in Batches :
        /\ batch[b].completed <= Cardinality(ItemsWith(item, b, "completed"))
        /\ batch[b].failed <= Cardinality(ItemsWith(item, b, "failed"))
        /\ batch[b].canceled <= Cardinality(ItemsWith(item, b, "canceled"))

\* A batch is reported completed or failed only when none of its items is
\* active, and then its counters are exact for good, however old the count of
\* the transaction that closed it.  (A batch still running, or canceled, may
\* show fewer than it has: see BatchNeverOvercounts.)
ClosedBatchIsSettled ==
    \A b \in Batches : batch[b].status \in {"completed", "failed"} =>
        /\ \A s \in Subs : ~Active(item[b][s])
        /\ batch[b].completed = Cardinality(ItemsWith(item, b, "completed"))
        /\ batch[b].failed = Cardinality(ItemsWith(item, b, "failed"))
        /\ batch[b].canceled = Cardinality(ItemsWith(item, b, "canceled"))
        /\ batch[b].status = "failed" <=> ItemsWith(item, b, "failed") # {}

\* Where the message of attempt n of s is
InFlight(s, n) ==
    \/ \E i \in DOMAIN reqs : reqs[i].sub = s /\ reqs[i].no = n /\ reqs[i].state \in {"new", "held"}
    \/ \E i \in DOMAIN ress : ress[i].sub = s /\ ress[i].no = n /\ ress[i].state \in {"new", "held"}
Stranded(s, n) ==
    \/ \E i \in DOMAIN reqs : reqs[i].sub = s /\ reqs[i].no = n /\ reqs[i].state \in {"orphan", "dead"}
    \/ \E i \in DOMAIN ress : ress[i].sub = s /\ ress[i].no = n /\ ress[i].state = "orphan"

\* A dispatched task nobody resets is never simply forgotten: while its
\* submission waits, the request or the result of the latest attempt is on a
\* stream, in a pending list or among the dead letters.
DispatchedIsTraceable ==
    \A s \in Subs :
        task[s].status = "dispatched" /\ ~terminalStatus(sub[s]) =>
            LET n == Len(att[s])
            IN  n > 0 /\ (InFlight(s, n) \/ Stranded(s, n))

\* An open submission is judged in the end, whatever fails on the way, unless
\* the request or the result of its latest attempt was left behind with a dead
\* process or among the dead letters.
JudgedUnlessStranded ==
    \A s \in Subs :
        sub[s] \in OpenStatuses ~> terminalStatus(sub[s]) \/ Stranded(s, Len(att[s]))

\* README.md: a process that dies mid-task costs a little time instead of
\* losing the submission.
EventuallyJudged ==
    \A s \in Subs : sub[s] \in OpenStatuses ~> terminalStatus(sub[s])

\* What the pipeline promises its users, seen through the submission row and
\* the projected result only: the ledger of VerdictLedger.
Ledger == INSTANCE VerdictLedger WITH
    state <- [s \in Subs |-> IF sub[s] \in OpenStatuses THEN "open" ELSE sub[s]],
    recorded <- [s \in Subs |-> result[s].status]

\* Dispatch, duplicate delivery, retries and crashes are invisible at the
\* level of the ledger: every step is one of its steps or changes nothing.
ImplementsLedger == Ledger!Spec
=============================================================================
