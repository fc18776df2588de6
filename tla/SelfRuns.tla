------------------------------ MODULE SelfRuns ------------------------------
(***************************************************************************)
(* Self-runs: code a user runs against stdin of their own.  The API        *)
(* uploads the source, records it as an artifact and admits the run under  *)
(* a per-user cap; the run is then executed inside the API process (inline *)
(* mode) or queued for a judge agent.  Workers give up on stale runs and   *)
(* delete expired ones together with their source objects.                 *)
(*                                                                         *)
(* awaitRun only reads and is left out; a claimed batch has one task here, *)
(* larger batches being the subject of JudgePipeline.                      *)
(***************************************************************************)
EXTENDS Integers, Sequences, FiniteSets

CONSTANTS
    Runs,          \* runs that may be requested, each once
    Users,
    Apis,          \* soj-api processes
    Workers,       \* soj-worker processes
    None,          \* nobody
    Verdicts,      \* the verdicts an executor may return
    SystemError,   \* the verdict of a run somebody gave up on
    InlineApis,    \* the ones that execute runs themselves (RunService.runner # nil)
    MaxActive,     \* RunService.maxPerUser
    Parallelism,   \* capacity of RunService.runSlots
    MaxAttempts,   \* bound: judge attempts per run
    Faults,        \* the kinds of fault that may occur
    MaxFaults      \* bound: how many faults occur in a behaviour

FaultKinds == {"storage", "db", "api", "worker", "publish", "build", "agent"}

ASSUME RunsAssumption ==
    /\ IsFiniteSet(Runs)
    /\ None \notin Runs \cup Users \cup Apis \cup Workers
    /\ SystemError \in Verdicts
    /\ Verdicts \cap {"none", "queued", "running", "deleted", "created"} = {}
    /\ InlineApis \subseteq Apis
    /\ MaxActive \in Nat \ {0}
    /\ Parallelism \in Nat \ {0}
    /\ MaxAttempts \in Nat
    /\ Faults \subseteq FaultKinds
    /\ MaxFaults \in Nat

VARIABLES
    run,        \* runs.status; "none" before admission, "deleted" after retention
    artifact,   \* the artifacts row of the source exists
    object,     \* the source object is in storage
    task,       \* judge_tasks.status of the run's task
    att,        \* judge_attempts of the run, by attempt_no
    lock,       \* who holds the row lock on a user
    req,        \* the request creating a run: where it is, whose, in which API
    slot,       \* who holds the run's execution slot: its request or its execution
    api,        \* lifecycle of RunService in an API process
    reqs, ress, \* the run request stream and the result stream
    disp,       \* what the dispatcher of a worker is doing
    sweep,      \* what its retention sweep is doing
    faults

requestVars == <<lock, req, slot, api>>
sourceVars == <<artifact, object>>
queueVars == <<reqs, ress>>
workerVars == <<disp, sweep>>
vars == <<run, artifact, object, task, att, lock, req, slot, api, reqs, ress, disp, sweep, faults>>

RunStatuses == {"none", "queued", "running", "deleted"} \cup Verdicts
RequestStates == {"idle", "put", "row", "lock", "count", "insert", "undoObject", "undoRow", "end"}
DispatchStates == {"idle", "read", "mark", "ensure", "publish", "retry", "sent"}
SweepStates == {"idle", "object", "row", "orphanObject", "orphanRow"}

NoRequest == [pc |-> "idle", user |-> None, api |-> None]
Idle == [pc |-> "idle", cur |-> None, no |-> 0]
NoSweep == [pc |-> "idle", cur |-> None]

terminalStatus(status) == status \in Verdicts
Inline(r) == req[r].api \in InlineApis
Active(r) == run[r] \in {"queued", "running"}
Exists(r) == run[r] \notin {"none", "deleted"}

\* Runs, tasks, sources and requests have their types: no statement writes a
\* status outside the life cycle of its row.
TypeOK ==
    /\ run \in [Runs -> RunStatuses]
    /\ artifact \in [Runs -> BOOLEAN]
    /\ object \in [Runs -> BOOLEAN]
    /\ task \in [Runs -> {"none", "pending", "dispatching", "dispatched", "done"}]
    /\ att \in [Runs -> Seq({"created"} \cup Verdicts)]
    /\ lock \in [Users -> Runs \cup {None}]
    /\ req \in [Runs -> [pc : RequestStates, user : Users \cup {None}, api : Apis \cup {None}]]
    /\ slot \in [Runs -> {"none", "request", "execution"}]
    /\ api \in [Apis -> {"open", "closing", "closed"}]
    /\ reqs \in Seq([run : Runs, no : Nat, state : {"new", "acked", "dead", "orphan"}])
    /\ ress \in Seq([run : Runs, no : Nat, verdict : Verdicts,
                     state : {"new", "held", "acked", "orphan"}, by : Workers \cup {None}])
    /\ disp \in [Workers -> [pc : DispatchStates, cur : Runs \cup {None}, no : Nat]]
    /\ sweep \in [Workers -> [pc : SweepStates, cur : Runs \cup {None}]]
    /\ faults \in Nat

Init ==
    /\ run = [r \in Runs |-> "none"]
    /\ artifact = [r \in Runs |-> FALSE]
    /\ object = [r \in Runs |-> FALSE]
    /\ task = [r \in Runs |-> "none"]
    /\ att = [r \in Runs |-> << >>]
    /\ lock = [u \in Users |-> None]
    /\ req = [r \in Runs |-> NoRequest]
    /\ slot = [r \in Runs |-> "none"]
    /\ api = [a \in Apis |-> "open"]
    /\ reqs = << >>
    /\ ress = << >>
    /\ disp = [w \in Workers |-> Idle]
    /\ sweep = [w \in Workers |-> NoSweep]
    /\ faults = 0

Fault(kind) ==
    /\ kind \in Faults
    /\ faults < MaxFaults
    /\ faults' = faults + 1

-----------------------------------------------------------------------------
(* RunService.CreateRun                                                    *)

Goto(r, pc) == req' = [req EXCEPT ![r].pc = pc]

\* Mutant: a request that fails keeps its slot.
EndKeepingSlot(r) == Goto(r, "end") /\ UNCHANGED slot

\* The deferred release of a slot the request still owns.
End(r) ==
    /\ Goto(r, "end")
    /\ slot' = [slot EXCEPT ![r] = IF @ = "request" THEN "none" ELSE @]

Unlock(r) == [u \in Users |-> IF lock[u] = r THEN None ELSE lock[u]]

SlotsUsed(a) == Cardinality({r \in Runs : req[r].api = a /\ slot[r] # "none"})

\* Mutant: a service that is shutting down still takes executions.
ReserveAnyTime(a) == SlotsUsed(a) < Parallelism

\* reserveExecution succeeds.
CanReserve(a) == api[a] = "open" /\ SlotsUsed(a) < Parallelism

\* A request reaches RunService; in inline mode it takes a slot of its process
\* or is refused.
BeginRun(r, u, a) ==
    /\ req[r].pc = "idle"
    /\ \/ /\ a \in InlineApis => CanReserve(a)
          /\ req' = [req EXCEPT ![r] = [pc |-> "put", user |-> u, api |-> a]]
          /\ slot' = [slot EXCEPT ![r] = IF a \in InlineApis THEN "request" ELSE "none"]
       \/ /\ a \in InlineApis /\ ~CanReserve(a)
          /\ req' = [req EXCEPT ![r] = [pc |-> "end", user |-> u, api |-> a]]
          /\ UNCHANGED slot
    /\ UNCHANGED <<run, sourceVars, task, att, lock, api, queueVars, workerVars, faults>>

\* sourceStore.Put; one that reports an error may have stored the object.
PutSource(r) ==
    /\ req[r].pc = "put"
    /\ \/ object' = [object EXCEPT ![r] = TRUE] /\ Goto(r, "row") /\ UNCHANGED <<slot, faults>>
       \/ Fault("storage") /\ (\E b \in BOOLEAN : object' = [object EXCEPT ![r] = b]) /\ End(r)
    /\ UNCHANGED <<run, artifact, task, att, lock, api, queueVars, workerVars>>

CreateArtifactRow(r) == [artifact EXCEPT ![r] = TRUE]

CreateArtifact(r) ==
    /\ req[r].pc = "row"
    /\ \/ artifact' = CreateArtifactRow(r) /\ Goto(r, "lock") /\ UNCHANGED <<slot, faults>>
       \/ Fault("db") /\ End(r) /\ UNCHANGED artifact
    /\ UNCHANGED <<run, object, task, att, lock, api, queueVars, workerVars>>

\* Mutant: admission does not wait for the user row.
NoLock(u) == TRUE

\* SELECT ... FROM users ... FOR UPDATE
LockFree(u) == lock[u] = None

LockUserForRunAdmission(r) ==
    LET u == req[r].user
    IN  /\ req[r].pc = "lock"
        /\ LockFree(u)
        /\ lock' = [lock EXCEPT ![u] = r]
        /\ Goto(r, "count")
        /\ UNCHANGED <<run, sourceVars, task, att, slot, api, queueVars, workerVars, faults>>

ActiveOf(u) == {r \in Runs : req[r].user = u /\ Active(r)}

CountActiveRunsByUser(r) ==
    /\ req[r].pc = "count"
    /\ IF Cardinality(ActiveOf(req[r].user)) >= MaxActive
       THEN Goto(r, "undoObject") /\ lock' = Unlock(r)
       ELSE Goto(r, "insert") /\ UNCHANGED lock
    /\ UNCHANGED <<run, sourceVars, task, att, slot, api, queueVars, workerVars, faults>>

InsertedRun(r) == [run EXCEPT ![r] = IF Inline(r) THEN "running" ELSE "queued"]

\* Mutant: the task is inserted with the run's status.
QueuedTask(r) == [task EXCEPT ![r] = IF Inline(r) THEN @ ELSE "queued"]

InsertedTask(r) == [task EXCEPT ![r] = IF Inline(r) THEN @ ELSE "pending"]

\* The run, and in queued mode its task; on commit the user row is free and the
\* slot belongs to the execution.
CreateRun(r) ==
    /\ req[r].pc = "insert"
    /\ run' = InsertedRun(r)
    /\ task' = InsertedTask(r)
    /\ lock' = Unlock(r)
    /\ Goto(r, "end")
    /\ slot' = [slot EXCEPT ![r] = IF Inline(r) THEN "execution" ELSE @]
    /\ UNCHANGED <<sourceVars, att, api, queueVars, workerVars, faults>>

\* AdmitRun fails; a commit that reports an error may have happened.
AdmitFails(r) ==
    /\ req[r].pc \in {"lock", "count", "insert"}
    /\ Fault("db")
    /\ \/ UNCHANGED <<run, task>>
       \/ /\ req[r].pc = "insert"
          /\ run' = InsertedRun(r)
          /\ task' = InsertedTask(r)
    /\ lock' = Unlock(r)
    /\ Goto(r, "undoObject")
    /\ UNCHANGED <<sourceVars, att, slot, api, queueVars, workerVars>>

\* discardSource: both deletions, whatever becomes of the first.
DiscardObject(r) ==
    /\ req[r].pc = "undoObject"
    /\ \/ object' = [object EXCEPT ![r] = FALSE] /\ UNCHANGED faults
       \/ Fault("storage") /\ UNCHANGED object
    /\ Goto(r, "undoRow")
    /\ UNCHANGED <<run, artifact, task, att, lock, slot, api, queueVars, workerVars>>

\* DeleteArtifact: the foreign key refuses the row of a run that exists.
DeleteArtifact(r) == [artifact EXCEPT ![r] = @ /\ Exists(r)]

DiscardRow(r) ==
    /\ req[r].pc = "undoRow"
    /\ \/ artifact' = DeleteArtifact(r) /\ UNCHANGED faults
       \/ Fault("db") /\ UNCHANGED artifact
    /\ End(r)
    /\ UNCHANGED <<run, object, task, att, lock, api, queueVars, workerVars>>

-----------------------------------------------------------------------------
(* Inline execution and shutdown                                           *)

\* Mutant: the last writer wins.
OverwriteRun(r, v) == IF Exists(r) THEN [run EXCEPT ![r] = v] ELSE run

\* UpdateRunStatus leaves a terminal run alone.
UpdateRunStatus(r, v) == IF Active(r) THEN [run EXCEPT ![r] = v] ELSE run

\* completeRunAsync: any verdict, system_error when the run context was
\* canceled; the slot is returned also when the result cannot be written.
CompleteRunAsync(r) ==
    /\ slot[r] = "execution"
    /\ \/ (\E v \in Verdicts : run' = UpdateRunStatus(r, v)) /\ UNCHANGED faults
       \/ Fault("db") /\ UNCHANGED run
    /\ slot' = [slot EXCEPT ![r] = "none"]
    /\ UNCHANGED <<sourceVars, task, att, lock, req, api, queueVars, workerVars>>

\* beginShutdown; without a runner nothing ever looks at the flag it sets.
BeginShutdown(a) ==
    /\ a \in InlineApis
    /\ api[a] = "open"
    /\ api' = [api EXCEPT ![a] = "closing"]
    /\ UNCHANGED <<run, sourceVars, task, att, lock, req, slot, queueVars, workerVars, faults>>

\* runWG.Wait returns and Close with it.
CloseDone(a) ==
    /\ api[a] = "closing"
    /\ SlotsUsed(a) = 0
    /\ api' = [api EXCEPT ![a] = "closed"]
    /\ UNCHANGED <<run, sourceVars, task, att, lock, req, slot, queueVars, workerVars, faults>>

\* The process dies, or Close gives up waiting, returns the context's error and the
\* process exits with its runs; it starts again.  "closed" is a Close that returned
\* without an error.
ApiCrash(a) ==
    LET dead == {r \in Runs : req[r].api = a}
    IN  /\ api[a] # "closed"
        /\ Fault("api")
        /\ api' = [api EXCEPT ![a] = "open"]
        /\ req' = [r \in Runs |-> IF r \in dead THEN [req[r] EXCEPT !.pc = "end"] ELSE req[r]]
        /\ slot' = [r \in Runs |-> IF r \in dead THEN "none" ELSE slot[r]]
        /\ lock' = [u \in Users |-> IF lock[u] \in dead THEN None ELSE lock[u]]
        /\ UNCHANGED <<run, sourceVars, task, att, queueVars, workerVars>>

-----------------------------------------------------------------------------
(* Queued execution: dispatcher, agent and result consumer                 *)

\* A worker ends: its loops forget what they were doing, and results it read
\* stay in a pending list nobody claims.
Exit(w) ==
    /\ disp' = [disp EXCEPT ![w] = Idle]
    /\ sweep' = [sweep EXCEPT ![w] = NoSweep]
    /\ ress' = [i \in DOMAIN ress |->
                   IF ress[i].by = w THEN [ress[i] EXCEPT !.state = "orphan", !.by = None]
                   ELSE ress[i]]

WorkerCrash(w) ==
    /\ disp[w] # Idle \/ sweep[w] # NoSweep \/ \E i \in DOMAIN ress : ress[i].by = w
    /\ Fault("worker")
    /\ Exit(w)
    /\ UNCHANGED <<run, sourceVars, task, att, requestVars, reqs>>

ClaimPendingRunTasks(w) ==
    /\ disp[w].pc = "idle"
    /\ \E r \in Runs :
          /\ task[r] = "pending"
          /\ task' = [task EXCEPT ![r] = "dispatching"]
          /\ disp' = [disp EXCEPT ![w] = [pc |-> "read", cur |-> r, no |-> 0]]
    /\ UNCHANGED <<run, sourceVars, att, requestVars, queueVars, sweep, faults>>

\* runRequestEvent reads the run, its artifact and its language; one that is
\* missing or disabled is an error.
ReadRun(w) ==
    LET r == disp[w].cur
    IN  /\ disp[w].pc = "read"
        /\ \/ /\ Exists(r)
              /\ disp' = [disp EXCEPT ![w].pc = IF run[r] = "queued" THEN "mark" ELSE "ensure"]
              /\ UNCHANGED <<ress, sweep, faults>>
           \/ /\ ~Exists(r)
              /\ Exit(w)
              /\ UNCHANGED faults
           \/ /\ Fault("build")
              /\ Exit(w)
        /\ UNCHANGED <<run, sourceVars, task, att, requestVars, reqs>>

StartedRun(r) == IF run[r] = "queued" THEN [run EXCEPT ![r] = "running"] ELSE run

\* MarkRunRunning is a no-op on a run no longer queued, an error on one deleted.
MarkRunRunning(w) ==
    LET r == disp[w].cur
    IN  /\ disp[w].pc = "mark"
        /\ IF Exists(r)
           THEN /\ run' = StartedRun(r)
                /\ disp' = [disp EXCEPT ![w].pc = "ensure"]
                /\ UNCHANGED <<ress, sweep>>
           ELSE Exit(w) /\ UNCHANGED run
        /\ UNCHANGED <<sourceVars, task, att, requestVars, reqs, faults>>

\* GetLatestJudgeAttemptByRunID: the latest attempt exists and is not finished.
Reusable(r) == Len(att[r]) > 0 /\ ~terminalStatus(att[r][Len(att[r])])

EnsureJudgeAttempt(w) ==
    LET r == disp[w].cur
        last == Len(att[r])
        reuse == Reusable(r)
    IN  /\ disp[w].pc = "ensure"
        /\ \/ /\ Exists(r) /\ reuse
              /\ disp' = [disp EXCEPT ![w].pc = "publish", ![w].no = last]
              /\ UNCHANGED <<att, ress, sweep>>
           \/ /\ Exists(r) /\ ~reuse /\ last < MaxAttempts
              /\ att' = [att EXCEPT ![r] = Append(@, "created")]
              /\ disp' = [disp EXCEPT ![w].pc = "publish", ![w].no = last + 1]
              /\ UNCHANGED <<ress, sweep>>
           \/ /\ ~Exists(r)
              /\ Exit(w)
              /\ UNCHANGED att
        /\ UNCHANGED <<run, sourceVars, task, requestVars, reqs, faults>>

Request(w) == [run |-> disp[w].cur, no |-> disp[w].no, state |-> "new"]

\* XADD; one that reports an error may have added the entry.
Publish(w) ==
    /\ disp[w].pc = "publish"
    /\ \/ /\ reqs' = Append(reqs, Request(w))
          /\ disp' = [disp EXCEPT ![w].pc = "sent"]
          /\ UNCHANGED faults
       \/ /\ Fault("publish")
          /\ reqs' \in {reqs, Append(reqs, Request(w))}
          /\ disp' = [disp EXCEPT ![w].pc = "retry"]
    /\ UNCHANGED <<run, sourceVars, task, att, requestVars, ress, sweep>>

RetryJudgeTask(w) ==
    /\ disp[w].pc = "retry"
    /\ task' = [task EXCEPT ![disp[w].cur] =
                  IF @ \in {"dispatching", "dispatched"} THEN "pending" ELSE @]
    /\ Exit(w)
    /\ UNCHANGED <<run, sourceVars, att, requestVars, reqs, faults>>

MarkJudgeTaskDispatched(w) ==
    LET r == disp[w].cur
    IN  /\ disp[w].pc = "sent"
        /\ IF task[r] \in {"dispatching", "done"}
           THEN /\ task' = [task EXCEPT ![r] = IF @ = "done" THEN @ ELSE "dispatched"]
                /\ disp' = [disp EXCEPT ![w] = Idle]
                /\ UNCHANGED <<ress, sweep>>
           ELSE Exit(w) /\ UNCHANGED task
        /\ UNCHANGED <<run, sourceVars, att, requestVars, reqs, faults>>

NewEntries(stream) == {i \in DOMAIN stream : stream[i].state = "new"}
First(stream, i) == i \in NewEntries(stream) /\ \A j \in NewEntries(stream) : i <= j

\* An agent handles the next request.  It publishes a result if it gets the source
\* and the run succeeds; the request is then acknowledged, or dead-lettered when
\* that fails.  Any error before leaves a dead letter and no result, and an agent
\* that dies, before or after publishing, leaves the request in its pending list.
AgentEnds(i, state) ==
    /\ reqs' = [reqs EXCEPT ![i].state = state]
    /\ IF state = "orphan" THEN Fault("agent") ELSE UNCHANGED faults

AgentHandle ==
    /\ \E i \in DOMAIN reqs :
          LET r == reqs[i].run
          IN  /\ First(reqs, i)
              /\ \/ /\ object[r]
                    /\ \E state \in {"acked", "dead", "orphan"} : AgentEnds(i, state)
                    /\ \E v \in Verdicts :
                          ress' = Append(ress, [run |-> r, no |-> reqs[i].no, verdict |-> v,
                                                state |-> "new", by |-> None])
                 \/ /\ \E state \in {"dead", "orphan"} : AgentEnds(i, state)
                    /\ UNCHANGED ress
    /\ UNCHANGED <<run, sourceVars, task, att, requestVars, workerVars>>

ResultConsume(w) ==
    /\ \A i \in DOMAIN ress : ress[i].by # w
    /\ \E i \in DOMAIN ress :
          First(ress, i) /\ ress' = [ress EXCEPT ![i].state = "held", ![i].by = w]
    /\ UNCHANGED <<run, sourceVars, task, att, requestVars, reqs, workerVars, faults>>

\* CompleteJudgeAttemptResult and completeRunAttempt: no attempt row is an
\* error, a finished attempt or a terminal run swallows the result.
CompleteResult(w) ==
    \E i \in DOMAIN ress :
        LET r == ress[i].run
            acked == [ress EXCEPT ![i].state = "acked", ![i].by = None]
        IN  /\ ress[i].by = w
            /\ \/ /\ ress[i].no \notin DOMAIN att[r]
                  /\ Exit(w)
                  /\ UNCHANGED <<run, task, att>>
               \/ /\ ress[i].no \in DOMAIN att[r]
                  /\ terminalStatus(att[r][ress[i].no]) \/ ~Active(r)
                  /\ ress' = acked
                  /\ UNCHANGED <<run, task, att, workerVars>>
               \/ /\ ress[i].no \in DOMAIN att[r]
                  /\ ~terminalStatus(att[r][ress[i].no]) /\ Active(r)
                  /\ run' = UpdateRunStatus(r, ress[i].verdict)
                  /\ att' = [att EXCEPT ![r][ress[i].no] = ress[i].verdict]
                  /\ task' = [task EXCEPT ![r] =
                                IF @ \in {"dispatching", "dispatched"} THEN "done" ELSE @]
                  /\ ress' = acked
                  /\ UNCHANGED workerVars
            /\ UNCHANGED <<sourceVars, requestVars, reqs, faults>>

-----------------------------------------------------------------------------
(* Reconciler and retention                                                *)

\* MarkStaleRunsSystemError, once the run is half an hour old
StaleRun(r) == [run EXCEPT ![r] = SystemError]

MarkStaleRun(r) ==
    /\ Active(r)
    /\ run' = StaleRun(r)
    /\ UNCHANGED <<sourceVars, task, att, requestVars, queueVars, workerVars, faults>>

\* A finished run past the retention window.
ListExpiredRuns == {r \in Runs : terminalStatus(run[r])}

SweepRun(w) ==
    /\ sweep[w].pc = "idle"
    /\ \E r \in ListExpiredRuns :
          sweep' = [sweep EXCEPT ![w] = [pc |-> "object", cur |-> r]]
    /\ UNCHANGED <<run, sourceVars, task, att, requestVars, queueVars, disp, faults>>

SweepObject(w) ==
    LET r == sweep[w].cur
    IN  /\ sweep[w].pc = "object"
        /\ object' = [object EXCEPT ![r] = FALSE]
        /\ sweep' = [sweep EXCEPT ![w].pc = "row"]
        /\ UNCHANGED <<run, artifact, task, att, requestVars, queueVars, disp, faults>>

DeletedRun(r) == [run EXCEPT ![r] = "deleted"]

\* DeleteExpiredRun: run and artifact in one transaction, task and attempts by
\* ON DELETE CASCADE.
SweepRow(w) ==
    LET r == sweep[w].cur
    IN  /\ sweep[w].pc = "row"
        /\ run' = DeletedRun(r)
        /\ artifact' = [artifact EXCEPT ![r] = FALSE]
        /\ task' = [task EXCEPT ![r] = "none"]
        /\ att' = [att EXCEPT ![r] = << >>]
        /\ sweep' = [sweep EXCEPT ![w] = NoSweep]
        /\ UNCHANGED <<object, requestVars, queueVars, disp, faults>>

\* Mutant: every run source counts as an orphan.
AnyArtifact(r) == artifact[r]

\* ListOrphanedRunArtifacts
Orphaned(r) == artifact[r] /\ ~Exists(r)

\* The retention window is far longer than a request lasts.
SweepOrphan(w) ==
    /\ sweep[w].pc = "idle"
    /\ \E r \in Runs :
          /\ Orphaned(r)
          /\ req[r].pc = "end"
          /\ sweep' = [sweep EXCEPT ![w] = [pc |-> "orphanObject", cur |-> r]]
    /\ UNCHANGED <<run, sourceVars, task, att, requestVars, queueVars, disp, faults>>

SweepOrphanObject(w) ==
    LET r == sweep[w].cur
    IN  /\ sweep[w].pc = "orphanObject"
        /\ object' = [object EXCEPT ![r] = FALSE]
        /\ sweep' = [sweep EXCEPT ![w].pc = "orphanRow"]
        /\ UNCHANGED <<run, artifact, task, att, requestVars, queueVars, disp, faults>>

SweepOrphanRow(w) ==
    /\ sweep[w].pc = "orphanRow"
    /\ artifact' = DeleteArtifact(sweep[w].cur)
    /\ sweep' = [sweep EXCEPT ![w] = NoSweep]
    /\ UNCHANGED <<run, object, task, att, requestVars, queueVars, disp, faults>>

\* A deletion that fails leaves the rest of the record to a later sweep; it
\* may happen any number of times, since it changes nothing else.
SweepFails(w) ==
    /\ sweep[w].pc # "idle"
    /\ (IF sweep[w].pc \in {"object", "orphanObject"} THEN "storage" ELSE "db") \in Faults
    /\ sweep' = [sweep EXCEPT ![w] = NoSweep]
    /\ UNCHANGED <<run, sourceVars, task, att, requestVars, queueVars, disp, faults>>

-----------------------------------------------------------------------------
RequestStep(r) ==
    \/ PutSource(r) \/ CreateArtifact(r)
    \/ LockUserForRunAdmission(r) \/ CountActiveRunsByUser(r)
    \/ CreateRun(r)
    \/ DiscardObject(r) \/ DiscardRow(r)

DispatchStep(w) ==
    \/ ClaimPendingRunTasks(w) \/ ReadRun(w) \/ MarkRunRunning(w)
    \/ EnsureJudgeAttempt(w) \/ Publish(w) \/ RetryJudgeTask(w)
    \/ MarkJudgeTaskDispatched(w)

ResultStep(w) == ResultConsume(w) \/ CompleteResult(w)

SweepStep(w) ==
    \/ SweepRun(w) \/ SweepObject(w) \/ SweepRow(w)
    \/ SweepOrphan(w) \/ SweepOrphanObject(w) \/ SweepOrphanRow(w)
    \/ SweepFails(w)

Next ==
    \/ \E r \in Runs, u \in Users, a \in Apis : BeginRun(r, u, a)
    \/ \E r \in Runs : RequestStep(r) \/ AdmitFails(r) \/ CompleteRunAsync(r) \/ MarkStaleRun(r)
    \/ \E a \in Apis : BeginShutdown(a) \/ CloseDone(a) \/ ApiCrash(a)
    \/ \E w \in Workers : DispatchStep(w) \/ ResultStep(w) \/ SweepStep(w) \/ WorkerCrash(w)
    \/ AgentHandle

Spec == Init /\ [][Next]_vars

-----------------------------------------------------------------------------
(* Properties                                                              *)

\* No user ever waits on more than MaxActive runs, whatever API replicas admit
\* them side by side (AdmitRun: "the count cannot race the insert").
CapRespected == \A u \in Users : Cardinality(ActiveOf(u)) <= MaxActive

\* A finished run is never rewritten or reopened by a late executor, a second
\* delivery or the stale sweep; it can only be deleted.
RunVerdictFinal ==
    [][\A r \in Runs : terminalStatus(run[r]) => run'[r] \in {run[r], "deleted"}]_vars

\* Once Close has returned no execution is left in the process and none can
\* start: the slot pool and the closing flag are checked under one mutex.
NothingRunsAfterClose == \A a \in Apis : api[a] = "closed" => SlotsUsed(a) = 0

\* A request that is over holds no slot, on whichever path of CreateRun it
\* ended: what it reserved was released or handed to the execution.
EndedRequestHoldsNoSlot ==
    \A r \in Runs : slot[r] = "request" => req[r].pc \notin {"idle", "end"}

\* The source of a run somebody waits on is deleted only by the undo of its own
\* admission, when that reported an error: neither half of the retention sweep
\* takes it.
SourceTakenOnlyByUndo ==
    [][\A r \in Runs : Active(r) /\ object[r] /\ ~object'[r] => req[r].pc = "undoObject"]_vars
=============================================================================
