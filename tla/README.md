# Verification of SOJ

TLA+ modules, TLC runs and TLAPS proofs for the Sundial Online Judge backend. `PROJECT.json` names,
for every definition, the source lines it models, and lists runs, mutants, findings, hazards and
theorems. Paths below are relative to `src/`.

## 1. The system

### Processes and how they interact

| Process | Loops and handlers |
| --- | --- |
| `soj-api` | HTTP handlers; writes submissions, runs and rejudge batches. Executes self-runs itself in inline mode. |
| `soj-worker` | dispatcher, result consumer, reconciler, run retention, scoreboard snapshots. The first error of any loop ends the process; its supervisor restarts it. |
| `soj-judge-agent` | consumes requests, judges, publishes results. No database access. |
| `soj-migrate` | SQL migrations at deployment. |

They share PostgreSQL and two kinds of Redis stream: requests (worker to agent) and results (agent
to worker). A consumer group hands an entry to one consumer, which keeps it in its pending list until
it acknowledges it; neither agent nor result consumer ever asks for pending entries again.

### Inventory

| Component | State | Operations | Hard behaviour | What makes it correct |
| --- | --- | --- | --- | --- |
| Dispatcher (`submission/worker.go`) | `judge_tasks`, `judge_attempts`, request stream, a claimed batch in memory | claim, read, mark running, ensure attempt, publish, mark dispatched, retry | each call is its own transaction; errors abandon the batch; XADD may fail after writing | one open attempt per submission; nothing dispatched is forgotten |
| Agent (`app/judge_agent.go`, `submission/async.go`) | consume loops, goroutines, slots, pending list | consume, acquire, judge, publish, ack, dead-letter, release, stop | crash with requests in hand; results out of order, or twice; failures at every call; cancellation | every request ends in a result or a dead letter |
| Agent slots (`app/judge_agent_slots.go`) | two levels of semaphores | acquire, release | a global slot is held while waiting for a language slot | bounded use, no lost slot, progress |
| Testcase cache (`submission/testcase_cache.go`) | LRU list, byte count, single flights | load, get, put, evict | concurrent loads, shared failures, corrupt objects | byte budget, content matches key |
| Result consumer (`submission/judge_repository.go`) | submission, attempt, projection, task, rejudge item | complete, ack | duplicates, late results, crash between read and write | one verdict per round, never rewritten, projection = newest verdict |
| Rejudge (`submission/rejudge*.go`) | `rejudge_batches`, `rejudge_batch_items` | create, start, finish, fail, cancel, refresh | cancellation races dispatch; reuse of attempts; two transactions finishing the last items | nothing counted twice; a closed batch has no active item |
| Task processor (`submission/worker.go`) | as above, plus dead tasks | claim stale, judge in process, retry, kill, recover | agent and worker judge the same request; budget read early | verdicts final, dead tasks settled |
| Reconciler (`submission/reconciler.go`) | - | reset stale tasks, mark stale runs, claim stale, generate snapshots | resets somebody who is only slow | work abandoned is resumed |
| Self-runs and retention (`submission/run_*.go`) | `runs`, artifacts, source objects, slots, shutdown flag | create, admit, execute, complete, stale, sweep | admission on several replicas; undo of uploads; shutdown; retention against requests | cap, slots, source kept while needed |
| Contest projections (`submission/contest_projection_repository.go`) | problem results, registration scores, score revision | lock, rebuild, sum, increment | verdicts and rejudges of one user side by side; locks over several users | a cell is the recomputation from submissions, a score the sum of cells |
| Scoreboards (`contest/scoreboard*.go`) | score snapshots | live pages, frozen and final snapshots | reads no transaction holds together; ties across pages; the freeze boundary | current final snapshot exact; a frozen board stops at its freeze |
| Contest lifecycle (`contest/service.go`, `authoring.go`, `roles.go`, `policy.go`) | contest row, staff, registrations | create, update, archive, grant, register, admit | admission reads what may be stale at the insert | who may submit, judge and see what |
| Submission pages (`submission/submission_reader.go`) | - | one submission, own and general listings by cursor | two code paths for one visibility rule | no result from after the freeze on either; pages meet every row once |
| Problem workflow (`problem/problem_authoring.go`, `review.go`, `problem_readiness.go`, `problem_check_service.go`) | problem row, statements, testcase sets, objects, checks, review events | create, save, upload, check, submit, decide, publish, archive, restore | readiness read before the lock; object storage outside transactions; ambiguous commits | only reviewed content is public; a set's archive is there |
| Testcase archives (`problem/testcase_archive.go`) | - | parse, pair, order | budgets by declared and actual size, duplicates, order of findings | exactly the paired members, in natural order |
| Accounts (`user/*.go`, `auth/actor.go`, `authz/permissions.go`) | users, refresh tokens, roles, permission matrix, audit | register, login, refresh, logout, update, grant, revoke, replace matrix | permissions resolved at the start of a request; READ COMMITTED | an assignment of root remains; roles match the audit trail; bounded delegation |
| HTTP layer, configuration, storage, observability, stats, judge core, sandboxes | none of interest, or external | | | |

Every hazard found while reading is in `PROJECT.json` under `hazards`, at its line, with the properties
that cover it, or a note saying why none does.

## 2. Plan

1. *(done)* `JudgePipeline`, `TaskProcessor`, `VerdictLedger`: submissions from creation to verdict,
   rejudge, failures.
2. *(done)* `SelfRuns`: self-runs and their retention.
3. *(done)* `JudgeHost`: the inside of an agent process. `Contests`: projections, boards, submission pages.
   `ProblemWorkflow` with `TestcaseArchive`. `Accounts`.
4. *(done)* Proofs of the safety properties of the pipeline and its batches, the task processors, self-runs,
   the agent process, accounts, the problem workflow with the archive parser, contest scores, cells, the freeze and
   final snapshots, and of the refinement of `VerdictLedger` (section 5).
5. *(open)* MAXLEN trimming of the streams.

The modules compose as follows. `TaskProcessor` EXTENDS `JudgePipeline`; `JudgePipeline` refines
`VerdictLedger`. `JudgeHost` looks inside the three agent steps of `JudgePipeline`. `Contests` has the
transactions of `JudgePipeline` that write a submission, reduced to the columns the projections read and
opened up into their row locks. `ProblemWorkflow` EXTENDS `TestcaseArchive`. `ProblemWorkflow` and
`Contests` take as constants the permissions whose origin is `Accounts`.

## 3. Modules

### JudgePipeline

The variables are the columns that decide control flow: `sub` is `submissions.status`, `task` the
status and retry count of `judge_tasks` (one per submission), `att[s][n]` the status and batch of
attempt *n*, `result` the projection row, `batch` and `item` the rejudge tables with `0` for a null
`attempt_id`. `reqs` and `ress` are the two streams; an entry's `state` is its place in the consumer
group (`new`, held by the consumer `by`, `judged` or `written` but not acknowledged, `acked`,
`orphan` in the pending list of a consumer that is gone, `dead`). `disp` is the dispatcher of each
worker, with a program counter per call of `publish`/`submissionRequestEvent`.

A PostgreSQL transaction or statement is one action, with one exception, a Redis call another; reads that later steps
depend on are actions of their own (`ReadSubmission`). `Exit` is what an error does to a worker: its
memory is gone and the results it read stay orphaned. `CompleteResult` is the whole of
`CompleteJudgeAttemptResult`, its early returns as the disjunct `Swallowed`. Timeouts are not clocked:
`ResetAbandoned` resets a task whose dispatcher is gone, `ResetStalled` (a fault) one whose dispatcher
is alive and slow. The verdict of the judge is arbitrary. The contest projection is rebuilt inside the
same transactions and has no variable here. Faults are an explicit set `Faults` with a budget `MaxFaults`:
a worker or agent crash, a failed publish (with the entry written or not), a failed build, a failed
judging, a stall.

The exception is `RefreshRejudgeBatchProgress`, the last statement of a dispatch, of a verdict and of a dead
task. Its counts come from the statement's snapshot; the UPDATE may then wait for the batch row, and
PostgreSQL applies the old counts to the new row. `EnsureWaits`, `CompleteWaits` and `MarkDeadWaits`
(`TaskProcessor`) are the beginning of such a wait: `wait[w][loop]` has the batch, the submission whose rows
the transaction keeps locked, and `missed`, the items settled since it counted, which every commit of
another transaction adds to (`Overtaken`). The action that completes the transaction counts `missed` as
active. While a transaction waits, nobody writes the rows it has locked (`Holders`, `Unlocked`).

Two concurrent `EnsureJudgeAttempt` transactions may also collide on the unique index of the attempt
number, which ends one of the workers; that outcome is `WorkerCrash` at the same point.

### TaskProcessor

Extends the pipeline with the reconciler's claim of stale requests, which has something to claim only
when the agents read through the workers' group. One action per database call of `processMessage` and
`retryOrDead`; `proc` holds what they read (`attempts`, `seen`) and use later. `EngineVerdicts` is empty
for the production engine, which always fails, and a set of verdicts for `fake://` endpoints.

### VerdictLedger

What a user may rely on, in two variables: a submission is absent, open or judged, and the verdict
recorded last. The mapping of `JudgePipeline` reads `state` off `sub` and `recorded` off `result`.

### SelfRuns

One run identity per request. `req` is where `CreateRun` is (upload, artifact row, the three statements of
`AdmitRun`, the two of `discardSource`), `lock` the row lock on the user, `slot` who owns the execution
slot, `api` the shutdown state of a `RunService`. `InlineApis` are the
replicas with a runner (`runner != nil`); the others queue their runs. Queued mode has the dispatcher, agent and
result consumer again, reduced to one task per claim; an agent's handling of a request is one step with all
its outcomes. A `Close` that gives up waiting is part of `ApiCrash`: `closed` is one that returned without error.
`sweep` is the retention loop, one deletion per step. `Exists(r)` stands for the row: foreign keys refuse
to delete the artifact of an existing run or to insert a run without its artifact, and deleting a run
deletes task and attempts with it.

### JudgeHost

One agent process. A loop of `runJudgeAgentLoop` reads its batch limit from the free slots, consumes, and
for each message acquires a global and then a language slot before it starts the request's goroutine;
`at[r]` is where that request is. `flights` are the single flights of `TestcaseCache.Load`: the leader
downloads, followers get its cases or its error. `lru` and `currentBytes` are the cache. `failed` and
`canceled` are `errCh` and the run context: the first error cancels everybody, and each blocking call then
has its canceled outcome. A failed publish stores nothing here (`JudgePipeline` has the one that does).

### Contests

One contest. Cells and registrations are functions of the ids of their rows, defined where there is a row. A projection transaction is an entry of `tx` with its write set; it locks the submissions it
writes, then target by target the registration and from the first rebuild on the contest row, and commits
everything at once, which is READ COMMITTED for rows that are locked before they are read. The contest row is
not one of them: the code reads start and problems before it waits for the registration, the model after, which
is the same while updates leave both alone, as those of the runs do. `Rollback` stands for an error, a crash and PostgreSQL's
deadlock detection alike: a batch over several users does lock registrations in an order that another batch
may cross, so absence of deadlock is not claimed. A generator (`gen`) reads the listing, then problems and
registrations, then submissions or results, then writes the snapshot, each in its own step. Boards, pages,
visibility and listings are operators over the state; `OrderBy` and `Limit` are what the queries of a page say. Minutes are the clock (`now`); penalties use them.

### ProblemWorkflow and TestcaseArchive

A request (`req`) carries what it read before its transaction took the row lock (`lock`). `objects` is object
storage. A fault is a failed transaction, a commit answered with an error although it happened
(`unknown` remembers its key), a storage error or a crash. `TestcaseArchive` is the parser as a recursive
function over the members (`parseMembers`), with the budgets in the order the code tests them; a stem is the
sequence of runs `naturalTokens` splits it into, and `sort.Slice` is what it promises: the stems, each once, none
behind a greater one.

### Accounts

A request resolves its actor in one step and acts in later ones. `rootLock` is `FOR UPDATE` on the root
assignments, taken by `RevokeRole` and by status changes; `perms` is written by a DELETE and an INSERT
whose snapshots differ, as under READ COMMITTED. `trail` counts grants less revocations in the audit table.

## 4. Runs

| Run | Instance | Shows |
| --- | --- | --- |
| `pipeline_faults` | 1 submission, 2 workers, 1 agent, 1 rejudge, one fault of any kind | types, attempt history, projection, one verdict per round, finality, refinement of the ledger |
| `pipeline_batch` | 2 submissions, 1 worker, 1 batch, a publish, worker or judge fault, refreshes that wait for the batch row | batches never overcounted nor closed early, traceability of dispatched tasks, every submission that waits is judged unless its message was left behind |
| `processor` | 2 batches, agent crash or stall, engine that answers or fails, one retry | dead tasks are settled; verdicts change only by reopening |
| `self_runs` | 2 runs of 1 user, cap 1, an inline replica with 1 slot and a queueing one, one fault of any kind | types, cap, shutdown, slots, finality, sources |
| `judge_host` | 2 loops, 4 requests, 2 slots and 1 language slot, 2 sets that do not fit the cache together, one fault | slots, cache budget, right cases, answers before acks, and that every delivered request is settled |
| `contest_scores` | 2 users, 2 problems, 2 submissions, 2 transactions at once, rejudge and cancellation | types, scores are sums, cells are recomputations, ranks by page, complete listings |
| `contest_boards` | 1 contestant who may become staff, 1 submission, freeze and end, 1 transaction and 2 generators | a current final snapshot is exact; what boards, pages and listings show during the freeze |
| `problems` | 1 problem, author, reviewer, administrator, 2 requests at once, 2 statements, 2 uploads, one fault; 16,000 archives of up to 4 members | types, publication after review, archives present, console agrees with the check, parser against its reference, published content frozen |
| `accounts` | 2 users, 2 requests at once, roles root and author, 2 tokens | types, a root assignment remains, roles match the trail, bounded delegation |

and, where a document says otherwise, the violation runs `lost_request`, `unchecked_publish` and
`last_active_root` (see *Findings*).

**Bounds.** Interference between submissions goes only through a shared batch or a shared cell, so two
submissions are needed there and one elsewhere; two workers are enough for two dispatchers of one
submission. `MaxAttempts` allows a first judging and one rejudge (2, in `processor`) and one attempt more (3, in the pipeline
runs); `MaxRequests` bounds how often a task
can be claimed; with one fault every single failure point is reached at every moment. In
`pipeline_batch` the dispatcher and the result consumer of the one worker are enough for a finish to overtake a
refresh that waits, which then writes a count that is one short. Two finishes that overtake each other, after
which the batch stays `running` with no active item, take two consumers: the theorems of section 5 cover them,
for any number of workers (the two batch invariants were also run once with two workers and no fault, where TLC
reaches that state; the other two properties of the run are not true of two dispatchers, see *Observed*). A run with cap *c* needs *c* + 1 requests. In `judge_host` two slots and one
language slot let a loop hold a slot and wait, and three requests for two sets give a hit, a shared flight and
an eviction. In the contest runs `MaxBusy` is the number of transactions and generators under way at once,
`MaxRevision` the score revision after which no further rejudge starts, `MaxLag` how old a verdict may be
when its transaction begins (0 where only scores are asked for, which do not depend on it), `Registrants` who asks to register; every verdict is an acceptance, since a wrong
answer is the absence of one in every formula but the attempt count, and a system error supplies that.
The updates of the contest runs change the
status only: two generators and a freeze that moves are beyond five minutes (with one generator it holds), and the
theorem covers it. `problems` asks for one visibility, which no other action reads, and `unchecked_publish` for another. Deadlock checking is off because each
system is quiescent once all requests are served or the bounds are reached.

**Symmetry** is used in safety runs only, over submissions, workers, generators, requests, batches or runs,
none of which the actions tell apart.

**Fairness.** `JudgePipeline`: weak fairness of the dispatcher, the result consumer, the agent and the stale
reset, polling loops of processes that are restarted. Requests of users, faults, rejudges and retention have
none. `JudgeHost`: weak fairness of each loop and of the goroutines together, and strong fairness of a loop's
two waits for a slot, because a channel serves its senders in turn; nothing once the context is canceled,
when the process may end at any point. The other modules state no liveness and so no fairness.

### Findings

* `lost_request`: an agent that dies with a request leaves the task `dispatched`; `ResetStaleJudgeTasks`
  does not cover that status. README: such a death costs "a little time".
* `unchecked_publish`: `docs/v2-api-guide.md:105` says replacing a statement or an archive invalidates the check
  for publication. `demotePublishedProblem` looks only at status `published`, so archive, replace, restore
  publishes unchecked content; so does a save between an approval's readiness check and its transition.
* `last_active_root`: `user/service.go:386` says "at least one active root must remain" and `user/repository.go:153`
  gives disabling and revoking the same invariant. Both count assignments of root whatever the accounts' status, so
  disabling one root and then disabling or revoking the other leaves no active one.

### Observed

Present in the modules as steps, without a run of their own:

* A rejudge item may run under an older attempt that is not linked to its batch (`judge_repository.go:57`), and
  the attempt's result then does not finish the item; `docs/v2-worker.md:65` speaks of the linked attempt.
* `HandleFailure` compares the retry budget with a count read before the judging (`worker.go:341`), so a task
  recovered meanwhile can die with budget left; `docs/v2-worker.md:23` says it dies when the budget is spent.
* `discardSource` deletes the row also when deleting the object failed (`run_service.go:274`), against the
  comment at `run_service.go:264`.
* A result read by a worker that dies before writing it is never read again (an `orphan` of `ress`).
* A result for a task that is pending again finishes the attempt and leaves the task open; it is dispatched
  once more, and the ledger properties show that this changes no verdict.
* `ResetStaleJudgeTasks` asks for a submission, so the task of a run is never reset; `MarkStaleRuns` finishes
  the run itself. The comment at `submission/worker.go:425` calls both subject-agnostic.
* With two workers, a late `MarkJudgeTaskDispatched` of a slow worker can mark the task of a later rejudge round
  dispatched before its request is published, and that round is lost. `pipeline_batch` therefore has one worker.
* A queued rejudge item stays queued when the result of an older, unlinked attempt judges the submission
  after a publish error.
* Two refreshes with one token both get a session, and a refresh in flight outlives the
  logout of its device; a request goes on with the permissions it resolved at its start; registration commits the
  account before it grants the role; two replacements of a role's permissions may leave the union of both, where
  `role_permission.go:20` says the last write wins.
* A commit of a testcase set that is answered with an error although it happened loses the set's object
  (`problem_authoring.go:318`); a crash after an upload leaves an object without a set.
* A frozen snapshot built while a verdict given before the freeze is uncommitted omits it for good. Of two
  generators, the one with the older revision may write last and be the latest until the next round. Removing
  a problem from a contest leaves its results in the scores. A manager may submit unregistered, and the cell of that submission
  is skipped until the next write. A request admitted just before the end may insert after it. Moving the start past an
  accepted submission can make its penalty negative; every later transaction on that cell then fails on
  `CHECK (penalty_minutes >= 0)` (`000001_init.up.sql:537`).
* During the freeze a submission page hides result, cases and diagnostics, as documented, and still shows the
  submission's status, times, memory and error message. It decides by `judged_at`, which a rejudge resets, where the
  board uses `first_judged_at`. The two sources of a frozen board draw the line differently: built from submissions it
  leaves out what was made at the freeze or first judged after it, built from results it shows both if the
  acceptance is not after the freeze (`contest/scoreboard.go:396` and `443`).
* A frozen snapshot keeps the freeze it was built with when an update moves it.
* Two transactions that settle items of one batch together: the slower one has counted the other's item as active
  and writes that count, so a batch may stay one short and, after the last item, `running` for ever. Nothing is
  counted twice (`docs/v2-worker.md:65`) and no batch closes early.
* Cached cases carry the limits of the request that loaded them (`testcase_cache.go:101`). `RunJudgeAgent` returns
  after the first error and waits for no other loop.

## 5. Proofs

Forty-one theorems. Two are about the archive parser and the order of its cases; the others are by induction over the
steps of a specification: an invariant at least as strong as the property holds initially, every action keeps it,
and it implies the property. They hold for every value of the
constants that satisfies the assumption of the module: any workers, agents, batches, users, replicas,
requests and verdicts, any number of faults of any kind. `ConstantAssumption` (`JudgePipeline`), `RunsAssumption`
(`SelfRuns`) and `HostAssumption` (`JudgeHost`) ask that the sets which are counted are finite; the last also that a
message is delivered to one loop once and names a set that exists. `WorkflowAssumption` and
`AccountsAssumption` say that the bounds are numbers, that inputs are drawn from their catalogues and, for
accounts, that the seed made somebody root. `ContestAssumption` says that a request sets columns of the contest row a
request may set, never its owner or revision, with numbers for times and problems of the catalogue.
`ArchiveAssumption` says that the budgets are numbers and that archives are what `zip.NewReader` can present
(`IsArchive`): members with natural sizes and stems made of tokens. Each asks that `None` is not one of the values it stands in for; TLC
evaluates all of them.

* `JudgePipelineProofs`: `TypeCorrect`. Types alone are not inductive: `CompleteResult` indexes `att[s]` with
  the number in a message, and the dispatcher carries a submission and an attempt number. `TypeInv` adds
  `DispatchersRefer` and `EventsRefer`; it holds because attempts are only appended.
* `VerdictProofs`: `AttemptsFormHistory`, `ProjectionCorrect`, `AttemptsFrozen`, `VerdictsFinal`. The invariant
  strengthens `TypeInv` by the history (all but the latest attempt finished, so a result that is not swallowed
  is for the latest attempt), by `OnlyCreatedWorkedOn` and by what a terminal submission shows. Finality of
  verdicts also needs `NoItemsBeforeBatch`: the step that reopens a submission creates an item where none was.
  `RefinesLedger`: initial states map to initial states; each action is shown to be a ledger
  step (`Submit`, `Judge`, `Reopen`, `Withdraw`) or to leave `sub` and `result` as the ledger sees them.
  About rejudges: `BatchNeverOvercounted`, `ClosedBatchesSettled`. A refresh that counted before it waited writes a row
  that fits the items all the same (`RefreshEffect`): what it missed it takes for active, which makes its counts smaller
  and keeps the batch open. A step recounts only the batch it touches, so `BatchInv` needs `OneActiveItem` (a submission has at most one active item, so no other batch's count moves) and
  `NoItemsBeforeBatch`. `VerdictsBounded`: `RoundsBound` charges each finished attempt to the first judging or to a
  rejudge that was not canceled, with one round to spare while the submission is open.
  `DispatchedNeverForgotten`, for one worker process (`OneWorker`; the Compose stack of `docs/v2-deploy.md` runs
  one): `TraceInv` adds to the property what the dispatcher has yet to do for the task it holds (`Diligent`), so that
  marking it dispatched finds its request published. The hypothesis is needed: with two workers a late
  `MarkJudgeTaskDispatched` breaks the property (see *Observed*).
* `TaskProcessorProofs`, about `ProcessorSpec`: `DeadTasksSettled`, `ProcessorKeepsBatches`, `VerdictsReopened`. What
  `JudgePipeline`'s actions keep is cited; the new actions are shown to keep the same `BatchInv`,
  their refreshes wait too, and a task is
  marked dead in the transaction that settles its submission and item.
* `SelfRunsProofs`: `CapHolds`, `RunVerdictsFinal`. The cap is not inductive: `AdmissionInv` adds that a request
  between counting and inserting holds the row lock of its user (`HoldsLock`) and that what it counted is still
  true (`HasRoom`), since every other step can only shrink the set of active runs. Finality needs that a request
  that has not inserted yet has no run (`NotInserted`). `TypeCorrect`. `SlotsReturned` and `CloseIsFinal` need
  that a slot belongs to a request or to an execution it was handed to (`SlotOwned`) and that a closed replica has
  none (`ClosedIsEmpty`). `SourcesKept` needs that what a sweep has listed is over and stays over
  (`SweptIsOver`).
* `JudgeHostProofs`: `AnsweredBeforeAck`, `JudgedAgainstOwnSet`, `SlotsStayAccounted`, `CacheStaysWithinBudget`.
  `PlaceInv` says where a request is (in the stream, in one loop's batch, or on its own) and who is in a flight;
  `SlotInv` counts holders by place; `CasesInv` follows the cases through cache, download and flight. That the
  bytes of the list are the counter is an argument over the list itself.
* `AccountsProofs`: `TypeCorrect`, `TrailReplays`, `DelegationStaysBounded`, `RootStaysAssigned`. A request carries what
  its checks let through to a later transaction (`RequestsCarry`, `RefreshRefers`); the matrix holds only what
  `normalizeRolePermissions` accepts (`MatrixNormal`). `RootAssigned`, which is
  about assignments and not about active accounts (see *Findings*), is not inductive: `RevokerLeavesOne` adds that a
  revocation that has counted the other roots holds their lock and one is still there.
* `ProblemWorkflowProofs`: `TypeCorrect`, `PublishedIsFrozen`, `PublishedOnlyAfterReview`, `RecordedSetsAreStored`. A
  transaction that holds the problem row knows its status (`Holds`), which is why a new version takes a published
  problem back to draft. `ReviewInv` carries an approval's three reads to its transaction: `Grows` lists what no
  step takes away, so those reads stay true. `ArchiveInv` says that a request's random key is its own
  (`OwnKeys`), so a cleanup deletes nobody else's object, and that an archive checked against its own digest
  passes (`OwnDigestVerifies`). `ConsoleAgreesWithGate`: stepper and gate are the same concatenation of steps.
  `NaturalOrderIsTotal`, `ParserIsExact`: for every archive, not only those TLC tries. Two invariants of the loop over
  the members: `Scanned` (no error so far exactly if nothing in the prefix called for one, and then the counters and
  maps stand for the prefix) and `Mapped` (whatever the findings, a map names members of its kind and key, and has
  every one that can be read). Sorting puts a stem where the number of smaller ones says, which needs the order to
  be total. `OnlyPairedArchivesStored` adds that only an accepted upload puts an object (`ObjectsAccepted`).

* `ContestsProofs`: `ScoresAddUp`. The columns of a registration are written at the commit, from a sum computed
  targets earlier, so `ScoreInv` says of every open transaction that it carries the sum over the cells as it sees
  them for exactly the users whose registration it holds (`Scored`), that no two hold the same (`Apart`), and that a
  user who is not registered has no cells, which is what `Register` relies on. `FinalSnapshotsExact`: `Counted` says
  that a transaction with a rebuilt cell increments the revision before it commits, so results change only together
  with the revision; `FinalInv` adds that a generator carries a revision the contest has had, that no snapshot is
  ahead of the contest, and that a final board waiting to be stored is exact while its revision stands.
  `CellsStayRebuilt`: `CellInv` says the same of the cells as an open transaction sees them (`Faithful`); a target
  that is still to be rebuilt is excused until the commit. `ContestTypes`. `FrozenStaysFrozen`: `FreezeInv` says of
  every frozen board, stored or being built, that it stops at the freeze it was built with (`Stops`). A cell of a
  board stays justified by a submission only if no later step takes the submission's time or first verdict away:
  `RowInv` says that an open transaction writes rows that no other one writes, and keeps those columns, so every
  commit does (`Lasting`). `CellsStayRebuilt` has a hypothesis on the inputs, `StartFixed`, without which it is false:
  an update that moves the start rebuilds no cell.
  `PagesMeetEveryRow`: an order that is strict and total has one row (`RowOf`), the registrations are finitely many
  (`FewRegistered`) and the submissions are numbered, so there is one board and one listing to compare with. A cursor
  stands for a place in it (`BoardCursor`, `CursorAt`), the rows behind a place are the rest of the row, and n pages
  reach the place n times the page size, or the end, where there is no cursor (`NextAt`); a rank carried over a page break is the number of rows ahead,
  because rows that tie stand next to each other.

Facts about recursive functions and sums (the bytes of the cache, the current version in a list of versions, the
penalties of a set of cells, the loop of the parser, the walk over pages) are proved from
the least number that violates them (`WFMin` over the natural numbers), since the library's induction theorems take
a predicate as parameter and no installed prover instantiates one. The strengthened invariants were model-checked
on the instances of section 4 before they were proved.

Model-checked only: liveness (`JudgedUnlessStranded`, `DeliveredIsSettled`), since fairness and ENABLED are outside the
prover. Every invariant and every action property of a passing run is stated by a theorem, two of them under a
hypothesis named above (`OneWorker`, `StartFixed`).

## 6. Not modelled

Judging itself (compilation, sandbox, checkers), request decoding, metrics and tracing, configuration, migrations,
storage adapters, statistics, the language catalogue. Listings of problems, contests and users, tags, the offset
listing and source download of submissions: they only read. MAXLEN trimming of the streams: the
documentation asks for limits above the backlog. The statements inside one transaction, except in `AdmitRun`,
`Contests`, `Accounts` and the refresh of a batch. The in-memory agent of the tests (`FakeAsyncAgent`).
