------------------------------ MODULE Contests ------------------------------
(***************************************************************************)
(* One contest: its row and problems, staff, registrations, the admission  *)
(* of submissions, the score projections that every verdict, failure and   *)
(* rejudge of a contest submission rebuilds, and the snapshots of the      *)
(* scoreboard that the workers' reconcile loops generate.                  *)
(*                                                                         *)
(* A projection transaction locks submission rows, then one registration   *)
(* after another, and from its first rebuild on the contest row.  A        *)
(* snapshot is built from reads that no transaction holds together.        *)
(*                                                                         *)
(* Left out: titles, aliases, audit rows (nothing reads them), tasks and   *)
(* attempts (JudgePipeline has them) and requests that are refused or only *)
(* read.  Every verdict but accepted counts as a wrong answer.             *)
(***************************************************************************)
EXTENDS Integers, Sequences, FiniteSets, SequencesExt

CONSTANTS
    Users,              \* numbers: display names sort like them
    GlobalPermissions,  \* GlobalPermissions[u]: what u holds outside the contest
    RolePermissions,    \* RolePermissions[r]: what contest role r grants
    CreateInputs,       \* bound: the contests a request may ask for
    UpdateInputs,       \* bound: the partial updates a request may ask for
    GrantInputs,        \* bound: <<user, role>> pairs that may be granted
    Registrants,        \* bound: the users who ask to register
    SubmitInputs,       \* bound: <<user, problem>> pairs that may be submitted
    MaxSubmissions,     \* bound
    Verdicts,           \* bound: the verdicts judges give
    MaxNow,             \* bound: minutes the clock counts
    MaxLag,             \* bound: minutes from a verdict to its transaction
    MaxRevision,        \* bound: score revisions after which no new rejudge starts
    Workers,            \* transactions that may be open at once
    Generators,         \* reconcile loops that may generate snapshots at once
    MaxBusy,            \* bound: transactions and generators under way at once
    MaxSnapshots,       \* bound
    None

Problems == {in[2] : in \in SubmitInputs}
ContestRoles == DOMAIN RolePermissions
Statuses == {"draft", "published", "running", "ended", "archived"}
Terminal == {"accepted", "wrong_answer", "system_error"}

\* The columns a request may set, the problems among them.
Columns == {"status", "visibility", "invite", "start", "freeze", "end", "problems"}

ASSUME ContestAssumption ==
    /\ Users \subseteq Nat
    /\ GlobalPermissions \in [Users -> SUBSET STRING]
    /\ Registrants \subseteq Users
    /\ SubmitInputs \subseteq Users \X Problems /\ IsFiniteSet(SubmitInputs)
    /\ \A in \in CreateInputs : DOMAIN in = Columns
    /\ \A in \in UpdateInputs : DOMAIN in \subseteq Columns
    /\ \A in \in CreateInputs \cup UpdateInputs :
           /\ \A c \in {"start", "freeze", "end"} \cap DOMAIN in : in[c] \in Int
           /\ "problems" \in DOMAIN in => in.problems \subseteq Problems
    /\ None \notin Statuses \cup Nat
    /\ None \notin [after : Nat \cup {None}, seen : Nat, rank : Nat]
    /\ GrantInputs \subseteq Users \X ContestRoles
    /\ Verdicts \subseteq {"accepted", "wrong_answer"}
    /\ {MaxSubmissions, MaxNow, MaxLag, MaxRevision, MaxBusy, MaxSnapshots} \subseteq Nat

VARIABLES
    contest,      \* the row with its problems; status None before it is created
    now,
    staff,        \* staff[u]: active contest roles
    reg,          \* the registrations: reg[u] has the score columns of u's
    admitted,     \* <<user, problem>> of requests between admission and insert
    subs,         \* submissions in the order of their ids
    batch,        \* submissions with an open item in the rejudge batch
    results,      \* results[u][p]: the row of contest_problem_results
    tx,           \* tx[w]: an open projection transaction
    gen,          \* gen[g]: where a snapshot generator is and what it has read
    snapshots,    \* in the order of generated_at; `freeze' and `source', the freeze
                  \* and the table it was built from, are history
    unprojected   \* history: submissions written by a transaction that found
                  \* no projection to rebuild

vars == <<contest, now, staff, reg, admitted, subs, batch, results, tx, gen,
          snapshots, unprojected>>

-----------------------------------------------------------------------------
(* Who may do what.                                                        *)

Created == contest.status # None
actorWithContestRoles(u) ==
    GlobalPermissions[u] \cup UNION {RolePermissions[r] : r \in staff[u]}
requireContestCreator(u) == GlobalPermissions[u] \cap {"contest.create", "contest.manage_all"} # {}
canManageContest(u) == u = contest.owner \/ "contest.manage" \in actorWithContestRoles(u)
requireContestJudge(u) == canManageContest(u) \/ "contest.judge" \in actorWithContestRoles(u)
canViewContestResults(u) == canManageContest(u) \/ "contest.judge" \in actorWithContestRoles(u)

validateContestInput(c) ==
    /\ c.status \in Statuses
    /\ c.visibility \in {"public", "private"}
    /\ c.visibility = "private" => c.invite
    /\ c.start < c.end
    /\ c.freeze \in c.start .. c.end

RowFree(w) == \A x \in Workers \ {w} : ~tx[x].row
NobodyHasRow == \A x \in Workers : ~tx[x].row

\* The row a request asks for, and its problems.
InsertContest(u, in) ==
    [c \in Columns \cup {"owner", "revision"} |->
        IF c = "owner" THEN u ELSE IF c = "revision" THEN 0 ELSE in[c]]

CreateContest(u, in) ==
    /\ ~Created
    /\ requireContestCreator(u)
    /\ validateContestInput(in)
    /\ contest' = InsertContest(u, in)
    /\ UNCHANGED <<now, staff, reg, admitted, subs, batch, results, tx, gen, snapshots, unprojected>>

\* coalesce: the fields a request leaves out keep what the row has.
UpdatedContest(in) ==
    [c \in DOMAIN contest |-> IF c \in DOMAIN in THEN in[c] ELSE contest[c]]

\* The code validates a row it read before the transaction.  A change between is
\* harmless: the table checks the written row's times again, and an invite code is
\* never taken away.
UpdateContest(u, in) ==
    /\ Created /\ canManageContest(u)
    /\ validateContestInput(UpdatedContest(in))
    /\ NobodyHasRow
    /\ contest' = UpdatedContest(in)
    /\ UNCHANGED <<now, staff, reg, admitted, subs, batch, results, tx, gen, snapshots, unprojected>>

ArchivedContest == [contest EXCEPT !.status = "archived"]

DeleteContest(u) ==
    /\ Created /\ canManageContest(u)
    /\ NobodyHasRow
    /\ contest' = ArchivedContest
    /\ UNCHANGED <<now, staff, reg, admitted, subs, batch, results, tx, gen, snapshots, unprojected>>

\* The table refuses a grant to oneself and a second active assignment.
InsertAssignment(a, u, r) ==
    /\ a # u /\ r \notin staff[u]
    /\ staff' = [staff EXCEPT ![u] = @ \cup {r}]

GrantContestRole(a, u, r) ==
    /\ Created /\ canManageContest(a)
    /\ InsertAssignment(a, u, r)
    /\ UNCHANGED <<contest, now, reg, admitted, subs, batch, results, tx, gen, snapshots, unprojected>>

\* Exactly one active assignment must be there to be revoked.
RevokeAssignment(u, r) ==
    /\ r \in staff[u]
    /\ staff' = [staff EXCEPT ![u] = @ \ {r}]

RevokeContestRole(a, u, r) ==
    /\ Created /\ canManageContest(a)
    /\ RevokeAssignment(u, r)
    /\ UNCHANGED <<contest, now, reg, admitted, subs, batch, results, tx, gen, snapshots, unprojected>>

Tick ==
    /\ now < MaxNow
    /\ now' = now + 1
    /\ UNCHANGED <<contest, staff, reg, admitted, subs, batch, results, tx, gen, snapshots, unprojected>>

-----------------------------------------------------------------------------
(* Registration and admission.  A request is admitted against what it      *)
(* reads; its submission is inserted later, with the time of the insert.   *)

Registered(u) == u \in DOMAIN reg

CreateContestRegistration(u) ==
    [v \in DOMAIN reg \cup {u} |-> IF v = u THEN [accepted |-> 0, penalty |-> 0] ELSE reg[v]]

\* `code' says whether the request carries the contest's invite code.
Register(u, code) ==
    /\ Created /\ ~Registered(u)
    /\ contest.visibility = "private" => contest.invite /\ code
    /\ reg' = CreateContestRegistration(u)
    /\ UNCHANGED <<contest, now, staff, admitted, subs, batch, results, tx, gen, snapshots, unprojected>>

ValidateSubmission(u, p) ==
    /\ contest.status \in {"published", "running"}
    /\ contest.start <= now /\ now < contest.end
    /\ p \in contest.problems
    /\ canManageContest(u) \/ Registered(u)
    /\ <<u, p>> \notin admitted
    /\ Len(subs) + Cardinality(admitted) < MaxSubmissions
    /\ admitted' = admitted \cup {<<u, p>>}
    /\ UNCHANGED <<contest, now, staff, reg, subs, batch, results, tx, gen, snapshots, unprojected>>

\* submitted_at is the database's clock at the insert.
InsertSubmission(u, p) ==
    Append(subs, [user |-> u, problem |-> p, at |-> now, status |-> "queued",
                  judged |-> None, first |-> None, row |-> None])

\* Between admission and insert the request looks up the language and uploads
\* the source.
CreateSubmission(u, p) ==
    /\ <<u, p>> \in admitted
    /\ admitted' = admitted \ {<<u, p>>}
    /\ subs' = InsertSubmission(u, p)
    /\ UNCHANGED <<contest, now, staff, reg, batch, results, tx, gen, snapshots, unprojected>>

-----------------------------------------------------------------------------
(* What the statements write into a submission: `judged' is judged_at,     *)
(* `first' first_judged_at, and `row' the status and updated_at in         *)
(* submission_results, which outlive a rejudge's return to the queue.      *)

Coalesce(x, y) == IF x # None THEN x ELSE y

\* Mutant: the time of the first verdict is not kept.
statusOnly(sub, v, judged) == [sub EXCEPT !.status = v]

UpdateSubmissionStatus(sub, v, judged) ==
    [sub EXCEPT !.status = v, !.judged = Coalesce(@, judged), !.first = Coalesce(@, judged)]
UpsertSubmissionResult(sub, v) == [sub EXCEPT !.row = [status |-> v, at |-> now]]
MarkSubmissionSystemError(sub) ==
    [sub EXCEPT !.status = "system_error", !.judged = Coalesce(@, now), !.first = Coalesce(@, now)]
PrepareSubmissionForRejudge(sub) == [sub EXCEPT !.status = "queued", !.judged = None]
RestoreSubmissionAfterCanceledRejudge(sub) ==
    [sub EXCEPT !.status = sub.row.status, !.judged = Coalesce(@, sub.row.at)]

NoTx == [todo |-> {}, pc |-> "lock", held |-> {}, row |-> FALSE, writes |-> <<>>,
         cells |-> <<>>, score |-> <<>>, bumps |-> 0, skipped |-> {}, batch |-> "keep"]
NoGen == [todo |-> <<>>, pc |-> "rows", contest |-> None, rows |-> None, board |-> None,
          source |-> None]
Idle(w) == tx[w] = NoTx
Room == Cardinality({w \in Workers : ~Idle(w)} \cup {g \in Generators : gen[g] # NoGen}) < MaxBusy

-----------------------------------------------------------------------------
(* The projection of one cell.                                             *)

NoCell == [status |-> "none", attempts |-> 0, at |-> None, penalty |-> 0]

\* `rows' are submissions by their ids, which are in the order of (submitted_at, id)
\* already: what counts are the rows up to the first accepted one.
buildContestProblemProjection(start, rows) ==
    LET accepted == {s \in DOMAIN rows : rows[s].status = "accepted"}
        best == Min(accepted)
        attempts == Cardinality({s \in DOMAIN rows : accepted = {} \/ s <= best})
    IN  IF DOMAIN rows = {} THEN NoCell
        ELSE IF accepted = {} THEN [NoCell EXCEPT !.status = "attempted", !.attempts = attempts]
        ELSE [status |-> "accepted", attempts |-> attempts, at |-> rows[best].at,
              penalty |-> rows[best].at - start + (attempts - 1) * 20]

ListContestProblemSubmissionsForProjection(all, u, p) ==
    Restrict(all, {s \in DOMAIN all : /\ all[s].user = u /\ all[s].problem = p
                                       /\ all[s].status \in Terminal})

Accepted(row) == {p \in DOMAIN row : row[p].status = "accepted"}
Penalty(row, S) == MapThenSumSet(LAMBDA p : row[p].penalty, S)
ScoreOf(row) ==
    [accepted |-> Cardinality(Accepted(row)), penalty |-> Penalty(row, Accepted(row))]

\* What transaction t sees: the committed rows under its own writes.
SeenSubs(t) == [s \in DOMAIN subs |-> IF s \in DOMAIN t.writes THEN t.writes[s] ELSE subs[s]]
SeenRow(t, u) ==
    [p \in Problems |-> IF <<u, p>> \in DOMAIN t.cells THEN t.cells[<<u, p>>] ELSE results[u][p]]

ListContestProblems == contest.problems

Projected(sub) == sub.problem \in ListContestProblems /\ Registered(sub.user)

\* Mutant: the registration is read without FOR UPDATE.
readRegistration(w, u) == TRUE

LockContestRegistration(w, u) == \A x \in Workers \ {w} : u \notin tx[x].held

\* After the last target the transaction commits.  A batch is processed target
\* by target; what it leaves behind is what its last rebuild of each cell and
\* its last sum of each user wrote, so all its writes are seen from the start.
Commit(t) ==
    /\ subs' = SeenSubs(t)
    /\ results' = [u \in Users |-> SeenRow(t, u)]
    /\ reg' = [u \in DOMAIN reg |-> IF u \in DOMAIN t.score THEN t.score[u] ELSE reg[u]]
    /\ contest' = [contest EXCEPT !.revision = @ + t.bumps]
    /\ unprojected' = unprojected \cup t.skipped
    /\ batch' = CASE t.batch = "open" -> batch \cup DOMAIN t.writes
                  [] t.batch = "finish" -> batch \ DOMAIN t.writes
                  [] OTHER -> batch
Proceed(w, t) ==
    /\ IF t.todo = {}
       THEN Commit(t) /\ tx' = [tx EXCEPT ![w] = NoTx]
       ELSE /\ tx' = [tx EXCEPT ![w] = t]
            /\ UNCHANGED <<subs, results, reg, contest, unprojected, batch>>
    /\ UNCHANGED <<now, staff, admitted, gen, snapshots>>

\* The targets are visited in the order of their ids.
Target(t) == Min(t.todo)

\* lockContestProblemProjection for a submission outside the projections: there
\* is nothing to lock and nothing to rebuild.  What it decided may be stale when
\* it commits; no property speaks of the cell of a submission it skipped.
SkipProjection(w, t) ==
    LET s == Target(t)
    IN  /\ ~Projected(subs[s])
        /\ Proceed(w, [t EXCEPT !.todo = @ \ {s}, !.skipped = @ \cup {s}])

\* Otherwise the registration is locked to the end of the transaction.  The code has
\* read the contest's start and problems before it waits for the lock; the rebuild
\* here reads them after, which is the same while updates leave both alone.
lockContestProblemProjection(w, sub) ==
    Projected(sub) /\ LockContestRegistration(w, sub.user)

\* Mutant: the cell is rebuilt from the rows as they were before the update.
committedSubs(t) == subs

\* The rows of a cell, as the transaction's own update left them.
updatedSubs(t) == SeenSubs(t)

UpsertContestProblemResult(t, u, p, cell) ==
    [x \in DOMAIN t.cells \cup {<<u, p>>} |-> IF x = <<u, p>> THEN cell ELSE t.cells[x]]

\* The cells of one user as the transaction sees them, its own upsert included.
ListContestProblemResultsForUsers(t, u) == SeenRow(t, u)
UpdateContestRegistrationScore(t, u) ==
    [x \in DOMAIN t.score \cup {u} |->
        IF x = u THEN ScoreOf(ListContestProblemResultsForUsers(t, u)) ELSE t.score[x]]

\* Under the lock the cell is rebuilt and the user's cells are added up.  The table
\* refuses a negative penalty, of a contest whose start was moved past the
\* submission: the transaction fails.
rebuildContestProblemResult(w, t) ==
    LET u == subs[Target(t)].user
        p == subs[Target(t)].problem
        cell == buildContestProblemProjection(contest.start,
                    ListContestProblemSubmissionsForProjection(updatedSubs(t), u, p))
        v == [t EXCEPT !.cells = UpsertContestProblemResult(t, u, p, cell)]
    IN  /\ lockContestProblemProjection(w, subs[Target(t)])
        /\ cell.penalty >= 0
        /\ Proceed(w, [v EXCEPT !.pc = "increment", !.held = @ \cup {u},
                                !.score = UpdateContestRegistrationScore(v, u)])

\* The submission rows are locked first; then the first target is visited.  A
\* transaction that waits for its first registration has touched nothing yet.
LockSubmissionByID(w, S) ==
    Room /\ Idle(w) /\ \A x \in Workers : DOMAIN tx[x].writes \cap S = {}
Visit(w, t) == SkipProjection(w, t) \/ rebuildContestProblemResult(w, t)
Begin(w, writes, onBatch) ==
    Visit(w, [NoTx EXCEPT !.todo = DOMAIN writes, !.writes = writes, !.batch = onBatch])

\* The contest row stays locked from here to the commit.
IncrementContestScoreRevision(w) ==
    /\ tx[w].pc = "increment" /\ RowFree(w)
    /\ Proceed(w, [tx[w] EXCEPT !.pc = "lock", !.row = TRUE, !.bumps = @ + 1,
                                !.todo = @ \ {Target(tx[w])}])

NextTarget(w) ==
    /\ tx[w].todo # {} /\ tx[w].pc = "lock"
    /\ Visit(w, tx[w])

\* An error, a crash, or PostgreSQL breaking a cycle of waits.
Rollback(w) ==
    /\ ~Idle(w)
    /\ tx' = [tx EXCEPT ![w] = NoTx]
    /\ UNCHANGED <<contest, now, staff, reg, admitted, subs, batch, results, gen, snapshots, unprojected>>

-----------------------------------------------------------------------------
(* The transactions.                                                       *)

\* A judge's verdict, with the time the judge gave it, which may be long past.
completeSubmissionAttempt(w, s, v, judged) ==
    /\ LockSubmissionByID(w, {s})
    /\ subs[s].status = "queued"
    /\ judged \in subs[s].at .. now /\ now - judged <= MaxLag
    /\ Begin(w, [x \in {s} |-> UpsertSubmissionResult(UpdateSubmissionStatus(subs[x], v, judged), v)],
             "finish")

\* The failure handler gives the submission up and fails its batch item.
markSubmissionSystemError(w, s) ==
    /\ LockSubmissionByID(w, {s})
    /\ subs[s].status = "queued"
    /\ Begin(w, [x \in {s} |-> MarkSubmissionSystemError(subs[x])], "finish")

\* An operator revives a dead task.
RecoverDeadJudgeTask(w, s) ==
    /\ LockSubmissionByID(w, {s})
    /\ subs[s].status = "system_error"
    /\ contest.revision < MaxRevision
    /\ Begin(w, [x \in {s} |-> PrepareSubmissionForRejudge(subs[x])], "keep")

ListEligibleContestSubmissionsForRejudge == {s \in DOMAIN subs : subs[s].status \in Terminal}

AuthorizeContestRejudge(u) == requireContestJudge(u)
ValidateContestRejudgeTarget == contest.status = "ended"

\* Every eligible submission goes back to the queue, or the request is refused:
\* none is eligible, or one of them has an item in an open batch already.
CreateRejudgeBatch(w) ==
    LET targets == ListEligibleContestSubmissionsForRejudge
    IN  /\ targets # {} /\ batch \cap targets = {}
        /\ contest.revision < MaxRevision
        /\ LockSubmissionByID(w, targets)
        /\ Begin(w, [s \in targets |-> PrepareSubmissionForRejudge(subs[s])], "open")

CreateBatch(w, u) ==
    /\ AuthorizeContestRejudge(u)
    /\ ValidateContestRejudgeTarget
    /\ CreateRejudgeBatch(w)

\* `queued' are the items not yet dispatched.  One of them without a result row
\* makes the whole cancellation fail.
CancelRejudgeBatch(w, queued) ==
    /\ queued # {} /\ \A s \in queued : subs[s].row # None
    /\ LockSubmissionByID(w, queued)
    /\ Begin(w, [s \in queued |-> RestoreSubmissionAfterCanceledRejudge(subs[s])], "finish")

CancelBatch(w, u, queued) ==
    /\ AuthorizeContestRejudge(u)
    /\ CancelRejudgeBatch(w, queued)

-----------------------------------------------------------------------------
(* Boards.  A row has a cell per problem and the two columns it is ranked  *)
(* by; a wrong answer after an acceptance never counts.                    *)

HiddenCell(n) == [NoCell EXCEPT !.status = "frozen", !.attempts = n]
\* A board counts the attempts before the accepted one.
applyResultToCell(cell) ==
    IF cell.status = "accepted" THEN [cell EXCEPT !.attempts = @ - 1] ELSE cell

BoardOf(rows, Cell(_, _)) ==
    [u \in rows.users |->
        LET cells == [p \in rows.problems |-> Cell(u, p)]
        IN  [cells |-> cells, score |-> ScoreOf(cells)]]

buildBoardFromResults(kind, freeze, rows, res) ==
    BoardOf(rows, LAMBDA u, p :
        IF kind = "frozen" /\ res[u][p].at # None /\ res[u][p].at > freeze
        THEN HiddenCell(res[u][p].attempts)
        ELSE applyResultToCell(res[u][p]))

\* Mutant: a verdict that came after the freeze is shown.
submittedBefore(sub, freeze) == sub.at < freeze

visible(sub, freeze) == sub.at < freeze /\ sub.first <= freeze

\* One cell of the frozen board, from the terminal submissions of its user.
frozenCell(start, freeze, rows) ==
    LET open == {s \in DOMAIN rows : visible(rows[s], freeze)}
        shown == buildContestProblemProjection(start, Restrict(rows, open))
        hidden == Cardinality(DOMAIN rows \ open)
    IN  IF shown.status # "accepted" /\ hidden > 0 THEN HiddenCell(hidden)
        ELSE applyResultToCell(shown)

buildBoardFromSubmissions(start, freeze, rows) ==
    BoardOf(rows, LAMBDA u, p :
        frozenCell(start, freeze, ListContestProblemSubmissionsForProjection(subs, u, p)))

-----------------------------------------------------------------------------
(* GenerateDueScoreSnapshots: list what is due, then for each candidate    *)
(* read problems and registrations, then the submissions or the results,   *)
(* and write the snapshot.  The contest, its revision included, is the one *)
(* of the listing.                                                         *)

AtGen(g, pc) == gen[g].todo # <<>> /\ gen[g].pc = pc
GenTo(g, r) ==
    /\ gen' = [gen EXCEPT ![g] = r]
    /\ UNCHANGED <<contest, now, staff, reg, admitted, subs, batch, results, tx, unprojected>>

Snapshots(kind) == {i \in DOMAIN snapshots : snapshots[i].kind = kind}
FrozenDue == contest.freeze <= now /\ Snapshots("frozen") = {}
FinalDue ==
    /\ contest.end <= now
    /\ \A s \in DOMAIN subs : subs[s].status \in Terminal
    /\ batch = {}
    /\ \/ Snapshots("final") = {}
       \/ /\ \E u \in Users : Registered(u)
          /\ \A i \in Snapshots("final") : contest.revision > snapshots[i].revision
ListContestScoreSnapshotCandidates ==
    IF contest.status \notin {"published", "running", "ended"} THEN <<>>
    ELSE (IF FrozenDue THEN <<"frozen">> ELSE <<>>) \o (IF FinalDue THEN <<"final">> ELSE <<>>)

GenerateDueScoreSnapshots(g) ==
    /\ gen[g] = NoGen /\ Room /\ Len(snapshots) < MaxSnapshots
    /\ ListContestScoreSnapshotCandidates # <<>>
    /\ GenTo(g, [NoGen EXCEPT !.todo = ListContestScoreSnapshotCandidates, !.contest =
            [revision |-> contest.revision, start |-> contest.start, freeze |-> contest.freeze]])
    /\ UNCHANGED snapshots

\* buildScoreboard, in the order of its reads.
ReadRows(g) ==
    /\ AtGen(g, "rows")
    /\ GenTo(g, [gen[g] EXCEPT !.pc = IF Head(gen[g].todo) = "frozen" THEN "submissions" ELSE "results",
                               !.rows = [problems |-> ListContestProblems,
                                         users |-> {u \in Users : Registered(u)}]])
    /\ UNCHANGED snapshots

\* A frozen board without a terminal submission falls back on the results.
ReadSubmissions(g) ==
    LET c == gen[g].contest
    IN  /\ AtGen(g, "submissions")
        /\ IF \E s \in DOMAIN subs : subs[s].status \in Terminal
           THEN GenTo(g, [gen[g] EXCEPT !.pc = "create", !.rows = None, !.source = "submissions",
                    !.board = buildBoardFromSubmissions(c.start, c.freeze, gen[g].rows)])
           ELSE GenTo(g, [gen[g] EXCEPT !.pc = "results"])
        /\ UNCHANGED snapshots

\* Mutant: the revision is read once the board is built.
revisionAtInsert(g) == contest.revision

sourceRevision(g) == gen[g].contest.revision

ReadResults(g) ==
    /\ AtGen(g, "results")
    /\ GenTo(g, [gen[g] EXCEPT !.pc = "create", !.rows = None, !.source = "results",
            !.board = buildBoardFromResults(Head(gen[g].todo), gen[g].contest.freeze,
                                            gen[g].rows, results)])
    /\ UNCHANGED snapshots

GetContestScoreSnapshotByKey(kind, revision) ==
    {i \in Snapshots(kind) : snapshots[i].revision = revision}

\* ON CONFLICT (contest_id, kind, source_revision) DO NOTHING.
CreateContestScoreSnapshot(snapshot) ==
    IF GetContestScoreSnapshotByKey(snapshot.kind, snapshot.revision) # {} THEN snapshots
    ELSE Append(snapshots, snapshot)

CreateScoreSnapshot(g) ==
    LET kind == Head(gen[g].todo)
        rest == Tail(gen[g].todo)
    IN  /\ AtGen(g, "create")
        /\ snapshots' = CreateContestScoreSnapshot(
                [kind |-> kind, revision |-> sourceRevision(g), board |-> gen[g].board,
                 freeze |-> gen[g].contest.freeze, source |-> gen[g].source])
        /\ GenTo(g, IF rest = <<>> THEN NoGen
                    ELSE [NoGen EXCEPT !.todo = rest, !.contest = gen[g].contest])

-----------------------------------------------------------------------------
(* The live board, page by page, from the registrations' score columns.    *)

Ahead(s, t) == s.accepted > t.accepted \/ (s.accepted = t.accepted /\ s.penalty < t.penalty)
Before(u, v) == Ahead(reg[u], reg[v]) \/ (reg[u] = reg[v] /\ u < v)
NoCursor == [after |-> None, seen |-> 0, rank |-> 0]

\* ORDER BY: a member of S stands behind those that `order', a set of pairs, puts
\* before it.  LIMIT: the first n rows.
OrderBy(S, order) ==
    [i \in 1 .. Cardinality(S) |->
        CHOOSE x \in S : Cardinality({y \in S : <<y, x>> \in order}) = i - 1]
Limit(rows, n) == SubSeq(rows, 1, IF n < Len(rows) THEN n ELSE Len(rows))

BoardOrder == {pair \in (DOMAIN reg) \X (DOMAIN reg) : Before(pair[1], pair[2])}

ListScoreboardRegistrations(cursor, size) ==
    LET due == {u \in DOMAIN reg : cursor.after = None \/ <<cursor.after, u>> \in BoardOrder}
    IN  Limit(OrderBy(due, BoardOrder), size)

\* Mutant: the first row of a page opens a rank of its own.
rankFromRowsSeen(rows, cursor) ==
    LET rank[i \in DOMAIN rows] ==
            IF i > 1 /\ reg[rows[i]] = reg[rows[i - 1]] THEN rank[i - 1]
            ELSE cursor.seen + i
    IN  rank

applyPageRanks(rows, cursor) ==
    LET rank[i \in DOMAIN rows] ==
            IF i = 1 /\ cursor.after # None /\ reg[rows[1]] = reg[cursor.after] THEN cursor.rank
            ELSE IF i > 1 /\ reg[rows[i]] = reg[rows[i - 1]] THEN rank[i - 1]
            ELSE cursor.seen + i
    IN  rank

\* One row more than the page is read to learn whether there is a next page; on
\* the last page there is no cursor.
nextCursor(rows, ranks, cursor) ==
    [after |-> Last(rows), seen |-> cursor.seen + Len(rows), rank |-> Last(ranks)]
liveScoreboardPage(size, cursor) ==
    LET registrations == ListScoreboardRegistrations(cursor, size + 1)
        rows == Limit(registrations, size)
        ranks == applyPageRanks(rows, cursor)
    IN  [rows |-> rows, ranks |-> ranks,
         next |-> IF Len(registrations) > size THEN nextCursor(rows, ranks, cursor) ELSE None]

-----------------------------------------------------------------------------
(* Reading a board: which view a request gets, who may have it, and what it *)
(* shows.  None stands for a refused request and for a snapshot not ready.  *)

Views == {"live", "frozen", "final"}

canReadContestAs(u) ==
    \/ contest.visibility = "public"
    \/ "contest.manage_all" \in actorWithContestRoles(u)
    \/ u = contest.owner
    \/ "contest.read" \in actorWithContestRoles(u)
    \/ Registered(u)

defaultScoreboardView(requested) ==
    IF requested # None THEN requested
    ELSE IF contest.end <= now THEN "final"
    ELSE IF contest.freeze <= now THEN "frozen"
    ELSE "live"

canViewScoreboard(u, view) ==
    CASE view = "live" -> now < contest.freeze \/ canViewContestResults(u)
      [] view = "frozen" -> contest.freeze <= now
      [] view = "final" -> contest.end <= now

\* The rows of the live board take their cells from the results.
populateRowsWithResults ==
    [u \in {v \in Users : Registered(v)} |->
        [cells |-> [p \in ListContestProblems |-> applyResultToCell(results[u][p])],
         score |-> reg[u]]]

\* The newest snapshot of its kind.
GetLatestContestScoreSnapshot(kind) == snapshots[Max(Snapshots(kind))]

scoreSnapshotPage(view) ==
    IF Snapshots(view) = {} THEN None ELSE GetLatestContestScoreSnapshot(view).board

Scoreboard(u, requested) ==
    LET view == defaultScoreboardView(requested)
    IN  IF ~canReadContestAs(u) \/ ~canViewScoreboard(u, view) THEN None
        ELSE IF view = "live" THEN populateRowsWithResults
        ELSE scoreSnapshotPage(view)

-----------------------------------------------------------------------------
(* Reading submissions.  A response shows the row to whoever may read it,  *)
(* frozen or not: its status, judged_at, and with the status the time,     *)
(* memory and error message that were written together with it.  A view    *)
(* adds the result, and the cases and diagnostics of the attempt behind it. *)

canInspectSubmissions(u) == "judge.inspect" \in GlobalPermissions[u]
terminalStatus(sub) == sub.status \in Terminal
GetSubmissionResult(sub) == IF sub.row = None THEN None ELSE sub.row.status

submissionVisibleInFrozenWindow(sub) ==
    \/ now < contest.freeze
    \/ contest.end <= now
    \/ sub.at < contest.freeze /\ (sub.judged = None \/ sub.judged <= contest.freeze)

submissionResultVisibility(u, sub) ==
    LET shown == canViewContestResults(u) \/ submissionVisibleInFrozenWindow(sub)
    IN  [result |-> shown, cases |-> shown, diagnostics |-> canViewContestResults(u)]

\* The contest's decision; None refuses a reader who may not read the contest.
SubmissionResultVisibility(u, sub) ==
    IF canReadContestAs(u) THEN submissionResultVisibility(u, sub) ELSE None

\* An inspector may also have the diagnostics.
ForInspector(u, may) == [may EXCEPT !.diagnostics = @ \/ canInspectSubmissions(u)]
submissionVisibility(u, sub) ==
    LET policy == SubmissionResultVisibility(u, sub)
    IN  IF policy = None THEN None ELSE ForInspector(u, policy)

Hidden(sub) == [status |-> sub.status, judged |-> sub.judged,
                result |-> None, cases |-> FALSE, diagnostics |-> FALSE]

submissionView(u, sub) ==
    LET may == submissionVisibility(u, sub)
    IN  IF may = None THEN None
        ELSE IF ~may.result \/ ~terminalStatus(sub) \/ GetSubmissionResult(sub) = None
        THEN Hidden(sub)
        ELSE [Hidden(sub) EXCEPT !.result = GetSubmissionResult(sub), !.cases = may.cases,
                                 !.diagnostics = may.diagnostics]

GetSubmission(u, s) ==
    IF canInspectSubmissions(u) \/ u = subs[s].user THEN submissionView(u, subs[s]) ELSE None

\* A page asks the contest once for all its submissions, which refuses a reader who
\* may not read it, and reads their results in one query; it has no cases.
refusesPage(u, page) == page # {} /\ ~canReadContestAs(u)
SubmissionResultVisibilities(u, page) == [s \in page |-> submissionResultVisibility(u, subs[s])]
submissionListVisibilities(u, page) ==
    [s \in page |-> ForInspector(u, SubmissionResultVisibilities(u, page)[s])]
ListSubmissionSummaries(S) ==
    [s \in {x \in S : subs[x].row # None} |-> GetSubmissionResult(subs[s])]
submissionListViews(u, page) ==
    LET may == submissionListVisibilities(u, page)
        summaries == ListSubmissionSummaries({s \in page : may[s].result /\ terminalStatus(subs[s])})
    IN  [s \in page |-> IF s \in DOMAIN summaries
                        THEN [Hidden(subs[s]) EXCEPT !.result = summaries[s],
                                                     !.diagnostics = may[s].diagnostics]
                        ELSE Hidden(subs[s])]

\* Newest first; the ids are in the order of (submitted_at, id).
NoSubmissionCursor == Len(subs) + 1
NewestFirst == {pair \in (DOMAIN subs) \X (DOMAIN subs) : pair[1] > pair[2]}
SubmissionsBefore(cursor, limit, wanted) ==
    Limit(OrderBy({s \in wanted : s < cursor}, NewestFirst), limit)

buildListSubmissionsByCursorQuery(cursor, limit, owner) ==
    SubmissionsBefore(cursor, limit, {s \in DOMAIN subs : owner \in {None, subs[s].user}})
ListSubmissionsByUserBefore(cursor, limit, u) ==
    SubmissionsBefore(cursor, limit, {s \in DOMAIN subs : subs[s].user = u})

\* One row more than the page is read to learn whether there is a next page.
cursorPage(u, records, limit) ==
    LET items == Limit(records, limit)
    IN  IF refusesPage(u, ToSet(items)) THEN None
        ELSE [items |-> items, views |-> submissionListViews(u, ToSet(items)),
              next |-> IF Len(records) > limit THEN Last(items) ELSE None]

ListSubmissionsByCursor(u, cursor, limit) ==
    cursorPage(u, buildListSubmissionsByCursorQuery(cursor, limit + 1,
                      IF canInspectSubmissions(u) THEN None ELSE u), limit)
ListOwnSubmissionsByCursor(u, cursor, limit) ==
    cursorPage(u, ListSubmissionsByUserBefore(cursor, limit + 1, u), limit)

-----------------------------------------------------------------------------

Init ==
    /\ contest = [status |-> None, owner |-> None, problems |-> {}, revision |-> 0]
    /\ now = 0
    /\ staff = [u \in Users |-> {}]
    /\ reg = [u \in {} |-> None]
    /\ admitted = {} /\ subs = <<>> /\ batch = {}
    /\ results = [u \in Users |-> [p \in Problems |-> NoCell]]
    /\ tx = [w \in Workers |-> NoTx]
    /\ gen = [g \in Generators |-> NoGen]
    /\ snapshots = <<>> /\ unprojected = {}

\* The handlers: what a request may name.
HandleCreateContest(u) == \E in \in CreateInputs : CreateContest(u, in)
HandleUpdateContest(u) == \E in \in UpdateInputs : UpdateContest(u, in)
HandleDeleteContest(u) == DeleteContest(u)
HandleGrantRole(u) == \E in \in GrantInputs : GrantContestRole(u, in[1], in[2])
HandleRevokeRole(u) == \E in \in GrantInputs : RevokeContestRole(u, in[1], in[2])
HandleRegister(u) == \E code \in BOOLEAN : Register(u, code)
HandleCreateSubmission == \E in \in SubmitInputs : CreateSubmission(in[1], in[2])
HandleCreateRejudgeBatch(w) == \E u \in Users : CreateBatch(w, u)
HandleCancelRejudgeBatch(w) ==
    \E u \in Users, queued \in SUBSET batch : CancelBatch(w, u, queued)

Authoring(u) ==
    \/ HandleCreateContest(u) \/ HandleUpdateContest(u) \/ HandleDeleteContest(u)
    \/ HandleGrantRole(u) \/ HandleRevokeRole(u)

Contestant ==
    \/ \E u \in Registrants : HandleRegister(u)
    \/ \E in \in SubmitInputs : ValidateSubmission(in[1], in[2])
    \/ HandleCreateSubmission

Transaction(w) ==
    \/ \E s \in DOMAIN subs, v \in Verdicts, judged \in 0 .. MaxNow :
            completeSubmissionAttempt(w, s, v, judged)
    \/ \E s \in DOMAIN subs : markSubmissionSystemError(w, s) \/ RecoverDeadJudgeTask(w, s)
    \/ HandleCreateRejudgeBatch(w) \/ HandleCancelRejudgeBatch(w)
    \/ IncrementContestScoreRevision(w) \/ NextTarget(w) \/ Rollback(w)

Generator(g) ==
    \/ GenerateDueScoreSnapshots(g) \/ ReadRows(g) \/ ReadSubmissions(g)
    \/ ReadResults(g) \/ CreateScoreSnapshot(g)

Next ==
    \/ \E u \in Users : Authoring(u)
    \/ Contestant
    \/ \E w \in Workers : Transaction(w)
    \/ \E g \in Generators : Generator(g)
    \/ Tick

Spec == Init /\ [][Next]_vars

-----------------------------------------------------------------------------
(* Properties.                                                             *)

Cells == [status : {"none", "attempted", "accepted", "frozen"}, attempts : Nat,
          at : Nat \cup {None}, penalty : Nat]
Scores == [accepted : Nat, penalty : Nat]

\* Every row has its columns' types, and an open transaction never outlives its targets.
TypeOK ==
    /\ contest.status \in Statuses \cup {None} /\ contest.revision \in Nat
    /\ Created => validateContestInput(contest)
    /\ now \in 0 .. MaxNow
    /\ staff \in [Users -> SUBSET ContestRoles]
    /\ DOMAIN reg \subseteq Users /\ reg \in [DOMAIN reg -> Scores]
    /\ admitted \subseteq SubmitInputs
    /\ \A s \in DOMAIN subs :
           /\ <<subs[s].user, subs[s].problem>> \in SubmitInputs
           /\ subs[s].status \in Terminal \cup {"queued"}
           /\ subs[s].status \in Terminal =>
                  {subs[s].first, subs[s].judged} \subseteq subs[s].at .. now
    /\ batch \cup unprojected \subseteq DOMAIN subs
    /\ results \in [Users -> [Problems -> Cells]]
    /\ \A w \in Workers : tx[w].todo = {} => Idle(w)

\* The score a registration shows is the sum over its user's cells, whatever
\* transactions of that user and of others ran side by side.
ScoreIsSum == \A u \in Users : Registered(u) => reg[u] = ScoreOf(results[u])

\* A cell is what its user's judged submissions give, through verdicts, failures,
\* recoveries, rejudges and cancellations, unless a transaction that wrote one of
\* them found no projection to rebuild.
CellsAreRebuilt ==
    \A u \in Users, p \in Problems :
        (\A s \in unprojected : <<subs[s].user, subs[s].problem>> # <<u, p>>) =>
            results[u][p] = buildContestProblemProjection(contest.start,
                                ListContestProblemSubmissionsForProjection(subs, u, p))

\* A final snapshot that carries the contest's present revision shows the present
\* results: a verdict that lands while a board is being built makes the snapshot
\* count as stale and be generated again.
FinalSnapshotExact ==
    \A i \in Snapshots("final") : snapshots[i].revision = contest.revision =>
        LET board == snapshots[i].board
        IN  \A u \in DOMAIN board : \A p \in DOMAIN board[u].cells :
                board[u].cells[p] = applyResultToCell(results[u][p])

\* The acceptances that frozen snapshot i may show in the cell of v and p.
ShowsUntilFreeze(snapshot, v, p) ==
    LET cell == snapshot.board[v].cells[p]
    IN  cell.status = "accepted" =>
            /\ cell.at <= snapshot.freeze
            /\ snapshot.source = "submissions" =>
                   \E s \in DOMAIN subs :
                       /\ subs[s].user = v /\ subs[s].problem = p /\ subs[s].at = cell.at
                       /\ subs[s].at < snapshot.freeze
                       /\ subs[s].first # None /\ subs[s].first <= snapshot.freeze

InFreeze(u) == contest.freeze <= now /\ now < contest.end /\ ~canViewContestResults(u)

BoardsStayFrozen ==
    /\ \A i \in Snapshots("frozen") :
           \A v \in DOMAIN snapshots[i].board : \A p \in DOMAIN snapshots[i].board[v].cells :
               ShowsUntilFreeze(snapshots[i], v, p)
    /\ \A u \in Users, requested \in Views \cup {None} : InFreeze(u) =>
           Scoreboard(u, requested) \in {None} \cup {snapshots[i].board : i \in Snapshots("frozen")}

SubmissionsStayFrozen ==
    \A u \in Users, s \in DOMAIN subs :
        /\ InFreeze(u)
        /\ contest.freeze <= subs[s].at \/ (subs[s].judged # None /\ contest.freeze < subs[s].judged)
        => /\ GetSubmission(u, s) \in {None, Hidden(subs[s])}
           /\ LET page == ListSubmissionsByCursor(u, NoSubmissionCursor, Len(subs))
              IN  page # None /\ s \in DOMAIN page.views => page.views[s] = Hidden(subs[s])

\* From the freeze to the end, a reader without the contest's staff rights gets no
\* board but a frozen snapshot, asked for by name or by default; and of a submission
\* made at or after the freeze, or judged after it, neither its page nor a listing
\* shows the result, the cases or the diagnostics (the status, times, memory and error
\* of the row are shown all the time).  A frozen snapshot shows nobody, at any time,
\* an acceptance after the freeze it was built with; built from the submissions, it
\* shows none made at the freeze either, and none first judged after it, whatever
\* rejudges did since.  Built from the results it may show both: the two sources do
\* not draw the same line.
FrozenStopsAtFreeze == Created => BoardsStayFrozen /\ SubmissionsStayFrozen

\* What a reader who asks for one page of the board after another has seen after n.
BoardWalk(size) ==
    LET walk[n \in 0 .. Cardinality(DOMAIN reg) + 1] ==
            IF n = 0 THEN [next |-> NoCursor, rows |-> <<>>, ranks |-> <<>>]
            ELSE LET sofar == walk[n - 1]
                     page == liveScoreboardPage(size, sofar.next)
                 IN  IF sofar.next = None THEN sofar
                     ELSE [next |-> page.next, rows |-> sofar.rows \o page.rows,
                           ranks |-> sofar.ranks \o page.ranks]
    IN  walk

BoardPagesRank ==
    LET N == Cardinality(DOMAIN reg)
    IN  \A size \in 1 .. N + 1 :
            LET end == BoardWalk(size)[N + 1]
            IN  /\ end.next = None
                /\ ToSet(end.rows) = DOMAIN reg
                /\ \A i, j \in DOMAIN end.rows : i < j => Before(end.rows[i], end.rows[j])
                /\ \A i \in DOMAIN end.rows : end.ranks[i] =
                        1 + Cardinality({u \in DOMAIN reg : Ahead(reg[u], reg[end.rows[i]])})

\* The same for the listing of one's own submissions and for the general one.
SubmissionPage(own, u, cursor, limit) ==
    IF own THEN ListOwnSubmissionsByCursor(u, cursor, limit)
    ELSE ListSubmissionsByCursor(u, cursor, limit)
SubmissionWalk(own, u, limit) ==
    LET walk[n \in 0 .. Len(subs) + 1] ==
            IF n = 0 THEN [next |-> NoSubmissionCursor, items |-> <<>>]
            ELSE LET sofar == walk[n - 1]
                     page == SubmissionPage(own, u, sofar.next, limit)
                 IN  IF sofar.next = None THEN sofar
                     ELSE [next |-> page.next, items |-> sofar.items \o page.items]
    IN  walk

SubmissionPagesComplete(own, u, limit) ==
    LET end == SubmissionWalk(own, u, limit)[Len(subs) + 1]
    IN  /\ end.next = None
        /\ ToSet(end.items) =
               {s \in DOMAIN subs : subs[s].user = u \/ (~own /\ canInspectSubmissions(u))}
        /\ \A i, j \in DOMAIN end.items : i < j => end.items[i] > end.items[j]

\* Walking the live board with any page size meets every registered user once, in
\* order, at the rank the whole board would give: one more than the number ahead.
\* Walking either listing of submissions meets every submission the reader may
\* list once, the newest first.  Both end on a page that gives no next cursor.
PagesRankAsBoard ==
    /\ BoardPagesRank
    /\ Created => \A u \in Users, own \in BOOLEAN, limit \in 1 .. Len(subs) + 1 :
                      canReadContestAs(u) => SubmissionPagesComplete(own, u, limit)
=============================================================================
