-------------------------- MODULE ProblemWorkflow --------------------------
(***************************************************************************)
(* Problems: authoring, testcase archives, checks, review and publication. *)
(* A request checks its actor against a row it reads first, may read more, *)
(* and then runs one transaction that locks the problem row.  What it read *)
(* before that lock may be stale by then, and an archive lives in object   *)
(* storage, outside every transaction.                                     *)
(*                                                                         *)
(* Left out: titles, slugs, tags, limits, statement texts, the wording of  *)
(* findings, the statistics cache, and requests that are refused or only   *)
(* read.                                                                   *)
(***************************************************************************)
EXTENDS TestcaseArchive

CONSTANTS
    Problems,
    Users,
    Permissions,        \* Permissions[u]: what user u is allowed (Accounts says how)
    Requests,           \* HTTP requests that may be in progress at once
    VisibilityInputs,   \* bound: the visibilities an update asks for
    MaxStatements,      \* bound: statement versions of a problem
    Uploads,            \* bound: the archives clients upload, a sequence
    MaxUploads,         \* bound: archive keys drawn for a problem
    MaxChecks,          \* bound: completed checks of a problem
    MaxFaults           \* bound: failed transactions, storage errors, crashes

Statuses == {"draft", "in_review", "changes_requested", "published", "archived"}
Visibilities == {"private", "public", "contest_only"}
Decisions == {"approve", "request_changes"}

ASSUME WorkflowAssumption ==
    /\ Permissions \in [Users -> SUBSET STRING]
    /\ None \notin Statuses \cup Users \cup Requests
    /\ None \notin [actor : Users, from : Statuses, to : Statuses]
    /\ VisibilityInputs \subseteq Visibilities
    /\ \A i \in DOMAIN Uploads : IsArchive(Uploads[i])
    /\ {MaxStatements, MaxUploads, MaxChecks, MaxFaults} \subseteq Nat

VARIABLES
    problem,     \* problem[p]: the row; status None before it is created
    statements,  \* statements[p]: versions in order, TRUE for the current one
    sets,        \* sets[p]: testcase set versions [key, checksum, cases, current]
    checks,      \* checks[p]: completed check runs [statement, set, valid]
    review,      \* review[p]: the last row of problem_review_events, or None
    objects,     \* object storage: [key, archive], the archive by its place in Uploads
    keys,        \* keys[p]: random keys drawn for p
    lock,        \* lock[p]: the request whose transaction holds the row, or None
    req,         \* req[q]: where request q is and what it has read
    unknown,     \* keys whose commit failed although the database had committed
    faults

vars == <<problem, statements, sets, checks, review, objects, keys, lock, req,
          unknown, faults>>

-----------------------------------------------------------------------------
(* Rows, and what a request carries.                                       *)

ProblemRow(s, o, v, a) == [status |-> s, owner |-> o, visibility |-> v, archivedFrom |-> a]
Absent == ProblemRow(None, None, "private", None)

Idle == [pc |-> "idle", actor |-> None, problem |-> None, seen |-> None, to |-> None,
         statement |-> 0, set |-> 0, valid |-> FALSE, key |-> None, archive |-> 0]
At(pc, p) == [Idle EXCEPT !.pc = pc, !.problem = p]
\* The request keeps the status it saw, and who acts when the trail will name them.
Seen(r) == [r EXCEPT !.seen = problem[r.problem].status]
By(r, a) == [r EXCEPT !.actor = a]

Goto(q, r) == req' = [req EXCEPT ![q] = r]
Finish(q) == Goto(q, Idle)
Fault == faults < MaxFaults /\ faults' = faults + 1

hasProblemPermission(a, perm) == perm \in Permissions[a]
CanCreate(a) == hasProblemPermission(a, "problem.create")
CanEdit(a, p) ==
    \/ hasProblemPermission(a, "problem.manage_all")
    \/ a = problem[p].owner /\ hasProblemPermission(a, "problem.edit_own")
CanSubmitReview(a, p) ==
    \/ hasProblemPermission(a, "problem.manage_all")
    \/ a = problem[p].owner /\ hasProblemPermission(a, "problem.submit_review")

\* Mutant: the two permissions are enough, the owner is not asked for.
CanDecideOwn(a, p) ==
    \/ hasProblemPermission(a, "problem.manage_all")
    \/ hasProblemPermission(a, "problem.review") /\ hasProblemPermission(a, "problem.publish")

CanDecideReview(a, p) ==
    \/ hasProblemPermission(a, "problem.manage_all")
    \/ /\ a # problem[p].owner
       /\ hasProblemPermission(a, "problem.review")
       /\ hasProblemPermission(a, "problem.publish")
CanRestore(a) == hasProblemPermission(a, "problem.manage_all")

\* Mutant: the row is read without FOR UPDATE.
ReadProblem(q, p) == lock' = [lock EXCEPT ![p] = q]

\* SELECT ... FOR UPDATE OF p waits for the transaction that holds the row.
LockProblemForUpdate(q, p) == lock[p] = None /\ lock' = [lock EXCEPT ![p] = q]

Released(q) == [p \in Problems |-> IF lock[p] = q THEN None ELSE lock[p]]
Locked(p) == lock[p] # None
GetProblem(p) == problem[p].status # None

-----------------------------------------------------------------------------
(* The row.  A transaction of one lock and its writes is one step that     *)
(* needs the row unlocked.                                                 *)

\* The repository writes the status draft, whatever the request asks for.
InsertProblem(a, v) == ProblemRow("draft", a, v, None)

\* A request without a visibility asks for a private problem.
applyProblemDefaults == VisibilityInputs \cup {"private"}

CreateProblem(a, p) ==
    /\ problem[p] = Absent
    /\ CanCreate(a)
    /\ \E v \in applyProblemDefaults : problem' = [problem EXCEPT ![p] = InsertProblem(a, v)]
    /\ UNCHANGED <<statements, sets, checks, review, objects, keys, lock, req, unknown, faults>>

SetProblemStatus(p, to) == problem' = [problem EXCEPT ![p].status = to]

\* A request that names a status is refused; nothing else here touches it.
UpdateProblem(a, p, v) ==
    /\ GetProblem(p) /\ ~Locked(p) /\ CanEdit(a, p)
    /\ problem' = [problem EXCEPT ![p].visibility = v]
    /\ UNCHANGED <<statements, sets, checks, review, objects, keys, lock, req, unknown, faults>>

ArchiveRow(row) ==
    [row EXCEPT !.archivedFrom = IF row.status = "archived" THEN @ ELSE row.status,
                !.status = "archived"]

ArchiveProblem(a, p) ==
    /\ GetProblem(p) /\ ~Locked(p) /\ CanEdit(a, p)
    /\ problem' = [problem EXCEPT ![p] = ArchiveRow(@)]
    /\ UNCHANGED <<statements, sets, checks, review, objects, keys, lock, req, unknown, faults>>

RestoreRow(row) ==
    [row EXCEPT !.status = IF row.archivedFrom = None THEN "draft" ELSE row.archivedFrom,
                !.archivedFrom = None]

RestoreProblem(a, p) ==
    /\ CanRestore(a)
    /\ ~Locked(p) /\ problem[p].status = "archived"
    /\ problem' = [problem EXCEPT ![p] = RestoreRow(@)]
    /\ UNCHANGED <<statements, sets, checks, review, objects, keys, lock, req, unknown, faults>>

-----------------------------------------------------------------------------
(* New versions.  The row is locked and read, then the version is written  *)
(* and a problem that was published when it was locked becomes a draft.    *)

ClearCurrentProblemStatement(p) == [i \in DOMAIN statements[p] |-> FALSE]

\* Mutant: the old version stays current.
keepCurrentSet(p) == sets[p]

ClearCurrentTestcaseSet(p) == [i \in DOMAIN sets[p] |-> [sets[p][i] EXCEPT !.current = FALSE]]

demotePublishedProblem(p, seen) ==
    IF seen = "published" THEN SetProblemStatus(p, "draft") ELSE UNCHANGED problem

\* The next version, which becomes the current one.
InsertProblemStatement(p) == Append(ClearCurrentProblemStatement(p), TRUE)

CreateStatement(q, a, p) ==
    /\ req[q] = Idle
    /\ GetProblem(p) /\ CanEdit(a, p)
    /\ Len(statements[p]) < MaxStatements
    /\ LockProblemForUpdate(q, p)
    /\ Goto(q, Seen(At("statement", p)))
    /\ UNCHANGED <<problem, statements, sets, checks, review, objects, keys, unknown, faults>>

CreateProblemStatement(q) ==
    /\ req[q].pc = "statement"
    /\ LET p == req[q].problem IN
       /\ statements' = [statements EXCEPT ![p] = InsertProblemStatement(p)]
       /\ demotePublishedProblem(p, req[q].seen)
    /\ lock' = Released(q)
    /\ Finish(q)
    /\ UNCHANGED <<sets, checks, review, objects, keys, unknown, faults>>

\* Mutant: the key names the version the set is going to have.
versionKey(p) == <<p, Len(sets[p]) + 1>>

\* Eight random bytes: a key nobody else has.
testcaseArchiveKey(p) == <<p, keys[p] + 1>>

\* What the parser makes of the uploads, alone and against a row's digest.
Manifests == [z \in DOMAIN Uploads |-> ValidateArchive(Uploads[z])]
Verified == [z \in DOMAIN Uploads |->
                [sum \in {Uploads[x].sum : x \in DOMAIN Uploads} |-> VerifyArchive(Uploads[z], sum)]]

\* An archive with an error finding is refused; the actor is checked before
\* anything is stored.
UploadTestcaseArchive(q, a, p, z) ==
    /\ req[q] = Idle
    /\ ~HasErrorFindings(Manifests[z].codes)
    /\ GetProblem(p) /\ CanEdit(a, p)
    /\ keys[p] < MaxUploads
    /\ keys' = [keys EXCEPT ![p] = @ + 1]
    /\ Goto(q, [At("put", p) EXCEPT !.key = testcaseArchiveKey(p), !.archive = z])
    /\ UNCHANGED <<problem, statements, sets, checks, review, objects, lock, unknown, faults>>

\* Object storage without the object of a key.
Without(key) == {o \in objects : o.key # key}

\* archives.Put replaces what the key held.
PutArchive(q) ==
    /\ req[q].pc = "put"
    /\ \/ /\ objects' = Without(req[q].key) \cup {[key |-> req[q].key, archive |-> req[q].archive]}
          /\ Goto(q, [req[q] EXCEPT !.pc = "stored"])
          /\ UNCHANGED faults
       \/ Fault /\ Finish(q) /\ UNCHANGED objects
    /\ UNCHANGED <<problem, statements, sets, checks, review, keys, lock, unknown>>

LockForTestcaseSet(q) ==
    /\ req[q].pc = "stored"
    /\ LockProblemForUpdate(q, req[q].problem)
    /\ Goto(q, Seen([req[q] EXCEPT !.pc = "set"]))
    /\ UNCHANGED <<problem, statements, sets, checks, review, objects, keys, unknown, faults>>

\* The next version, with the digest of the stored bytes and the parser's count.
InsertTestcaseSet(p, key, z) ==
    Append(ClearCurrentTestcaseSet(p),
           [key |-> key, checksum |-> Uploads[z].sum, cases |-> Len(Manifests[z].cases),
            current |-> TRUE])

\* Owner and permissions are still those the request was checked against.
WriteTestcaseSet(q) ==
    LET p == req[q].problem IN
    /\ sets' = [sets EXCEPT ![p] = InsertTestcaseSet(p, req[q].key, req[q].archive)]
    /\ demotePublishedProblem(p, req[q].seen)

\* The commit's answer may be lost: the handler then takes the transaction as failed.
CreateTestcaseSet(q) ==
    /\ req[q].pc = "set"
    /\ WriteTestcaseSet(q)
    /\ lock' = Released(q)
    /\ \/ Finish(q) /\ UNCHANGED <<unknown, faults>>
       \/ Fault /\ unknown' = unknown \cup {req[q].key}
          /\ Goto(q, [req[q] EXCEPT !.pc = "cleanup"])
    /\ UNCHANGED <<statements, checks, review, objects, keys>>

\* A statement of the transaction fails and it is rolled back.
RollBack(q) ==
    /\ req[q].pc \in {"statement", "set"}
    /\ Fault
    /\ lock' = Released(q)
    /\ IF req[q].pc = "set" THEN Goto(q, [req[q] EXCEPT !.pc = "cleanup"]) ELSE Finish(q)
    /\ UNCHANGED <<problem, statements, sets, checks, review, objects, keys, unknown>>

\* archives.Delete, whose error is ignored.
DeleteArchive(q) ==
    /\ req[q].pc = "cleanup"
    /\ Finish(q)
    /\ \/ objects' = Without(req[q].key) /\ UNCHANGED faults
       \/ Fault /\ UNCHANGED objects
    /\ UNCHANGED <<problem, statements, sets, checks, review, keys, lock, unknown>>

\* The process dies; the database rolls the transaction back.
Crash(q) ==
    /\ req[q] # Idle
    /\ Fault
    /\ lock' = Released(q)
    /\ Finish(q)
    /\ UNCHANGED <<problem, statements, sets, checks, review, objects, keys, unknown>>

-----------------------------------------------------------------------------
(* Checks and readiness.                                                   *)

\* The version number of the current row, 0 when there is none.
GetCurrentProblemStatement(p) == SelectInSeq(statements[p], LAMBDA current : current)
GetCurrentTestcaseSet(p) == SelectInSeq(sets[p], LAMBDA s : s.current)

RunProblemCheck(q, a, p) ==
    /\ req[q] = Idle
    /\ GetProblem(p) /\ CanEdit(a, p)
    /\ GetCurrentProblemStatement(p) # 0
    /\ Goto(q, [At("check_set", p) EXCEPT !.statement = GetCurrentProblemStatement(p)])
    /\ UNCHANGED <<problem, statements, sets, checks, review, objects, keys, lock, unknown, faults>>

CheckTestcaseSet(q) ==
    /\ req[q].pc = "check_set"
    /\ LET t == GetCurrentTestcaseSet(req[q].problem) IN
       IF t = 0 THEN Finish(q)
       ELSE Goto(q, [req[q] EXCEPT !.pc = "check_archive", !.set = t])
    /\ UNCHANGED <<problem, statements, sets, checks, review, objects, keys, lock, unknown, faults>>

\* VerifyArchive against the row, and the count of the cases when it could be read.
archiveFindings(row, z) ==
    LET r == Verified[z][row.checksum]
    IN  r.codes \cup (IF ~archiveUnreadable(r.codes) /\ Len(r.cases) # row.cases
                      THEN {"case_count_mismatch"} ELSE {})

\* The findings for a set: those of its object, or that there is none.
checkFindings(row) ==
    IF \E o \in objects : o.key = row.key
    THEN UNION {archiveFindings(row, o.archive) : o \in {x \in objects : x.key = row.key}}
    ELSE {"storage_unreadable"}

\* The summary is valid when no finding is an error.
problemCheckSummary(codes) == ~HasErrorFindings(codes)

\* An error from storage is an error finding too.
CheckArchive(q) ==
    LET row == sets[req[q].problem][req[q].set]
        Saved(codes) == Goto(q, [req[q] EXCEPT !.pc = "check_save",
                                               !.valid = problemCheckSummary(codes)])
    IN  /\ req[q].pc = "check_archive"
        /\ \/ Saved(checkFindings(row)) /\ UNCHANGED faults
           \/ Fault /\ Saved({"storage_unreadable"})
        /\ UNCHANGED <<problem, statements, sets, checks, review, objects, keys, lock, unknown>>

\* A running check with an empty summary, and the check once it is completed.
InsertCheckRun(s, t) == [statement |-> s, set |-> t, valid |-> FALSE]
CompletedCheckRun(run, valid) == [run EXCEPT !.valid = valid]

\* Both in one transaction, with no lock on the problem: nobody sees the first.
CompleteProblemCheckRun(q) ==
    /\ req[q].pc = "check_save"
    /\ Len(checks[req[q].problem]) < MaxChecks
    /\ checks' = [checks EXCEPT ![req[q].problem] =
                    Append(@, CompletedCheckRun(InsertCheckRun(req[q].statement, req[q].set),
                                                req[q].valid))]
    /\ Finish(q)
    /\ UNCHANGED <<problem, statements, sets, review, objects, keys, lock, unknown, faults>>

\* The number of the latest completed run of statement s with set t, 0 when there is none.
GetLatestCompletedProblemCheckRun(p, s, t) ==
    SelectLastInSeq(checks[p], LAMBDA c : c.statement = s /\ c.set = t)

CheckValid(p, c) == c # 0 /\ checks[p][c].valid

\* Mutant: a completed check is enough.
completedIsEnough(p, s, t) ==
    (IF s = 0 THEN <<"statement">> ELSE <<>>)
    \o (IF t = 0 THEN <<"testcase">> ELSE <<>>)
    \o (IF s # 0 /\ t # 0 /\ GetLatestCompletedProblemCheckRun(p, s, t) = 0
        THEN <<"check">> ELSE <<>>)

\* The steps that stand in the way of publishing, in the order they are reported.
loadProblemAuthoringReadiness(p, s, t) ==
    (IF s = 0 THEN <<"statement">> ELSE <<>>)
    \o (IF t = 0 THEN <<"testcase">> ELSE <<>>)
    \o (IF s # 0 /\ t # 0 /\ ~CheckValid(p, GetLatestCompletedProblemCheckRun(p, s, t))
        THEN <<"check">> ELSE <<>>)

\* A step of the stepper that is still to do.
stepStatus(key, done) == IF done THEN <<>> ELSE <<key>>

\* The stepper of the authoring console: the steps still to do, in their order.
buildProblemAuthoringFlow(p) ==
    LET s == GetCurrentProblemStatement(p)
        t == GetCurrentTestcaseSet(p)
        checkDone == /\ s # 0 /\ t # 0
                     /\ CheckValid(p, GetLatestCompletedProblemCheckRun(p, s, t))
    IN  stepStatus("statement", s # 0)
        \o stepStatus("testcase", t # 0)
        \o stepStatus("check", checkDone)
        \o stepStatus("review", problem[p].status \in {"in_review", "published"})

-----------------------------------------------------------------------------
(* Review.                                                                 *)

Transition(r, to) == [r EXCEPT !.pc = "transition", !.to = to]

Submit(q, a, p) ==
    /\ req[q] = Idle
    /\ GetProblem(p) /\ CanSubmitReview(a, p)
    /\ problem[p].status \in {"draft", "changes_requested"}
    /\ Goto(q, Transition(By(Seen(At("transition", p)), a), "in_review"))
    /\ UNCHANGED <<problem, statements, sets, checks, review, objects, keys, lock, unknown, faults>>

Decide(q, a, p, decision) ==
    /\ req[q] = Idle
    /\ GetProblem(p) /\ CanDecideReview(a, p)
    /\ problem[p].status = "in_review"
    /\ IF decision = "approve" THEN Goto(q, By(Seen(At("ready_statement", p)), a))
       ELSE Goto(q, Transition(By(Seen(At("transition", p)), a), "changes_requested"))
    /\ UNCHANGED <<problem, statements, sets, checks, review, objects, keys, lock, unknown, faults>>

\* ensurePublishable: three reads, none of them in the transaction that publishes.
ReadyStatement(q) ==
    /\ req[q].pc = "ready_statement"
    /\ Goto(q, [req[q] EXCEPT !.pc = "ready_set",
                              !.statement = GetCurrentProblemStatement(req[q].problem)])
    /\ UNCHANGED <<problem, statements, sets, checks, review, objects, keys, lock, unknown, faults>>

ReadyTestcaseSet(q) ==
    /\ req[q].pc = "ready_set"
    /\ Goto(q, [req[q] EXCEPT !.pc = "ready_check",
                              !.set = GetCurrentTestcaseSet(req[q].problem)])
    /\ UNCHANGED <<problem, statements, sets, checks, review, objects, keys, lock, unknown, faults>>

ensurePublishable(q) ==
    /\ req[q].pc = "ready_check"
    /\ IF loadProblemAuthoringReadiness(req[q].problem, req[q].statement, req[q].set) = <<>>
       THEN Goto(q, Transition(req[q], "published"))
       ELSE Finish(q)
    /\ UNCHANGED <<problem, statements, sets, checks, review, objects, keys, lock, unknown, faults>>

CreateProblemReviewEvent(p, a, to) ==
    review' = [review EXCEPT ![p] = [actor |-> a, from |-> problem[p].status, to |-> to]]

\* Lock, compare the status with the one read first, write; or a conflict.
transition(q) ==
    LET p == req[q].problem IN
    /\ req[q].pc = "transition"
    /\ ~Locked(p)
    /\ IF problem[p].status = req[q].seen
       THEN /\ SetProblemStatus(p, req[q].to)
            /\ CreateProblemReviewEvent(p, req[q].actor, req[q].to)
       ELSE UNCHANGED <<problem, review>>
    /\ Finish(q)
    /\ UNCHANGED <<statements, sets, checks, objects, keys, lock, unknown, faults>>

-----------------------------------------------------------------------------
(* The handlers, with the inputs a client may send.                        *)

HandleCreateProblem == \E a \in Users, p \in Problems : CreateProblem(a, p)
HandleUpdateProblem == \E a \in Users, p \in Problems, v \in VisibilityInputs : UpdateProblem(a, p, v)
HandleArchiveProblem == \E a \in Users, p \in Problems : ArchiveProblem(a, p)
HandleRestoreProblem == \E a \in Users, p \in Problems : RestoreProblem(a, p)
HandleCreateStatement(q) == \E a \in Users, p \in Problems : CreateStatement(q, a, p)
HandleUploadTestcases(q) ==
    \E a \in Users, p \in Problems, z \in DOMAIN Uploads : UploadTestcaseArchive(q, a, p, z)
HandleRunProblemCheck(q) == \E a \in Users, p \in Problems : RunProblemCheck(q, a, p)
HandleSubmitReview(q) == \E a \in Users, p \in Problems : Submit(q, a, p)
HandleDecideReview(q) == \E a \in Users, p \in Problems, d \in Decisions : Decide(q, a, p, d)

Init ==
    /\ problem = [p \in Problems |-> Absent]
    /\ statements = [p \in Problems |-> <<>>]
    /\ sets = [p \in Problems |-> <<>>]
    /\ checks = [p \in Problems |-> <<>>]
    /\ review = [p \in Problems |-> None]
    /\ objects = {}
    /\ keys = [p \in Problems |-> 0]
    /\ lock = [p \in Problems |-> None]
    /\ req = [q \in Requests |-> Idle]
    /\ unknown = {}
    /\ faults = 0

Next ==
    \/ HandleCreateProblem \/ HandleUpdateProblem
    \/ HandleArchiveProblem \/ HandleRestoreProblem
    \/ \E q \in Requests :
         \/ HandleCreateStatement(q) \/ CreateProblemStatement(q)
         \/ HandleUploadTestcases(q) \/ PutArchive(q) \/ LockForTestcaseSet(q)
         \/ CreateTestcaseSet(q) \/ RollBack(q) \/ DeleteArchive(q) \/ Crash(q)
         \/ HandleRunProblemCheck(q) \/ CheckTestcaseSet(q) \/ CheckArchive(q)
         \/ CompleteProblemCheckRun(q)
         \/ HandleSubmitReview(q) \/ HandleDecideReview(q)
         \/ ReadyStatement(q) \/ ReadyTestcaseSet(q) \/ ensurePublishable(q)
         \/ transition(q)

Spec == Init /\ [][Next]_vars

-----------------------------------------------------------------------------
(* Properties.                                                             *)

Keys == Problems \X (1..MaxUploads)

\* Every row, trail entry and request has a value of its type; at most one
\* version is current, as the partial unique indexes of the schema demand.
TypeOK ==
    /\ \A p \in Problems :
         /\ problem[p].status \in Statuses \cup {None}
         /\ problem[p].owner \in Users \cup {None}
         /\ problem[p].visibility \in Visibilities
         /\ problem[p].archivedFrom \in (Statuses \ {"archived"}) \cup {None}
         /\ problem[p].archivedFrom # None => problem[p].status = "archived"
         /\ \A i, j \in DOMAIN statements[p] : statements[p][i] /\ statements[p][j] => i = j
         /\ \A i, j \in DOMAIN sets[p] : sets[p][i].current /\ sets[p][j].current => i = j
         /\ \A i \in DOMAIN checks[p] : checks[p][i].statement \in DOMAIN statements[p]
                                     /\ checks[p][i].set \in DOMAIN sets[p]
         /\ lock[p] \in Requests \cup {None}
    /\ objects \subseteq [key : Keys, archive : DOMAIN Uploads] /\ unknown \subseteq Keys
    /\ faults \in 0..MaxFaults

\* The status a problem has, or has again once it is restored.
Standing(p) == IF problem[p].status = "archived" THEN problem[p].archivedFrom
               ELSE problem[p].status

\* CreateStatement and UploadTestcaseArchive: a new version of a published
\* problem takes it off publication in the same step, whatever reviews,
\* archivals and other edits run beside it.
PublishedContentFrozen ==
    [][\A p \in Problems :
         problem[p].status = "published"
           /\ <<statements[p], sets[p]>>' # <<statements[p], sets[p]>>
         => problem'[p].status = "draft"]_vars

\* Decide: a problem is published, or waits in the archive to be published
\* again, only after an approval by somebody who is not its owner or who
\* manages all problems, and with a statement, a testcase set and a check
\* that once was valid.
PublishedWasReviewed ==
    \A p \in Problems :
      Standing(p) = "published" =>
        /\ review[p] # None /\ review[p].to = "published" /\ review[p].from = "in_review"
        /\ \/ review[p].actor # problem[p].owner
           \/ hasProblemPermission(review[p].actor, "problem.manage_all")
        /\ GetCurrentProblemStatement(p) # 0 /\ GetCurrentTestcaseSet(p) # 0
        /\ \E i \in DOMAIN checks[p] : checks[p][i].valid

\* UploadTestcaseArchive: the archive of every recorded set is in storage and a
\* check of it against the row (digest, pairs, number of cases) finds no error,
\* whichever uploads ran beside it or failed, unless the commit that recorded the
\* set was answered with an error.
SetsHaveArchives ==
    \A p \in Problems : \A i \in DOMAIN sets[p] :
        sets[p][i].key \in unknown \/ ~HasErrorFindings(checkFindings(sets[p][i]))

WellPairedUploads == {z \in DOMAIN Uploads : WellPaired(Uploads[z])}

\* UploadTestcaseArchive, parseArchive: storage holds no archive but those in
\* which every member that counts is half of one pair within the budgets, and the
\* parser takes exactly those, on every archive it is checked on (ParsedExactly).
ParserPairsExactly ==
    /\ Misparsed = {}
    /\ \A o \in objects : o.archive \in WellPairedUploads

\* GetProblemAuthoringState: the console sends the author to the very step
\* an approval would be refused for, and to the review when there is none.
ConsoleNamesFirstBlocker ==
    \A p \in Problems :
      LET blockers == loadProblemAuthoringReadiness(p, GetCurrentProblemStatement(p),
                                                    GetCurrentTestcaseSet(p))
          flow == buildProblemAuthoringFlow(p)
      IN  IF blockers = <<>> THEN flow \in {<<>>, <<"review">>}
          ELSE Head(flow) = Head(blockers)

\* docs/v2-api-guide.md: a published problem's current statement and current
\* testcase set have a completed check whose summary is valid.
PublishedIsChecked ==
    \A p \in Problems :
      problem[p].status = "published" =>
        \E i \in DOMAIN checks[p] :
          /\ checks[p][i].statement = GetCurrentProblemStatement(p)
          /\ checks[p][i].set = GetCurrentTestcaseSet(p)
          /\ checks[p][i].valid
=============================================================================
