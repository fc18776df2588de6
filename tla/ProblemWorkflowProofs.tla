----------------------- MODULE ProblemWorkflowProofs -----------------------
(***************************************************************************)
(* Machine-checked theorems about ProblemWorkflow, for any problems,       *)
(* users, permissions, uploads and number of requests in progress: the     *)
(* types of the tables, who published what, that a published problem's     *)
(* content is frozen, that a recorded testcase set is in storage and is    *)
(* the exact reading of its archive, and that the console names the check  *)
(* publication would fail first.                                           *)
(*                                                                         *)
(* A request reads in one step and writes in another.  The invariants say, *)
(* for each place of a request, what its reads established that no other   *)
(* request can undo (TypeInv, ReviewInv, ArchiveInv).                      *)
(***************************************************************************)
EXTENDS ProblemWorkflow, SequenceTheorems, FiniteSetTheorems, WellFoundedInduction, TLAPS

Uploading == {"put", "stored", "set", "cleanup"}
Checking == {"check_set", "check_archive", "check_save"}
Approving == {"ready_statement", "ready_set", "ready_check"}
Places == {"idle", "statement", "transition"} \cup Uploading \cup Checking \cup Approving

Row == [status : Statuses \cup {None}, owner : Users \cup {None}, visibility : Visibilities,
        archivedFrom : (Statuses \ {"archived"}) \cup {None}]
SetRow == [key : Keys, checksum : {Uploads[z].sum : z \in DOMAIN Uploads},
           cases : {Len(Manifests[z].cases) : z \in DOMAIN Uploads}, current : BOOLEAN]
CheckRow == [statement : Nat, set : Nat, valid : BOOLEAN]
Request == [pc : Places, actor : Users \cup {None}, problem : Problems \cup {None},
            seen : Statuses \cup {None}, to : Statuses \cup {None}, statement : Nat, set : Nat,
            valid : BOOLEAN, key : Keys \cup {None}, archive : DOMAIN Uploads \cup {0}]

-----------------------------------------------------------------------------
(* The tables and the requests.                                            *)

RowsTyped ==
    /\ problem \in [Problems -> Row]
    /\ \A p \in Problems : problem[p].archivedFrom # None => problem[p].status = "archived"

StatementsTyped ==
    /\ statements \in [Problems -> Seq(BOOLEAN)]
    /\ \A p \in Problems : \A i, j \in DOMAIN statements[p] :
          statements[p][i] /\ statements[p][j] => i = j

SetsTyped ==
    /\ sets \in [Problems -> Seq(SetRow)]
    /\ \A p \in Problems : \A i, j \in DOMAIN sets[p] :
          sets[p][i].current /\ sets[p][j].current => i = j

ChecksTyped ==
    /\ checks \in [Problems -> Seq(CheckRow)]
    /\ \A p \in Problems : \A i \in DOMAIN checks[p] :
          checks[p][i].statement \in DOMAIN statements[p] /\ checks[p][i].set \in DOMAIN sets[p]

StorageTyped ==
    /\ review = [p \in Problems |-> review[p]]
    /\ objects \subseteq [key : Keys, archive : DOMAIN Uploads]
    /\ keys \in [Problems -> 0 .. MaxUploads]
    /\ unknown \subseteq Keys
    /\ faults \in 0 .. MaxFaults

TablesInv == RowsTyped /\ StatementsTyped /\ SetsTyped /\ ChecksTyped /\ StorageTyped

\* What a request knows at each place and nobody undoes.
Knows(r) ==
    /\ r.pc # "idle" => r.problem \in Problems /\ GetProblem(r.problem)
    /\ r.pc \in Uploading => /\ r.key \in Keys /\ r.key[1] = r.problem
                             /\ r.key[2] <= keys[r.problem] /\ r.archive \in DOMAIN Uploads
    /\ r.pc \in Checking => r.statement \in DOMAIN statements[r.problem]
    /\ r.pc \in {"check_archive", "check_save"} => r.set \in DOMAIN sets[r.problem]
    /\ r.pc \in Approving \cup {"transition"} => r.actor \in Users
    /\ r.pc \in Approving => r.seen = "in_review"
    /\ r.pc = "transition" => r.seen \in Statuses \ {"archived"} /\ r.to \in Statuses \ {"archived"}
    /\ r.pc = "transition" /\ r.to = "published" => r.seen = "in_review"

\* A transaction that has locked a row knows its status.
Holds(q, r) ==
    r.pc \in {"statement", "set"} => lock[r.problem] = q /\ r.seen = problem[r.problem].status

RequestsInv ==
    /\ req \in [Requests -> Request]
    /\ lock \in [Problems -> Requests \cup {None}]
    /\ \A q \in Requests : Knows(req[q]) /\ Holds(q, req[q])

TypeInv == TablesInv /\ RequestsInv

-----------------------------------------------------------------------------
(* Publication.                                                            *)

HasStatement(p) == \E i \in DOMAIN statements[p] : statements[p][i]
HasSet(p) == \E i \in DOMAIN sets[p] : sets[p][i].current
HasValidCheck(p) == \E i \in DOMAIN checks[p] : checks[p][i].valid

MayDecide(a, p) == a # problem[p].owner \/ hasProblemPermission(a, "problem.manage_all")

\* An approval was checked against the owner and saw a problem in review; once its
\* three reads found nothing missing there is content, and nobody takes it away.
Approved(r) ==
    /\ r.pc \in Approving \/ (r.pc = "transition" /\ r.to = "published") =>
          MayDecide(r.actor, r.problem)
    /\ r.pc \in {"ready_set", "ready_check"} /\ r.statement # 0 => HasStatement(r.problem)
    /\ r.pc = "ready_check" /\ r.set # 0 => HasSet(r.problem)
    /\ r.pc = "transition" /\ r.to = "published" =>
          HasStatement(r.problem) /\ HasSet(r.problem) /\ HasValidCheck(r.problem)

\* What PublishedWasReviewed says of one problem.
Reviewed(p) ==
    Standing(p) = "published" =>
      /\ review[p] # None /\ review[p].to = "published" /\ review[p].from = "in_review"
      /\ MayDecide(review[p].actor, p)
      /\ HasStatement(p) /\ HasSet(p) /\ HasValidCheck(p)

ReviewInv ==
    /\ \A q \in Requests : Approved(req[q])
    /\ \A p \in Problems : Reviewed(p)

-----------------------------------------------------------------------------
(* Archives.                                                               *)

Acceptable(z) == ~HasErrorFindings(Manifests[z].codes)

\* Storage holds archive z under the key and nothing else.
Keeps(key, z) == \A o \in objects : o.key = key <=> o = [key |-> key, archive |-> z]
Stored(key, z) == [key |-> key, archive |-> z] \in objects /\ Keeps(key, z)

Recorded(key) == \E p \in Problems : \E i \in DOMAIN sets[p] : sets[p][i].key = key

\* An upload's archive was accepted; its object is in storage from the Put to the
\* end of the transaction, and its key is in no row before that.
Uploaded(r) ==
    /\ r.pc \in {"put", "stored", "set"} => Acceptable(r.archive) /\ ~Recorded(r.key)
    /\ r.pc \in {"stored", "set"} => Stored(r.key, r.archive)
    /\ r.pc = "cleanup" /\ Recorded(r.key) => r.key \in unknown

OwnKeys ==
    \A q, s \in Requests :
      q # s /\ req[q].pc \in Uploading /\ req[s].pc \in Uploading => req[q].key # req[s].key

\* A row has a key drawn for its problem, and the archive it was written from.
RowStored(p, row) ==
    /\ row.key[1] = p /\ row.key[2] <= keys[p]
    /\ \/ row.key \in unknown
       \/ \E z \in DOMAIN Uploads : /\ Acceptable(z) /\ Stored(row.key, z)
                                    /\ row.checksum = Uploads[z].sum
                                    /\ row.cases = Len(Manifests[z].cases)

ArchiveInv ==
    /\ \A q \in Requests : Uploaded(req[q])
    /\ OwnKeys
    /\ \A p \in Problems : \A i \in DOMAIN sets[p] : RowStored(p, sets[p][i])

-----------------------------------------------------------------------------
(* What a query for one row of several finds.                              *)

LEMMA LeastNatural ==
    ASSUME NEW T \in SUBSET Nat, T # {}
    PROVE  \E m \in T : \A k \in T : m <= k
<1> DEFINE R == OpToRel(<, Nat)
<1>1. PICK m \in T : \A y \in T : ~(<<y, m>> \in R)
  BY WFMin, NatLessThanWellFounded
<1>2. \A y \in T : <<y, m>> \in R <=> y < m
  BY DEF OpToRel
<1> HIDE DEF R
<1>3. \A y \in T : ~(y < m)
  BY <1>1, <1>2
<1> QED
  BY <1>3

\* The first of some versions is one of them.
LEMMA FirstOfVersions ==
    ASSUME NEW n \in Nat, NEW I \in SUBSET (1 .. n), I # {}
    PROVE  Min(I) \in I
<1>1. I \in SUBSET Nat
  OBVIOUS
<1>2. \E x \in I : \A y \in I : x =< y
  BY <1>1, LeastNatural
<1> QED
  BY <1>2 DEF Min

\* So is the last: the least bound of a set that is not empty is in the set.
LEMMA LastOfVersions ==
    ASSUME NEW n \in Nat, NEW I \in SUBSET (1 .. n), I # {}
    PROVE  Max(I) \in I
<1> DEFINE B == {m \in Nat : \A y \in I : y <= m}
<1>1. n \in B
  OBVIOUS
<1>2. PICK m \in B : \A k \in B : m <= k
  <2>1. B \in SUBSET Nat /\ B # {}
    BY <1>1
  <2> HIDE DEF B
  <2> QED
    BY <2>1, LeastNatural
<1>3. m \in Nat /\ \A y \in I : y <= m
  BY <1>2
<1>4. m # 0
  <2>1. PICK y \in I : TRUE
    OBVIOUS
  <2>2. y \in 1 .. n /\ y <= m
    BY <1>3
  <2> QED
    BY <2>2
<1>5. m - 1 \notin B
  BY <1>2, <1>3
<1>6. PICK y \in I : ~(y <= m - 1)
  BY <1>3, <1>4, <1>5
<1>7. y = m
  BY <1>3, <1>6
<1>8. \E x \in I : \A k \in I : x >= k
  BY <1>3, <1>7
<1> QED
  BY <1>8 DEF Max

\* What a query that takes the current, or the latest, of versions 1 .. n answers.
LEMMA SelectedVersion ==
    ASSUME NEW n \in Nat, NEW I \in SUBSET (1 .. n),
           NEW k, k = (IF I # {} THEN Min(I) ELSE 0) \/ k = (IF I # {} THEN Max(I) ELSE 0)
    PROVE  k \in Nat /\ (k # 0 <=> I # {}) /\ (k # 0 => k \in I)
<1>1. CASE I = {}
  BY <1>1
<1>2. CASE I # {}
  <2>1. Min(I) \in I /\ Max(I) \in I
    BY <1>2, FirstOfVersions, LastOfVersions
  <2>2. k \in I
    BY <1>2, <2>1
  <2> QED
    BY <1>2, <2>2
<1> QED
  BY <1>1, <1>2

LEMMA VersionsTyped ==
    ASSUME TablesInv, NEW p \in Problems
    PROVE  /\ statements[p] \in Seq(BOOLEAN) /\ Len(statements[p]) \in Nat
           /\ DOMAIN statements[p] = 1 .. Len(statements[p])
           /\ sets[p] \in Seq(SetRow) /\ Len(sets[p]) \in Nat
           /\ DOMAIN sets[p] = 1 .. Len(sets[p])
           /\ checks[p] \in Seq(CheckRow) /\ Len(checks[p]) \in Nat
           /\ DOMAIN checks[p] = 1 .. Len(checks[p])
BY LenProperties DEF TablesInv, StatementsTyped, SetsTyped, ChecksTyped

\* GetCurrentProblemStatement: 0 when no version is current, else a version.
LEMMA CurrentStatementFound ==
    ASSUME TablesInv, NEW p \in Problems
    PROVE  /\ GetCurrentProblemStatement(p) \in Nat
           /\ GetCurrentProblemStatement(p) # 0 <=> HasStatement(p)
           /\ GetCurrentProblemStatement(p) # 0 =>
                GetCurrentProblemStatement(p) \in DOMAIN statements[p]
<1> DEFINE I == {i \in 1 .. Len(statements[p]) : statements[p][i]}
<1>1. Len(statements[p]) \in Nat /\ DOMAIN statements[p] = 1 .. Len(statements[p])
  BY VersionsTyped
<1>2. GetCurrentProblemStatement(p) = IF I # {} THEN Min(I) ELSE 0
  BY DEF GetCurrentProblemStatement, SelectInSeq
<1>3. I \in SUBSET (1 .. Len(statements[p])) /\ (I # {} <=> HasStatement(p))
  BY <1>1 DEF HasStatement
<1> HIDE DEF I
<1> QED
  BY <1>1, <1>2, <1>3, SelectedVersion

\* GetCurrentTestcaseSet, likewise.
LEMMA CurrentSetFound ==
    ASSUME TablesInv, NEW p \in Problems
    PROVE  /\ GetCurrentTestcaseSet(p) \in Nat
           /\ GetCurrentTestcaseSet(p) # 0 <=> HasSet(p)
           /\ GetCurrentTestcaseSet(p) # 0 => GetCurrentTestcaseSet(p) \in DOMAIN sets[p]
<1> DEFINE I == {i \in 1 .. Len(sets[p]) : sets[p][i].current}
<1>1. Len(sets[p]) \in Nat /\ DOMAIN sets[p] = 1 .. Len(sets[p])
  BY VersionsTyped
<1>2. GetCurrentTestcaseSet(p) = IF I # {} THEN Min(I) ELSE 0
  BY DEF GetCurrentTestcaseSet, SelectInSeq
<1>3. I \in SUBSET (1 .. Len(sets[p])) /\ (I # {} <=> HasSet(p))
  BY <1>1 DEF HasSet
<1> HIDE DEF I
<1> QED
  BY <1>1, <1>2, <1>3, SelectedVersion

\* loadProblemAuthoringReadiness: nothing is missing only when both versions were
\* found and some check of the problem is valid.
LEMMA ReadyMeansChecked ==
    ASSUME TablesInv, NEW p \in Problems, NEW s, NEW t,
           loadProblemAuthoringReadiness(p, s, t) = <<>>
    PROVE  s # 0 /\ t # 0 /\ HasValidCheck(p)
<1> DEFINE I == {i \in 1 .. Len(checks[p]) : checks[p][i].statement = s /\ checks[p][i].set = t}
           k == GetLatestCompletedProblemCheckRun(p, s, t)
<1>1. Len(checks[p]) \in Nat /\ DOMAIN checks[p] = 1 .. Len(checks[p])
  BY VersionsTyped
<1>2. k = IF I # {} THEN Max(I) ELSE 0
  BY DEF GetLatestCompletedProblemCheckRun, SelectLastInSeq
<1>3. I \in SUBSET (1 .. Len(checks[p]))
  OBVIOUS
<1>4. s # 0 /\ t # 0 /\ CheckValid(p, k)
  BY DEF loadProblemAuthoringReadiness
<1> HIDE DEF I, k
<1>5. k # 0 => k \in DOMAIN checks[p]
  BY <1>1, <1>2, <1>3, SelectedVersion
<1> QED
  BY <1>4, <1>5 DEF CheckValid, HasValidCheck

-----------------------------------------------------------------------------
(* Records of requests.                                                    *)

LEMMA IdleRequest == Idle \in Request /\ Idle.pc = "idle"
BY WorkflowAssumption DEF Idle, Request, Places

LEMMA NewRequest ==
    ASSUME NEW pc \in Places, NEW p \in Problems
    PROVE  LET r == At(pc, p)
           IN  /\ r \in Request /\ r.pc = pc /\ r.problem = p
               /\ r.actor = None /\ r.seen = None /\ r.to = None
               /\ r.statement = 0 /\ r.set = 0 /\ r.key = None /\ r.archive = 0
BY WorkflowAssumption DEF At, Idle, Request

\* The request moves to a place and keeps what it carries.
LEMMA RelabelledRequest ==
    ASSUME NEW r \in Request, NEW pc \in Places
    PROVE  LET s == [r EXCEPT !.pc = pc]
           IN  /\ s \in Request /\ s.pc = pc /\ s.problem = r.problem
               /\ s.actor = r.actor /\ s.seen = r.seen /\ s.to = r.to
               /\ s.statement = r.statement /\ s.set = r.set /\ s.key = r.key
               /\ s.archive = r.archive
BY DEF Request

LEMMA SeenRequest ==
    ASSUME TablesInv, NEW r \in Request, r.problem \in Problems
    PROVE  LET s == Seen(r)
           IN  /\ s \in Request /\ s.seen = problem[r.problem].status
               /\ s.pc = r.pc /\ s.problem = r.problem /\ s.actor = r.actor /\ s.to = r.to
               /\ s.key = r.key /\ s.archive = r.archive
<1>1. problem[r.problem].status \in Statuses \cup {None}
  BY DEF TablesInv, RowsTyped, Row
<1> QED
  BY <1>1 DEF Seen, Request

LEMMA ActorsRequest ==
    ASSUME NEW r \in Request, NEW a \in Users
    PROVE  LET s == By(r, a)
           IN  /\ s \in Request /\ s.actor = a
               /\ s.pc = r.pc /\ s.problem = r.problem /\ s.seen = r.seen /\ s.to = r.to
BY DEF By, Request

LEMMA TransitionRequest ==
    ASSUME NEW r \in Request, NEW to \in Statuses
    PROVE  LET s == Transition(r, to)
           IN  /\ s \in Request /\ s.pc = "transition" /\ s.to = to
               /\ s.problem = r.problem /\ s.actor = r.actor /\ s.seen = r.seen
BY DEF Transition, Request, Places

-----------------------------------------------------------------------------
(* What the steps write.                                                   *)

RowsGrow ==
    \A p \in Problems :
      GetProblem(p) => problem'[p].status # None /\ problem'[p].owner = problem[p].owner
StatementsGrow ==
    \A p \in Problems : DOMAIN statements[p] \subseteq DOMAIN statements'[p]
                        /\ (HasStatement(p) => HasStatement(p)')
SetsGrow ==
    \A p \in Problems : DOMAIN sets[p] \subseteq DOMAIN sets'[p] /\ (HasSet(p) => HasSet(p)')
ChecksGrow == \A p \in Problems : HasValidCheck(p) => HasValidCheck(p)'
KeysGrow == \A p \in Problems : keys[p] <= keys'[p]

\* Nothing a request relies on is taken away.
Grows == RowsGrow /\ StatementsGrow /\ SetsGrow /\ ChecksGrow /\ KeysGrow

LEMMA RowsUntouched ==
    ASSUME RowsTyped, UNCHANGED problem
    PROVE  RowsTyped' /\ RowsGrow
BY DEF RowsTyped, RowsGrow, GetProblem

LEMMA StatementsUntouched ==
    ASSUME StatementsTyped, UNCHANGED statements
    PROVE  StatementsTyped' /\ StatementsGrow
<1>1. StatementsTyped'
  BY DEF StatementsTyped
<1>2. StatementsGrow
  BY DEF StatementsGrow, HasStatement
<1> QED
  BY <1>1, <1>2

LEMMA SetsUntouched ==
    ASSUME SetsTyped, UNCHANGED sets
    PROVE  SetsTyped' /\ SetsGrow
<1>1. SetsTyped'
  BY DEF SetsTyped
<1>2. SetsGrow
  BY DEF SetsGrow, HasSet
<1> QED
  BY <1>1, <1>2

LEMMA ChecksUntouched ==
    ASSUME ChecksTyped, UNCHANGED checks, StatementsGrow, SetsGrow
    PROVE  ChecksTyped' /\ ChecksGrow
<1>1. ChecksTyped'
  BY DEF ChecksTyped, StatementsGrow, SetsGrow
<1>2. ChecksGrow
  BY DEF ChecksGrow, HasValidCheck
<1> QED
  BY <1>1, <1>2

LEMMA KeysUntouched ==
    ASSUME StorageTyped, UNCHANGED keys
    PROVE  KeysGrow
BY WorkflowAssumption DEF StorageTyped, KeysGrow

LEMMA FaultTyped ==
    ASSUME StorageTyped, Fault \/ UNCHANGED faults
    PROVE  faults' \in 0 .. MaxFaults
BY WorkflowAssumption DEF StorageTyped, Fault

\* A step that writes no row of the database.
LEMMA OnlyStorageWritten ==
    ASSUME TablesInv, UNCHANGED <<problem, statements, sets, checks>>, StorageTyped', KeysGrow
    PROVE  TablesInv' /\ Grows
<1>1. UNCHANGED problem /\ UNCHANGED statements /\ UNCHANGED sets /\ UNCHANGED checks
  OBVIOUS
<1> QED
  BY <1>1, RowsUntouched, StatementsUntouched, SetsUntouched, ChecksUntouched DEF TablesInv, Grows

LEMMA StorageUntouched ==
    ASSUME StorageTyped, UNCHANGED <<review, objects, keys, unknown>>, Fault \/ UNCHANGED faults
    PROVE  StorageTyped' /\ KeysGrow
<1>1. UNCHANGED review /\ UNCHANGED objects /\ UNCHANGED keys /\ UNCHANGED unknown
  OBVIOUS
<1>2. faults' \in 0 .. MaxFaults /\ KeysGrow
  BY <1>1, FaultTyped, KeysUntouched
<1> QED
  BY <1>1, <1>2 DEF StorageTyped

LEMMA NothingWritten ==
    ASSUME TablesInv, UNCHANGED <<problem, statements, sets, checks, review, objects, keys, unknown>>,
           Fault \/ UNCHANGED faults
    PROVE  TablesInv' /\ Grows
BY StorageUntouched, OnlyStorageWritten DEF TablesInv

\* One problem's row is replaced by another of the same owner, or inserted.
LEMMA RowWritten ==
    ASSUME RowsTyped, NEW p \in Problems, NEW row \in Row, row.status # None,
           row.archivedFrom # None => row.status = "archived",
           GetProblem(p) => row.owner = problem[p].owner,
           problem' = [problem EXCEPT ![p] = row]
    PROVE  RowsTyped' /\ RowsGrow
BY DEF RowsTyped, RowsGrow, GetProblem

LEMMA OnlyRowsWritten ==
    ASSUME TablesInv, RowsTyped', RowsGrow, StorageTyped', UNCHANGED <<statements, sets, checks, keys>>
    PROVE  TablesInv' /\ Grows
<1>1. UNCHANGED statements /\ UNCHANGED sets /\ UNCHANGED checks /\ UNCHANGED keys
  OBVIOUS
<1> QED
  BY <1>1, StatementsUntouched, SetsUntouched, ChecksUntouched, KeysUntouched DEF TablesInv, Grows

\* SetProblemStatus: a status other than archived, of a problem that is not archived.
LEMMA StatusWritten ==
    ASSUME RowsTyped, NEW p \in Problems, NEW to \in Statuses,
           problem[p].status # "archived", SetProblemStatus(p, to)
    PROVE  /\ RowsTyped' /\ RowsGrow
           /\ problem' = [problem EXCEPT ![p] = [problem[p] EXCEPT !.status = to]]
           /\ problem'[p].status = to
<1>1. problem[p] \in Row /\ problem[p].archivedFrom = None
  BY DEF RowsTyped
<1> DEFINE row == [problem[p] EXCEPT !.status = to]
<1>2. row \in Row /\ row.status = to /\ row.archivedFrom = None /\ row.owner = problem[p].owner
  BY <1>1 DEF Row
<1>3. problem' = [problem EXCEPT ![p] = row]
  BY DEF SetProblemStatus
<1> HIDE DEF row
<1>4. to # None
  BY WorkflowAssumption
<1>5. RowsTyped' /\ RowsGrow
  BY <1>2, <1>3, <1>4, RowWritten
<1>6. problem'[p].status = to
  BY <1>2, <1>3 DEF RowsTyped
<1> QED
  BY <1>3, <1>5, <1>6 DEF row

\* demotePublishedProblem, with the status the transaction read under its lock.
LEMMA Demoted ==
    ASSUME RowsTyped, NEW p \in Problems, demotePublishedProblem(p, problem[p].status)
    PROVE  /\ RowsTyped' /\ RowsGrow
           /\ \A o \in Problems : o # p => problem'[o] = problem[o]
           /\ problem[p].status = "published" => problem'[p].status = "draft"
           /\ problem[p].status # "published" => problem'[p] = problem[p]
<1>1. CASE problem[p].status = "published"
  <2>1. SetProblemStatus(p, "draft") /\ "draft" \in Statuses /\ problem[p].status # "archived"
    BY <1>1 DEF demotePublishedProblem, Statuses
  <2>2. /\ RowsTyped' /\ RowsGrow /\ problem'[p].status = "draft"
        /\ problem' = [problem EXCEPT ![p] = [problem[p] EXCEPT !.status = "draft"]]
    BY <2>1, StatusWritten
  <2>3. \A o \in Problems : o # p => problem'[o] = problem[o]
    BY <2>2 DEF RowsTyped
  <2> QED
    BY <1>1, <2>2, <2>3
<1>2. CASE problem[p].status # "published"
  <2>1. UNCHANGED problem
    BY <1>2 DEF demotePublishedProblem
  <2>2. RowsTyped' /\ RowsGrow
    BY <2>1, RowsUntouched
  <2> QED
    BY <1>2, <2>1, <2>2
<1> QED
  BY <1>1, <1>2

\* Every version is rewritten in place and another is added.
LEMMA VersionAdded ==
    ASSUME NEW S, NEW old \in Seq(S), NEW f \in [DOMAIN old -> S], NEW e \in S,
           NEW n, n = Len(old) + 1
    PROVE  /\ Append(f, e) \in Seq(S) /\ n \in Nat
           /\ DOMAIN Append(f, e) = 1 .. n
           /\ DOMAIN old = 1 .. (n - 1)
           /\ \A i \in DOMAIN old : Append(f, e)[i] = f[i]
           /\ Append(f, e)[n] = e
<1>1. Len(old) \in Nat /\ DOMAIN old = 1 .. Len(old)
  BY LenProperties
<1>2. f \in [1 .. Len(old) -> S]
  BY <1>1
<1>3. f \in Seq(S)
  BY <1>1, <1>2, SeqDef
<1>4. Len(f) = Len(old)
  BY <1>1, <1>2, <1>3, LenProperties
<1>5. /\ Append(f, e) \in Seq(S)
      /\ Len(Append(f, e)) = n
      /\ \A i \in 1 .. Len(f) : Append(f, e)[i] = f[i]
      /\ Append(f, e)[n] = e
  BY <1>3, <1>4, AppendProperties
<1>6. DOMAIN Append(f, e) = 1 .. n
  BY <1>5, LenProperties
<1> QED
  BY <1>1, <1>4, <1>5, <1>6

\* InsertProblemStatement: the new version is the current one.
LEMMA StatementWritten ==
    ASSUME TablesInv, NEW p \in Problems,
           statements' = [statements EXCEPT ![p] = InsertProblemStatement(p)]
    PROVE  StatementsTyped' /\ StatementsGrow
<1> DEFINE f == ClearCurrentProblemStatement(p)
           n == Len(statements[p]) + 1
           new == InsertProblemStatement(p)
<1>1. statements \in [Problems -> Seq(BOOLEAN)] /\ statements[p] \in Seq(BOOLEAN)
  BY DEF TablesInv, StatementsTyped
<1>2. \A i \in DOMAIN statements[p] : f[i] = FALSE
  BY DEF ClearCurrentProblemStatement
<1>3. new = Append(f, TRUE)
  BY DEF InsertProblemStatement
<1> HIDE DEF f, new
<1>4. f \in [DOMAIN statements[p] -> BOOLEAN]
  BY DEF f, ClearCurrentProblemStatement
<1> DEFINE B == BOOLEAN
           yes == TRUE
<1>4a. yes \in B /\ n = Len(statements[p]) + 1 /\ statements[p] \in Seq(B)
       /\ f \in [DOMAIN statements[p] -> B]
  BY <1>1, <1>4
<1> HIDE DEF B, yes
<1>5. /\ Append(f, yes) \in Seq(B) /\ n \in Nat
      /\ DOMAIN Append(f, yes) = 1 .. n
      /\ DOMAIN statements[p] = 1 .. (n - 1)
      /\ \A i \in DOMAIN statements[p] : Append(f, yes)[i] = f[i]
      /\ Append(f, yes)[n] = yes
  <2> HIDE DEF n
  <2> QED
    BY <1>4a, VersionAdded
<1> USE DEF B, yes
<1>6. /\ new \in Seq(BOOLEAN) /\ n \in Nat
      /\ DOMAIN new = 1 .. n /\ DOMAIN statements[p] = 1 .. (n - 1)
  BY <1>3, <1>5, Zenon
<1>7. \A i \in DOMAIN statements[p] : new[i] = FALSE
  BY <1>2, <1>3, <1>5, Zenon
<1>8. new[n] = TRUE
  BY <1>3, <1>5, Zenon
<1>9. \A i \in DOMAIN new : i = n \/ i \in DOMAIN statements[p]
  BY <1>6
<1>10. DOMAIN statements[p] \subseteq DOMAIN new /\ n \in DOMAIN new
  BY <1>6
<1> HIDE DEF n
<1>11. /\ statements' \in [Problems -> Seq(BOOLEAN)]
       /\ statements'[p] = new
       /\ \A o \in Problems : o # p => statements'[o] = statements[o]
  BY <1>1, <1>6 DEF new
<1>12. \A i \in DOMAIN new : new[i] => i = n
  BY <1>7, <1>9, Zenon
<1>13. StatementsTyped'
  <2> SUFFICES ASSUME NEW o \in Problems, NEW i \in DOMAIN statements'[o], NEW j \in DOMAIN statements'[o],
                      statements'[o][i], statements'[o][j]
               PROVE  i = j
    BY <1>11, Zenon DEF StatementsTyped
  <2>1. CASE o = p
    BY <1>11, <1>12, <2>1, Zenon
  <2>2. CASE o # p
    BY <1>11, <2>2, Zenon DEF TablesInv, StatementsTyped
  <2> QED
    BY <2>1, <2>2
<1>14. StatementsGrow
  <2> SUFFICES ASSUME NEW o \in Problems
               PROVE  DOMAIN statements[o] \subseteq DOMAIN statements'[o]
                      /\ (HasStatement(o) => HasStatement(o)')
    BY DEF StatementsGrow
  <2>1. CASE o = p
    <3>1. HasStatement(o)'
      BY <1>8, <1>10, <1>11, <2>1, Zenon DEF HasStatement
    <3> QED
      BY <1>10, <1>11, <2>1, <3>1
  <2>2. CASE o # p
    <3>1. statements'[o] = statements[o]
      BY <1>11, <2>2
    <3> QED
      BY <3>1, Zenon DEF HasStatement
  <2> QED
    BY <2>1, <2>2
<1> QED
  BY <1>13, <1>14

\* InsertTestcaseSet: the new version is the current one and the others keep their
\* keys, digests and counts.
LEMMA SetWritten ==
    ASSUME TablesInv, NEW p \in Problems, NEW key \in Keys, NEW z \in DOMAIN Uploads,
           sets' = [sets EXCEPT ![p] = InsertTestcaseSet(p, key, z)]
    PROVE  /\ SetsTyped' /\ SetsGrow
           /\ \A o \in Problems : o # p => sets'[o] = sets[o]
           /\ \A i \in DOMAIN sets'[p] :
                \/ /\ sets'[p][i].key = key /\ sets'[p][i].checksum = Uploads[z].sum
                   /\ sets'[p][i].cases = Len(Manifests[z].cases)
                \/ /\ i \in DOMAIN sets[p]
                   /\ sets'[p][i].key = sets[p][i].key
                   /\ sets'[p][i].checksum = sets[p][i].checksum
                   /\ sets'[p][i].cases = sets[p][i].cases
<1> DEFINE f == ClearCurrentTestcaseSet(p)
           n == Len(sets[p]) + 1
           row == [key |-> key, checksum |-> Uploads[z].sum, cases |-> Len(Manifests[z].cases),
                   current |-> TRUE]
           new == InsertTestcaseSet(p, key, z)
<1>1. sets \in [Problems -> Seq(SetRow)] /\ sets[p] \in Seq(SetRow)
  BY DEF TablesInv, SetsTyped
<1>2. \A i \in DOMAIN sets[p] : sets[p][i] \in SetRow
  <2>1. DOMAIN sets[p] = 1 .. Len(sets[p])
    BY <1>1, LenProperties
  <2> QED
    BY <1>1, <2>1, ElementOfSeq
<1> DEFINE cleared(s) == [s EXCEPT !.current = FALSE]
<1>3. \A s \in SetRow : /\ cleared(s) \in SetRow /\ cleared(s).current = FALSE /\ cleared(s).key = s.key
                        /\ cleared(s).checksum = s.checksum /\ cleared(s).cases = s.cases
  BY DEF SetRow
<1>4. f = [i \in DOMAIN sets[p] |-> cleared(sets[p][i])]
  BY DEF ClearCurrentTestcaseSet
<1> HIDE DEF cleared
<1>5. row \in SetRow /\ row.current = TRUE /\ row.key = key /\ row.checksum = Uploads[z].sum
      /\ row.cases = Len(Manifests[z].cases)
  BY DEF SetRow
<1>6. new = Append(f, row)
  BY DEF InsertTestcaseSet
<1> HIDE DEF f, row, new
<1>7. \A i \in DOMAIN sets[p] : /\ f[i] \in SetRow /\ f[i].current = FALSE /\ f[i].key = sets[p][i].key
                                /\ f[i].checksum = sets[p][i].checksum
                                /\ f[i].cases = sets[p][i].cases
  BY <1>2, <1>3, <1>4
<1>7a. f \in [DOMAIN sets[p] -> SetRow]
  BY <1>4, <1>7
<1>8. /\ Append(f, row) \in Seq(SetRow) /\ n \in Nat
      /\ DOMAIN Append(f, row) = 1 .. n
      /\ DOMAIN sets[p] = 1 .. (n - 1)
      /\ \A i \in DOMAIN sets[p] : Append(f, row)[i] = f[i]
      /\ Append(f, row)[n] = row
  BY <1>1, <1>5, <1>7a, VersionAdded
<1>9. /\ new \in Seq(SetRow) /\ new[n] = row
      /\ \A i \in DOMAIN sets[p] : new[i] = f[i]
  BY <1>6, <1>8
<1>10. /\ \A i \in DOMAIN new : i = n \/ i \in DOMAIN sets[p]
       /\ DOMAIN sets[p] \subseteq DOMAIN new /\ n \in DOMAIN new
  BY <1>6, <1>8
<1> HIDE DEF n
<1>11. /\ sets' \in [Problems -> Seq(SetRow)]
       /\ sets'[p] = new
       /\ \A o \in Problems : o # p => sets'[o] = sets[o]
  BY <1>1, <1>9 DEF new
<1>12. \A i \in DOMAIN new : new[i].current => i = n
  BY <1>7, <1>9, <1>10
<1>13. SetsTyped'
  <2> SUFFICES ASSUME NEW o \in Problems, NEW i \in DOMAIN sets'[o], NEW j \in DOMAIN sets'[o],
                      sets'[o][i].current, sets'[o][j].current
               PROVE  i = j
    BY <1>11, Zenon DEF SetsTyped
  <2>1. CASE o = p
    BY <1>11, <1>12, <2>1
  <2>2. CASE o # p
    BY <1>11, <2>2 DEF TablesInv, SetsTyped
  <2> QED
    BY <2>1, <2>2
<1>14. SetsGrow
  <2> SUFFICES ASSUME NEW o \in Problems
               PROVE  DOMAIN sets[o] \subseteq DOMAIN sets'[o] /\ (HasSet(o) => HasSet(o)')
    BY DEF SetsGrow
  <2>1. CASE o = p
    <3>1. HasSet(o)'
      BY <1>5, <1>9, <1>10, <1>11, <2>1 DEF HasSet
    <3> QED
      BY <1>10, <1>11, <2>1, <3>1
  <2>2. CASE o # p
    <3>1. sets'[o] = sets[o]
      BY <1>11, <2>2
    <3> QED
      BY <3>1, Zenon DEF HasSet
  <2> QED
    BY <2>1, <2>2
<1>15. ASSUME NEW i \in DOMAIN sets'[p]
       PROVE  \/ /\ sets'[p][i].key = key /\ sets'[p][i].checksum = Uploads[z].sum
                 /\ sets'[p][i].cases = Len(Manifests[z].cases)
              \/ /\ i \in DOMAIN sets[p]
                 /\ sets'[p][i].key = sets[p][i].key
                 /\ sets'[p][i].checksum = sets[p][i].checksum
                 /\ sets'[p][i].cases = sets[p][i].cases
  BY <1>5, <1>7, <1>9, <1>10, <1>11
<1> QED
  BY <1>11, <1>13, <1>14, <1>15

\* CompleteProblemCheckRun: a check of versions that exist is added.
LEMMA CheckWritten ==
    ASSUME TablesInv, NEW p \in Problems, NEW c \in CheckRow,
           c.statement \in DOMAIN statements[p], c.set \in DOMAIN sets[p],
           checks' = [checks EXCEPT ![p] = Append(checks[p], c)],
           UNCHANGED statements, UNCHANGED sets
    PROVE  ChecksTyped' /\ ChecksGrow
<1> DEFINE n == Len(checks[p]) + 1
           new == Append(checks[p], c)
<1>1. checks \in [Problems -> Seq(CheckRow)] /\ checks[p] \in Seq(CheckRow)
  BY DEF TablesInv, ChecksTyped
<1>2. \A i \in DOMAIN checks[p] : checks[p][i] \in CheckRow
  <2>1. DOMAIN checks[p] = 1 .. Len(checks[p])
    BY <1>1, LenProperties
  <2> QED
    BY <1>1, <2>1, ElementOfSeq
<1>3. checks[p] \in [DOMAIN checks[p] -> CheckRow]
  BY <1>1, LenProperties
<1>4. /\ new \in Seq(CheckRow) /\ n \in Nat
      /\ DOMAIN new = 1 .. n
      /\ DOMAIN checks[p] = 1 .. (n - 1)
      /\ \A i \in DOMAIN checks[p] : new[i] = checks[p][i]
      /\ new[n] = c
  BY <1>1, <1>2, <1>3, VersionAdded
<1>5. /\ \A i \in DOMAIN new : i = n \/ i \in DOMAIN checks[p]
      /\ DOMAIN checks[p] \subseteq DOMAIN new
  BY <1>4
<1> HIDE DEF n, new
<1>6. /\ checks' \in [Problems -> Seq(CheckRow)]
      /\ checks'[p] = new
      /\ \A o \in Problems : o # p => checks'[o] = checks[o]
  BY <1>1, <1>4 DEF new
<1>7. ChecksTyped'
  <2> SUFFICES ASSUME NEW o \in Problems, NEW i \in DOMAIN checks'[o]
               PROVE  checks'[o][i].statement \in DOMAIN statements[o]
                      /\ checks'[o][i].set \in DOMAIN sets[o]
    BY <1>6 DEF ChecksTyped
  <2>1. CASE o = p
    BY <1>4, <1>5, <1>6, <2>1 DEF TablesInv, ChecksTyped
  <2>2. CASE o # p
    BY <1>6, <2>2 DEF TablesInv, ChecksTyped
  <2> QED
    BY <2>1, <2>2
<1>8. ChecksGrow
  <2> SUFFICES ASSUME NEW o \in Problems, NEW i \in DOMAIN checks[o], checks[o][i].valid
               PROVE  \E j \in DOMAIN checks'[o] : checks'[o][j].valid
    BY DEF ChecksGrow, HasValidCheck
  <2>1. CASE o = p
    BY <1>4, <1>5, <1>6, <2>1
  <2>2. CASE o # p
    BY <1>6, <2>2
  <2> QED
    BY <2>1, <2>2
<1> QED
  BY <1>7, <1>8

-----------------------------------------------------------------------------
(* What a step does to the requests.                                       *)

\* The row another request has locked is left alone.
LockRespected(q) ==
    \A p \in Problems :
      lock[p] # None /\ lock[p] # q => lock'[p] = lock[p] /\ problem'[p].status = problem[p].status

LEMMA StillKnows ==
    ASSUME TablesInv, TablesInv', Grows, NEW r \in Request, Knows(r)
    PROVE  Knows(r)'
<1>1. CASE r.pc = "idle"
  BY <1>1 DEF Knows, Uploading, Checking, Approving
<1>2. CASE r.pc # "idle"
  <2>1. r.problem \in Problems /\ GetProblem(r.problem)
    BY <1>2 DEF Knows
  <2>2. GetProblem(r.problem)'
    BY <2>1 DEF Grows, RowsGrow, GetProblem
  <2>3. /\ DOMAIN statements[r.problem] \subseteq DOMAIN statements'[r.problem]
        /\ DOMAIN sets[r.problem] \subseteq DOMAIN sets'[r.problem]
    BY <2>1 DEF Grows, StatementsGrow, SetsGrow
  <2>4. ASSUME r.pc \in Uploading
        PROVE  r.key[2] <= keys'[r.problem]
    <3>1. /\ keys[r.problem] \in Int /\ keys'[r.problem] \in Int
          /\ keys[r.problem] <= keys'[r.problem]
      BY <2>1, WorkflowAssumption DEF TablesInv, StorageTyped, Grows, KeysGrow
    <3>2. r.key \in Keys /\ r.key[2] <= keys[r.problem]
      BY <2>4 DEF Knows
    <3>3. r.key[2] \in Int
      BY <3>2, WorkflowAssumption DEF Keys
    <3> QED
      BY <3>1, <3>2, <3>3
  <2> QED
    BY <2>1, <2>2, <2>3, <2>4 DEF Knows
<1> QED
  BY <1>1, <1>2

\* One request moves.
LEMMA RequestMoves ==
    ASSUME TypeInv, TablesInv', Grows, NEW q \in Requests, NEW r \in Request, Goto(q, r),
           lock' \in [Problems -> Requests \cup {None}], LockRespected(q),
           Knows(r)', Holds(q, r)'
    PROVE  TypeInv'
<1>1. req \in [Requests -> Request] /\ req' = [req EXCEPT ![q] = r]
  BY DEF TypeInv, RequestsInv, Goto
<1>2. req' \in [Requests -> Request] /\ req'[q] = r /\ \A s \in Requests : s # q => req'[s] = req[s]
  BY <1>1
<1>3. ASSUME NEW s \in Requests
      PROVE  Knows(req[s])' /\ Holds(s, req[s])'
  <2>1. CASE s = q
    BY <1>2, <2>1 DEF Knows, Holds, GetProblem
  <2>2. CASE s # q
    <3>1. req'[s] = req[s] /\ req[s] \in Request /\ Knows(req[s]) /\ Holds(s, req[s])
      BY <1>1, <1>2, <2>2 DEF TypeInv, RequestsInv
    <3> DEFINE t == req[s]
    <3>2. PICK u \in Request : u = t
      BY <3>1
    <3>3. Knows(u) /\ Holds(s, u)
      BY <3>1, <3>2
    <3>4. Knows(u)'
      BY <3>3, StillKnows DEF TypeInv
    <3>5. Holds(s, u)'
      <4>1. CASE u.pc \in {"statement", "set"}
        <5>1. u.problem \in Problems /\ lock[u.problem] = s /\ u.seen = problem[u.problem].status
          BY <3>3, <4>1 DEF Knows, Holds, Uploading
        <5>2. s # None
          BY WorkflowAssumption
        <5>3. lock'[u.problem] = s /\ problem'[u.problem].status = u.seen
          BY <2>2, <5>1, <5>2 DEF LockRespected
        <5> QED
          BY <5>3 DEF Holds
      <4>2. CASE u.pc \notin {"statement", "set"}
        BY <4>2 DEF Holds
      <4> QED
        BY <4>1, <4>2
    <3>6. req'[s] = u
      BY <3>1, <3>2
    <3> QED
      BY <3>4, <3>5, <3>6 DEF Knows, Holds, GetProblem
  <2> QED
    BY <2>1, <2>2
<1> QED
  BY <1>2, <1>3 DEF TypeInv, RequestsInv

LEMMA LockKept ==
    ASSUME RequestsInv, NEW q \in Requests, UNCHANGED <<problem, lock>>
    PROVE  lock' \in [Problems -> Requests \cup {None}] /\ LockRespected(q)
BY DEF RequestsInv, LockRespected

LEMMA LockTaken ==
    ASSUME RequestsInv, NEW q \in Requests, NEW p \in Problems, LockProblemForUpdate(q, p),
           UNCHANGED problem
    PROVE  lock' \in [Problems -> Requests \cup {None}] /\ LockRespected(q) /\ lock'[p] = q
BY DEF RequestsInv, LockRespected, LockProblemForUpdate

LEMMA LockReleased ==
    ASSUME RequestsInv, NEW q \in Requests, lock' = Released(q),
           \A p \in Problems : lock[p] # q => problem'[p] = problem[p]
    PROVE  lock' \in [Problems -> Requests \cup {None}] /\ LockRespected(q)
BY DEF RequestsInv, LockRespected, Released

\* A request that ends knows nothing and holds nothing.
LEMMA RequestEnds ==
    ASSUME TypeInv, TablesInv', Grows, NEW q \in Requests, Finish(q),
           lock' \in [Problems -> Requests \cup {None}], LockRespected(q)
    PROVE  TypeInv'
<1>1. Idle \in Request /\ Goto(q, Idle) /\ Idle.pc = "idle"
  BY IdleRequest DEF Finish
<1>2. Knows(Idle)' /\ Holds(q, Idle)'
  BY <1>1 DEF Knows, Holds, Uploading, Checking, Approving, Idle
<1> QED
  BY <1>1, <1>2, RequestMoves

-----------------------------------------------------------------------------
(* Where each operation takes its request.                                 *)

LEMMA RequestTyped ==
    ASSUME TypeInv, NEW q \in Requests
    PROVE  /\ req[q] \in Request /\ Knows(req[q]) /\ Holds(q, req[q])
           /\ req[q].pc # "idle" => req[q].problem \in Problems /\ GetProblem(req[q].problem)
BY DEF TypeInv, RequestsInv, Knows

LEMMA CreateStatementMoves ==
    ASSUME TypeInv, NEW q \in Requests, NEW a \in Users, NEW p \in Problems, CreateStatement(q, a, p)
    PROVE  \E r \in Request : /\ Goto(q, r) /\ r.pc = "statement" /\ r.problem = p
                              /\ r.seen = problem[p].status
<1> DEFINE b == At("statement", p)
<1>1. b \in Request /\ b.pc = "statement" /\ b.problem = p
  BY NewRequest DEF Places
<1> HIDE DEF b
<1>2. Seen(b) \in Request /\ Seen(b).seen = problem[p].status /\ Seen(b).pc = "statement"
      /\ Seen(b).problem = p
  BY <1>1, SeenRequest DEF TypeInv
<1>3. Goto(q, Seen(b))
  BY DEF CreateStatement, b
<1> QED
  BY <1>2, <1>3

LEMMA UploadMoves ==
    ASSUME TypeInv, NEW q \in Requests, NEW a \in Users, NEW p \in Problems,
           NEW z \in DOMAIN Uploads, UploadTestcaseArchive(q, a, p, z)
    PROVE  \E r \in Request : /\ Goto(q, r) /\ r.pc = "put" /\ r.problem = p /\ r.archive = z
                              /\ r.key = <<p, keys[p] + 1>> /\ r.key \in Keys
<1> DEFINE b == At("put", p)
           key == <<p, keys[p] + 1>>
           r == [b EXCEPT !.key = key, !.archive = z]
<1>1. b \in Request /\ b.pc = "put" /\ b.problem = p
  BY NewRequest DEF Places, Uploading
<1>2. key \in Keys
  <2>1. keys[p] \in 0 .. MaxUploads /\ keys[p] < MaxUploads /\ MaxUploads \in Nat
    BY WorkflowAssumption DEF UploadTestcaseArchive, TypeInv, TablesInv, StorageTyped
  <2> QED
    BY <2>1 DEF Keys
<1> HIDE DEF b, key
<1>3. r \in Request /\ r.pc = "put" /\ r.problem = p /\ r.key = key /\ r.archive = z
  BY <1>1, <1>2 DEF Request
<1>4. Goto(q, r)
  BY DEF UploadTestcaseArchive, testcaseArchiveKey, b, key
<1> HIDE DEF r
<1>5. r.key = <<p, keys[p] + 1>> /\ r.key \in Keys
  BY <1>2, <1>3 DEF key
<1> QED
  BY <1>3, <1>4, <1>5

\* A request that goes on with what it carries.
SameUpload(r, s) == r.problem = s.problem /\ r.key = s.key /\ r.archive = s.archive

LEMMA UploadGoesOn ==
    ASSUME TypeInv, NEW q \in Requests, NEW pc \in Places, Goto(q, [req[q] EXCEPT !.pc = pc])
    PROVE  \E r \in Request : Goto(q, r) /\ r.pc = pc /\ SameUpload(r, req[q])
<1> DEFINE r == [req[q] EXCEPT !.pc = pc]
<1>1. r \in Request /\ r.pc = pc /\ SameUpload(r, req[q])
  BY RequestTyped, RelabelledRequest DEF SameUpload
<1> QED
  BY <1>1

LEMMA LockForSetMoves ==
    ASSUME TypeInv, NEW q \in Requests, LockForTestcaseSet(q)
    PROVE  \E r \in Request : /\ Goto(q, r) /\ r.pc = "set" /\ SameUpload(r, req[q])
                              /\ r.seen = problem[r.problem].status
<1> DEFINE b == [req[q] EXCEPT !.pc = "set"]
<1>1. req[q].problem \in Problems
  BY RequestTyped DEF LockForTestcaseSet
<1>2. b \in Request /\ b.pc = "set" /\ SameUpload(b, req[q])
  BY RequestTyped, RelabelledRequest DEF Places, Uploading, SameUpload
<1> HIDE DEF b
<1>3. /\ Seen(b) \in Request /\ Seen(b).seen = problem[Seen(b).problem].status /\ Seen(b).pc = "set"
      /\ SameUpload(Seen(b), req[q])
  BY <1>1, <1>2, SeenRequest DEF TypeInv, SameUpload
<1>4. Goto(q, Seen(b))
  BY DEF LockForTestcaseSet, b
<1> QED
  BY <1>3, <1>4

LEMMA RunCheckMoves ==
    ASSUME TypeInv, NEW q \in Requests, NEW a \in Users, NEW p \in Problems, RunProblemCheck(q, a, p)
    PROVE  \E r \in Request : /\ Goto(q, r) /\ r.pc = "check_set" /\ r.problem = p
                              /\ r.statement \in DOMAIN statements[p]
<1> DEFINE b == At("check_set", p)
           s == GetCurrentProblemStatement(p)
           r == [b EXCEPT !.statement = s]
<1>1. b \in Request /\ b.pc = "check_set" /\ b.problem = p
  BY NewRequest DEF Places, Checking
<1>2. s \in Nat /\ s \in DOMAIN statements[p]
  BY CurrentStatementFound DEF RunProblemCheck, TypeInv
<1> HIDE DEF b, s
<1>3. r \in Request /\ r.pc = "check_set" /\ r.problem = p /\ r.statement = s
  BY <1>1, <1>2 DEF Request
<1>4. Goto(q, r)
  BY DEF RunProblemCheck, b, s
<1> HIDE DEF r
<1> QED
  BY <1>2, <1>3, <1>4

LEMMA CheckSetMoves ==
    ASSUME TypeInv, NEW q \in Requests, CheckTestcaseSet(q), ~Finish(q)
    PROVE  \E r \in Request : /\ Goto(q, r) /\ r.pc = "check_archive" /\ r.problem = req[q].problem
                              /\ r.statement = req[q].statement
                              /\ r.set \in DOMAIN sets[r.problem]
<1> DEFINE t == GetCurrentTestcaseSet(req[q].problem)
           r == [req[q] EXCEPT !.pc = "check_archive", !.set = t]
<1>1. req[q].problem \in Problems /\ req[q] \in Request
  BY RequestTyped DEF CheckTestcaseSet
<1>2. t # 0 /\ Goto(q, r)
  BY DEF CheckTestcaseSet
<1>3. t \in Nat /\ t \in DOMAIN sets[req[q].problem]
  BY <1>1, <1>2, CurrentSetFound DEF TypeInv
<1> HIDE DEF t
<1>4. r \in Request /\ r.pc = "check_archive" /\ r.problem = req[q].problem
      /\ r.statement = req[q].statement /\ r.set = t
  BY <1>1, <1>3 DEF Request, Places, Checking
<1> HIDE DEF r
<1> QED
  BY <1>2, <1>3, <1>4

LEMMA CheckArchiveMoves ==
    ASSUME TypeInv, NEW q \in Requests, CheckArchive(q)
    PROVE  \E r \in Request : /\ Goto(q, r) /\ r.pc = "check_save" /\ r.problem = req[q].problem
                              /\ r.statement = req[q].statement /\ r.set = req[q].set
<1>1. req[q] \in Request
  BY RequestTyped
<1>2. PICK codes : Goto(q, [req[q] EXCEPT !.pc = "check_save", !.valid = problemCheckSummary(codes)])
  BY DEF CheckArchive
<1> DEFINE v == problemCheckSummary(codes)
           r == [req[q] EXCEPT !.pc = "check_save", !.valid = v]
<1>3. v \in BOOLEAN
  BY DEF problemCheckSummary
<1> HIDE DEF v
<1>4. r \in Request /\ r.pc = "check_save" /\ r.problem = req[q].problem
      /\ r.statement = req[q].statement /\ r.set = req[q].set
  <2>1. "check_save" \in Places
    BY DEF Places, Checking
  <2> QED
    BY <1>1, <1>3, <2>1 DEF Request
<1>5. Goto(q, r)
  BY <1>2 DEF v
<1> HIDE DEF r
<1> QED
  BY <1>4, <1>5

\* Submit, and a decision that asks for changes.
LEMMA TransitionMoves ==
    ASSUME TypeInv, NEW q \in Requests, NEW a \in Users, NEW p \in Problems, NEW to \in Statuses,
           Goto(q, Transition(By(Seen(At("transition", p)), a), to))
    PROVE  \E r \in Request : /\ Goto(q, r) /\ r.pc = "transition" /\ r.problem = p /\ r.to = to
                              /\ r.seen = problem[p].status /\ r.actor = a
<1> DEFINE b == At("transition", p)
           c == Seen(b)
           d == By(c, a)
           e == Transition(d, to)
<1>1. b \in Request /\ b.problem = p
  BY NewRequest DEF Places
<1> HIDE DEF b
<1>2. c \in Request /\ c.problem = p /\ c.seen = problem[p].status
  BY <1>1, SeenRequest DEF TypeInv
<1> HIDE DEF c
<1>3. d \in Request /\ d.problem = p /\ d.seen = problem[p].status /\ d.actor = a
  BY <1>2, ActorsRequest
<1> HIDE DEF d
<1>4. /\ e \in Request /\ e.pc = "transition" /\ e.problem = p /\ e.to = to
      /\ e.seen = problem[p].status /\ e.actor = a
  BY <1>3, TransitionRequest
<1> HIDE DEF e
<1>5. Goto(q, e)
  BY DEF b, c, d, e
<1> QED
  BY <1>4, <1>5

LEMMA ApproveMoves ==
    ASSUME TypeInv, NEW q \in Requests, NEW a \in Users, NEW p \in Problems,
           Goto(q, By(Seen(At("ready_statement", p)), a))
    PROVE  \E r \in Request : /\ Goto(q, r) /\ r.pc = "ready_statement" /\ r.problem = p
                              /\ r.seen = problem[p].status /\ r.actor = a
<1> DEFINE b == At("ready_statement", p)
           c == Seen(b)
           d == By(c, a)
<1>1. b \in Request /\ b.pc = "ready_statement" /\ b.problem = p
  BY NewRequest DEF Places, Approving
<1> HIDE DEF b
<1>2. c \in Request /\ c.pc = "ready_statement" /\ c.problem = p /\ c.seen = problem[p].status
  BY <1>1, SeenRequest DEF TypeInv
<1> HIDE DEF c
<1>3. /\ d \in Request /\ d.pc = "ready_statement" /\ d.problem = p
      /\ d.seen = problem[p].status /\ d.actor = a
  BY <1>2, ActorsRequest
<1> HIDE DEF d
<1>4. Goto(q, d)
  BY DEF b, c, d
<1> QED
  BY <1>3, <1>4

SameApproval(r, s) == r.problem = s.problem /\ r.seen = s.seen /\ r.actor = s.actor

LEMMA ReadyMoves ==
    ASSUME TypeInv, NEW q \in Requests,
           ReadyStatement(q) \/ ReadyTestcaseSet(q) \/ (ensurePublishable(q) /\ ~Finish(q))
    PROVE  \E r \in Request :
             /\ Goto(q, r) /\ SameApproval(r, req[q])
             /\ \/ /\ ReadyStatement(q) /\ r.pc = "ready_set"
                   /\ r.statement # 0 => HasStatement(r.problem)
                \/ /\ ReadyTestcaseSet(q) /\ r.pc = "ready_check" /\ r.statement = req[q].statement
                   /\ r.set # 0 => HasSet(r.problem)
                \/ /\ ensurePublishable(q) /\ r.pc = "transition" /\ r.to = "published"
                   /\ req[q].statement # 0 /\ req[q].set # 0 /\ HasValidCheck(r.problem)
<1>1. req[q] \in Request /\ req[q].problem \in Problems
  BY RequestTyped DEF ReadyStatement, ReadyTestcaseSet, ensurePublishable
<1> DEFINE p == req[q].problem
<1>2. CASE ReadyStatement(q)
  <2> DEFINE s == GetCurrentProblemStatement(p)
             r == [req[q] EXCEPT !.pc = "ready_set", !.statement = s]
  <2>1. s \in Nat /\ (s # 0 => HasStatement(p))
    BY <1>1, CurrentStatementFound DEF TypeInv
  <2>2. Goto(q, r)
    BY <1>2 DEF ReadyStatement
  <2> HIDE DEF s
  <2>3. r \in Request /\ r.pc = "ready_set" /\ SameApproval(r, req[q]) /\ r.statement = s
        /\ r.problem = p
    BY <1>1, <2>1 DEF Request, Places, Approving, SameApproval
  <2> HIDE DEF r, p
  <2>4. r.statement # 0 => HasStatement(r.problem)
    BY <2>1, <2>3
  <2> QED
    BY <1>2, <2>2, <2>3, <2>4
<1>3. CASE ReadyTestcaseSet(q)
  <2> DEFINE t == GetCurrentTestcaseSet(p)
             r == [req[q] EXCEPT !.pc = "ready_check", !.set = t]
  <2>1. t \in Nat /\ (t # 0 => HasSet(p))
    BY <1>1, CurrentSetFound DEF TypeInv
  <2>2. Goto(q, r)
    BY <1>3 DEF ReadyTestcaseSet
  <2> HIDE DEF t
  <2>3. r \in Request /\ r.pc = "ready_check" /\ SameApproval(r, req[q]) /\ r.set = t
        /\ r.problem = p /\ r.statement = req[q].statement
    BY <1>1, <2>1 DEF Request, Places, Approving, SameApproval
  <2> HIDE DEF r, p
  <2>4. r.set # 0 => HasSet(r.problem)
    BY <2>1, <2>3
  <2> QED
    BY <1>3, <2>2, <2>3, <2>4
<1>4. CASE ensurePublishable(q) /\ ~Finish(q)
  <2> DEFINE r == Transition(req[q], "published")
  <2>1. /\ Goto(q, r)
        /\ loadProblemAuthoringReadiness(p, req[q].statement, req[q].set) = <<>>
    BY <1>4 DEF ensurePublishable
  <2>2. req[q].statement # 0 /\ req[q].set # 0 /\ HasValidCheck(p)
    BY <1>1, <2>1, ReadyMeansChecked DEF TypeInv
  <2>3. r \in Request /\ r.pc = "transition" /\ r.to = "published" /\ SameApproval(r, req[q])
        /\ r.problem = p
    BY <1>1, TransitionRequest DEF Statuses, SameApproval
  <2> HIDE DEF r, p
  <2>4. HasValidCheck(r.problem)
    BY <2>2, <2>3
  <2> QED
    BY <1>4, <2>1, <2>2, <2>3, <2>4
<1> QED
  BY <1>2, <1>3, <1>4

-----------------------------------------------------------------------------
(* The tables keep their types and lose nothing.                           *)

LEMMA TypeInitially == Init => TypeInv
<1> SUFFICES ASSUME Init
             PROVE  TypeInv
  OBVIOUS
<1>1. RowsTyped
  <2>1. Absent \in Row /\ Absent.archivedFrom = None
    BY DEF Absent, ProblemRow, Row, Visibilities
  <2> HIDE DEF Absent
  <2> QED
    BY <2>1 DEF Init, RowsTyped
<1>2. StatementsTyped /\ SetsTyped /\ ChecksTyped
  <2>1. /\ <<>> \in Seq(BOOLEAN) /\ <<>> \in Seq(SetRow) /\ <<>> \in Seq(CheckRow)
        /\ DOMAIN <<>> = {}
    BY EmptySeq
  <2> QED
    BY <2>1 DEF Init, StatementsTyped, SetsTyped, ChecksTyped
<1>3. StorageTyped
  BY WorkflowAssumption DEF Init, StorageTyped
<1>4. RequestsInv
  <2>1. Knows(Idle) /\ \A q \in Requests : Holds(q, Idle)
    BY DEF Knows, Holds, Idle, Uploading, Checking, Approving
  <2> QED
    BY <2>1, IdleRequest DEF Init, RequestsInv
<1> QED
  BY <1>1, <1>2, <1>3, <1>4 DEF TypeInv, TablesInv

\* The steps that write a problem's row outside a request with a lock.
RowStep == HandleCreateProblem \/ HandleUpdateProblem \/ HandleArchiveProblem \/ HandleRestoreProblem

LEMMA RowStepWrites ==
    ASSUME TypeInv, RowStep
    PROVE  /\ RowsTyped' /\ RowsGrow
           /\ UNCHANGED <<statements, sets, checks, review, objects, keys, lock, req, unknown, faults>>
           /\ \A p \in Problems : Locked(p) => problem'[p] = problem[p] \/ ~GetProblem(p)
           /\ \A p \in Problems : Standing(p)' = Standing(p) \/ Standing(p)' = "draft"
<1> SUFFICES ASSUME NEW p \in Problems,
                    \/ \E a \in Users : CreateProblem(a, p) \/ ArchiveProblem(a, p) \/ RestoreProblem(a, p)
                    \/ \E a \in Users, v \in VisibilityInputs : UpdateProblem(a, p, v)
             PROVE  /\ RowsTyped' /\ RowsGrow
                    /\ UNCHANGED <<statements, sets, checks, review, objects, keys, lock, req, unknown,
                                   faults>>
                    /\ \A o \in Problems : Locked(o) => problem'[o] = problem[o] \/ ~GetProblem(o)
                    /\ \A o \in Problems : Standing(o)' = Standing(o) \/ Standing(o)' = "draft"
  BY DEF RowStep, HandleCreateProblem, HandleUpdateProblem, HandleArchiveProblem, HandleRestoreProblem
<1>1. RowsTyped /\ problem[p] \in Row
      /\ (problem[p].archivedFrom # None => problem[p].status = "archived")
  BY DEF TypeInv, TablesInv, RowsTyped
<1>2. UNCHANGED <<statements, sets, checks, review, objects, keys, lock, req, unknown, faults>>
  BY DEF CreateProblem, UpdateProblem, ArchiveProblem, RestoreProblem
<1>3. \E row \in Row : /\ problem' = [problem EXCEPT ![p] = row]
                       /\ row.status # None /\ (row.archivedFrom # None => row.status = "archived")
                       /\ GetProblem(p) => row.owner = problem[p].owner
                       /\ ~GetProblem(p) => row.status = "draft"
                       /\ Locked(p) => ~GetProblem(p)
                       /\ GetProblem(p) => LET s == IF row.status = "archived" THEN row.archivedFrom
                                                    ELSE row.status
                                           IN  s = Standing(p) \/ s = "draft"
  <2>1. ASSUME NEW a \in Users, CreateProblem(a, p)
        PROVE  <1>3!:
    <3>1. PICK v \in VisibilityInputs \cup {"private"} :
             problem' = [problem EXCEPT ![p] = ProblemRow("draft", a, v, None)]
      BY <2>1 DEF CreateProblem, applyProblemDefaults, InsertProblem
    <3> DEFINE row == ProblemRow("draft", a, v, None)
    <3>2. row \in Row /\ row.status = "draft" /\ row.archivedFrom = None /\ row.status # None
      BY WorkflowAssumption DEF ProblemRow, Row, Statuses, Visibilities
    <3>3. ~GetProblem(p)
      BY <2>1 DEF CreateProblem, Absent, ProblemRow, GetProblem
    <3> HIDE DEF row
    <3>4. problem' = [problem EXCEPT ![p] = row]
      BY <3>1 DEF row
    <3> QED
      BY <3>2, <3>3, <3>4
  <2>2. ASSUME NEW a \in Users, NEW v \in VisibilityInputs, UpdateProblem(a, p, v)
        PROVE  <1>3!:
    <3> DEFINE row == [problem[p] EXCEPT !.visibility = v]
    <3>1. row \in Row /\ row.status = problem[p].status /\ row.archivedFrom = problem[p].archivedFrom
          /\ row.owner = problem[p].owner
      BY <1>1, WorkflowAssumption DEF Row
    <3>2. problem' = [problem EXCEPT ![p] = row] /\ GetProblem(p) /\ ~Locked(p)
      BY <2>2 DEF UpdateProblem
    <3> HIDE DEF row
    <3> QED
      BY <1>1, <3>1, <3>2 DEF GetProblem, Standing
  <2>3. ASSUME NEW a \in Users, ArchiveProblem(a, p)
        PROVE  <1>3!:
    <3> DEFINE row == ArchiveRow(problem[p])
    <3>1. problem' = [problem EXCEPT ![p] = row] /\ GetProblem(p) /\ ~Locked(p)
      BY <2>3 DEF ArchiveProblem
    <3>2. /\ row \in Row /\ row.status = "archived" /\ row.owner = problem[p].owner
          /\ row.archivedFrom = Standing(p)
      <4>1. CASE problem[p].status = "archived"
        BY <1>1, <4>1 DEF ArchiveRow, Row, Statuses, Standing
      <4>2. CASE problem[p].status # "archived"
        BY <1>1, <3>1, <4>2 DEF ArchiveRow, Row, Statuses, Standing, GetProblem
      <4> QED
        BY <4>1, <4>2
    <3>3. "archived" # None
      BY WorkflowAssumption DEF Statuses
    <3> HIDE DEF row
    <3> QED
      BY <3>1, <3>2, <3>3
  <2>4. ASSUME NEW a \in Users, RestoreProblem(a, p)
        PROVE  <1>3!:
    <3> DEFINE row == RestoreRow(problem[p])
    <3>1. problem' = [problem EXCEPT ![p] = row] /\ problem[p].status = "archived" /\ ~Locked(p)
      BY <2>4 DEF RestoreProblem
    <3>2. /\ row \in Row /\ row.archivedFrom = None /\ row.owner = problem[p].owner
          /\ row.status \in Statuses \ {"archived"}
          /\ row.status = problem[p].archivedFrom \/ row.status = "draft"
      BY <1>1, <3>1 DEF RestoreRow, Row, Statuses
    <3>3. GetProblem(p) /\ row.status # None /\ row.status # "archived"
      BY <3>1, <3>2, WorkflowAssumption DEF GetProblem, Statuses
    <3> HIDE DEF row
    <3> QED
      BY <3>1, <3>2, <3>3 DEF Standing
  <2> QED
    BY <2>1, <2>2, <2>3, <2>4
<1>4. PICK row \in Row : <1>3!(row)
  BY <1>3
<1>5. RowsTyped' /\ RowsGrow
  BY <1>1, <1>4, RowWritten
<1>6. problem'[p] = row /\ \A o \in Problems : o # p => problem'[o] = problem[o]
  BY <1>1, <1>4 DEF RowsTyped
<1>7. \A o \in Problems : Locked(o) => problem'[o] = problem[o] \/ ~GetProblem(o)
  BY <1>4, <1>6
<1>8. ASSUME NEW o \in Problems
      PROVE  Standing(o)' = Standing(o) \/ Standing(o)' = "draft"
  <2>1. CASE o # p
    BY <1>6, <2>1 DEF Standing
  <2>2. CASE o = p /\ GetProblem(p)
    BY <1>4, <1>6, <2>2 DEF Standing
  <2>3. CASE o = p /\ ~GetProblem(p)
    BY <1>4, <1>6, <2>3 DEF Standing
  <2> QED
    BY <2>1, <2>2, <2>3
<1> QED
  BY <1>2, <1>5, <1>7, <1>8

\* Rows written outside a request leave every request what it knows and holds.
LEMMA RowStepTypes ==
    ASSUME TypeInv, RowStep
    PROVE  TypeInv' /\ Grows
<1>1. /\ RowsTyped' /\ RowsGrow
      /\ UNCHANGED <<statements, sets, checks, review, objects, keys, lock, req, unknown, faults>>
      /\ \A p \in Problems : Locked(p) => problem'[p] = problem[p] \/ ~GetProblem(p)
  BY RowStepWrites
<1>2. UNCHANGED <<review, objects, keys, unknown>> /\ UNCHANGED faults
      /\ UNCHANGED <<statements, sets, checks, keys>> /\ UNCHANGED lock /\ UNCHANGED req
  BY <1>1
<1>3. StorageTyped'
  BY <1>2, StorageUntouched DEF TypeInv, TablesInv
<1>4. TablesInv' /\ Grows
  BY <1>1, <1>2, <1>3, OnlyRowsWritten DEF TypeInv
<1>5. ASSUME NEW q \in Requests
      PROVE  Knows(req[q])' /\ Holds(q, req[q])'
  <2>1. req[q] \in Request /\ Knows(req[q]) /\ Holds(q, req[q])
    BY RequestTyped
  <2>2. PICK u \in Request : u = req[q]
    BY <2>1
  <2>3. Knows(u)'
    BY <1>4, <2>1, <2>2, StillKnows DEF TypeInv
  <2>4. Holds(q, u)'
    <3>1. CASE u.pc \in {"statement", "set"}
      <4>1. /\ u.problem \in Problems /\ GetProblem(u.problem)
            /\ lock[u.problem] = q /\ u.seen = problem[u.problem].status
        BY <2>1, <2>2, <3>1 DEF Knows, Holds
      <4>2. Locked(u.problem)
        BY <4>1, WorkflowAssumption DEF Locked
      <4> QED
        BY <1>1, <1>2, <4>1, <4>2 DEF Holds
    <3>2. CASE u.pc \notin {"statement", "set"}
      BY <3>2 DEF Holds
    <3> QED
      BY <3>1, <3>2
  <2>5. req'[q] = u
    BY <1>2, <2>2
  <2> QED
    BY <2>3, <2>4, <2>5 DEF Knows, Holds, GetProblem
<1>6. RequestsInv'
  BY <1>2, <1>5 DEF TypeInv, RequestsInv
<1> QED
  BY <1>4, <1>6 DEF TypeInv

\* The steps of a request that write nothing but its place, a lock or a key.
ReadStep(q) ==
    \/ HandleCreateStatement(q) \/ HandleUploadTestcases(q) \/ LockForTestcaseSet(q)
    \/ RollBack(q) \/ Crash(q)
    \/ HandleRunProblemCheck(q) \/ CheckTestcaseSet(q) \/ CheckArchive(q)
    \/ HandleSubmitReview(q) \/ HandleDecideReview(q)
    \/ ReadyStatement(q) \/ ReadyTestcaseSet(q) \/ ensurePublishable(q)

WriteStep(q) ==
    \/ CreateProblemStatement(q) \/ PutArchive(q) \/ CreateTestcaseSet(q) \/ DeleteArchive(q)
    \/ CompleteProblemCheckRun(q) \/ transition(q)

LEMMA ReadStepWrites ==
    ASSUME TypeInv, NEW q \in Requests, ReadStep(q)
    PROVE  /\ TablesInv' /\ Grows
           /\ UNCHANGED <<problem, statements, sets, checks, review, objects, unknown>>
<1>1. /\ UNCHANGED <<problem, statements, sets, checks, review, objects, unknown>>
      /\ Fault \/ UNCHANGED faults
  BY DEF ReadStep, HandleCreateStatement, CreateStatement, HandleUploadTestcases,
         UploadTestcaseArchive, LockForTestcaseSet, RollBack, Crash, HandleRunProblemCheck,
         RunProblemCheck, CheckTestcaseSet, CheckArchive, HandleSubmitReview, Submit,
         HandleDecideReview, Decide, ReadyStatement, ReadyTestcaseSet, ensurePublishable
<1>2. keys' \in [Problems -> 0 .. MaxUploads] /\ KeysGrow
  <2>1. CASE UNCHANGED keys
    BY <2>1, KeysUntouched DEF TypeInv, TablesInv, StorageTyped
  <2>2. CASE HandleUploadTestcases(q)
    <3>1. PICK p \in Problems : keys[p] < MaxUploads /\ keys' = [keys EXCEPT ![p] = @ + 1]
      BY <2>2 DEF HandleUploadTestcases, UploadTestcaseArchive
    <3>2. keys \in [Problems -> 0 .. MaxUploads] /\ MaxUploads \in Nat
      BY WorkflowAssumption DEF TypeInv, TablesInv, StorageTyped
    <3> QED
      BY <3>1, <3>2 DEF KeysGrow
  <2> QED
    BY <2>1, <2>2
    DEF ReadStep, HandleCreateStatement, CreateStatement, LockForTestcaseSet, RollBack, Crash,
        HandleRunProblemCheck, RunProblemCheck, CheckTestcaseSet, CheckArchive, HandleSubmitReview,
        Submit, HandleDecideReview, Decide, ReadyStatement, ReadyTestcaseSet, ensurePublishable
<1>3. UNCHANGED review /\ UNCHANGED objects /\ UNCHANGED unknown
      /\ UNCHANGED <<problem, statements, sets, checks>>
  BY <1>1
<1>4. StorageTyped'
  BY <1>1, <1>2, <1>3, FaultTyped DEF TypeInv, TablesInv, StorageTyped
<1> QED
  BY <1>1, <1>2, <1>3, <1>4, OnlyStorageWritten DEF TypeInv

\* A request that moves and locks nothing.
LEMMA MovesUnlocked ==
    ASSUME TypeInv, TablesInv', Grows, NEW q \in Requests, NEW r \in Request, Goto(q, r),
           UNCHANGED <<problem, lock>>, Knows(r), r.pc \notin {"statement", "set"}
    PROVE  TypeInv'
<1>1. lock' \in [Problems -> Requests \cup {None}] /\ LockRespected(q)
  BY LockKept DEF TypeInv
<1>2. Knows(r)'
  BY StillKnows DEF TypeInv
<1>3. Holds(q, r)'
  BY DEF Holds
<1> QED
  BY <1>1, <1>2, <1>3, RequestMoves

LEMMA EndsUnlocked ==
    ASSUME TypeInv, TablesInv', Grows, NEW q \in Requests, Finish(q), UNCHANGED <<problem, lock>>
    PROVE  TypeInv'
BY LockKept, RequestEnds DEF TypeInv

LEMMA ReadStepTypes ==
    ASSUME TypeInv, NEW q \in Requests, ReadStep(q)
    PROVE  TypeInv'
<1>1. /\ TablesInv' /\ Grows
      /\ UNCHANGED <<problem, statements, sets, checks, review, objects, unknown>>
      /\ TablesInv /\ RequestsInv
  BY ReadStepWrites DEF TypeInv
<1>2. UNCHANGED problem
  BY <1>1
<1>3. /\ req[q] \in Request /\ Knows(req[q]) /\ Holds(q, req[q])
      /\ req[q].pc # "idle" => req[q].problem \in Problems /\ GetProblem(req[q].problem)
  BY RequestTyped
<1>4. ASSUME NEW a \in Users, NEW p \in Problems, CreateStatement(q, a, p)
      PROVE  TypeInv'
  <2>1. PICK r \in Request : /\ Goto(q, r) /\ r.pc = "statement" /\ r.problem = p
                             /\ r.seen = problem[p].status
    BY <1>4, CreateStatementMoves
  <2>2. GetProblem(p) /\ LockProblemForUpdate(q, p)
    BY <1>4 DEF CreateStatement
  <2>3. lock' \in [Problems -> Requests \cup {None}] /\ LockRespected(q) /\ lock'[p] = q
    BY <1>1, <1>2, <2>2, LockTaken
  <2>4. Knows(r)'
    BY <1>2, <2>1, <2>2 DEF Knows, Uploading, Checking, Approving, GetProblem
  <2>5. Holds(q, r)'
    BY <1>2, <2>1, <2>3 DEF Holds
  <2> QED
    BY <1>1, <2>1, <2>3, <2>4, <2>5, RequestMoves
<1>5. ASSUME NEW a \in Users, NEW p \in Problems, NEW z \in DOMAIN Uploads,
             UploadTestcaseArchive(q, a, p, z)
      PROVE  TypeInv'
  <2>1. PICK r \in Request : /\ Goto(q, r) /\ r.pc = "put" /\ r.problem = p /\ r.archive = z
                             /\ r.key = <<p, keys[p] + 1>> /\ r.key \in Keys
    BY <1>5, UploadMoves
  <2>2. GetProblem(p) /\ UNCHANGED lock
    BY <1>5 DEF UploadTestcaseArchive
  <2>3. keys'[p] = keys[p] + 1 /\ keys'[p] \in Int
    BY <1>1, <1>5, WorkflowAssumption DEF UploadTestcaseArchive, TablesInv, StorageTyped
  <2>4. r.key[1] = p /\ r.key[2] <= keys'[p]
    BY <2>1, <2>3
  <2>5. Knows(r)'
    BY <1>2, <2>1, <2>2, <2>4 DEF Knows, Uploading, Checking, Approving, GetProblem
  <2>6. Holds(q, r)'
    BY <2>1 DEF Holds
  <2>7. lock' \in [Problems -> Requests \cup {None}] /\ LockRespected(q)
    BY <1>1, <1>2, <2>2, LockKept
  <2> QED
    BY <1>1, <2>1, <2>5, <2>6, <2>7, RequestMoves
<1>6. CASE LockForTestcaseSet(q)
  <2>1. PICK r \in Request : /\ Goto(q, r) /\ r.pc = "set" /\ SameUpload(r, req[q])
                             /\ r.seen = problem[r.problem].status
    BY <1>6, LockForSetMoves
  <2>2. req[q].pc = "stored" /\ LockProblemForUpdate(q, req[q].problem)
    BY <1>6 DEF LockForTestcaseSet
  <2>3. Knows(r)
    BY <1>3, <2>1, <2>2 DEF Knows, SameUpload, Uploading, Checking, Approving
  <2>4. PICK p \in Problems : p = r.problem /\ LockProblemForUpdate(q, p)
    BY <1>3, <2>1, <2>2 DEF SameUpload
  <2>5. lock' \in [Problems -> Requests \cup {None}] /\ LockRespected(q) /\ lock'[p] = q
    BY <1>1, <1>2, <2>4, LockTaken
  <2>6. Knows(r)'
    BY <1>1, <2>3, StillKnows
  <2>7. Holds(q, r)'
    BY <1>2, <2>1, <2>4, <2>5 DEF Holds
  <2> QED
    BY <1>1, <2>1, <2>5, <2>6, <2>7, RequestMoves
<1>7. CASE RollBack(q) \/ Crash(q)
  <2>1. lock' \in [Problems -> Requests \cup {None}] /\ LockRespected(q)
    BY <1>1, <1>2, <1>7, LockReleased DEF RollBack, Crash
  <2>2. CASE Finish(q)
    BY <1>1, <2>1, <2>2, RequestEnds
  <2>3. CASE req[q].pc = "set" /\ Goto(q, [req[q] EXCEPT !.pc = "cleanup"])
    <3>1. PICK r \in Request : Goto(q, r) /\ r.pc = "cleanup" /\ SameUpload(r, req[q])
      BY <2>3, UploadGoesOn DEF Places, Uploading
    <3>2. Knows(r)
      BY <1>3, <2>3, <3>1 DEF Knows, SameUpload, Uploading, Checking, Approving
    <3>3. Knows(r)' /\ Holds(q, r)'
      BY <1>1, <3>1, <3>2, StillKnows DEF Holds
    <3> QED
      BY <1>1, <2>1, <3>1, <3>3, RequestMoves
  <2> QED
    BY <1>7, <2>2, <2>3 DEF RollBack, Crash
<1>8. ASSUME NEW a \in Users, NEW p \in Problems, RunProblemCheck(q, a, p)
      PROVE  TypeInv'
  <2>1. PICK r \in Request : /\ Goto(q, r) /\ r.pc = "check_set" /\ r.problem = p
                             /\ r.statement \in DOMAIN statements[p]
    BY <1>8, RunCheckMoves
  <2>2. GetProblem(p) /\ UNCHANGED <<problem, lock>>
    BY <1>8 DEF RunProblemCheck
  <2>3. Knows(r)
    BY <2>1, <2>2 DEF Knows, Uploading, Checking, Approving
  <2> QED
    BY <1>1, <2>1, <2>2, <2>3, MovesUnlocked
<1>9. CASE CheckTestcaseSet(q)
  <2>1. UNCHANGED <<problem, lock>> /\ req[q].pc = "check_set"
    BY <1>9 DEF CheckTestcaseSet
  <2>2. CASE ~Finish(q)
    <3>1. PICK r \in Request : /\ Goto(q, r) /\ r.pc = "check_archive" /\ r.problem = req[q].problem
                               /\ r.statement = req[q].statement
                               /\ r.set \in DOMAIN sets[r.problem]
      BY <1>9, <2>2, CheckSetMoves
    <3>2. Knows(r)
      BY <1>3, <2>1, <3>1 DEF Knows, Uploading, Checking, Approving
    <3> QED
      BY <1>1, <2>1, <3>1, <3>2, MovesUnlocked
  <2> QED
    BY <1>1, <2>1, <2>2, EndsUnlocked
<1>10. CASE CheckArchive(q)
  <2>1. UNCHANGED <<problem, lock>> /\ req[q].pc = "check_archive"
    BY <1>10 DEF CheckArchive
  <2>2. PICK r \in Request : /\ Goto(q, r) /\ r.pc = "check_save" /\ r.problem = req[q].problem
                             /\ r.statement = req[q].statement /\ r.set = req[q].set
    BY <1>10, CheckArchiveMoves
  <2>3. Knows(r)
    BY <1>3, <2>1, <2>2 DEF Knows, Uploading, Checking, Approving
  <2> QED
    BY <1>1, <2>1, <2>2, <2>3, MovesUnlocked
<1>11. ASSUME NEW a \in Users, NEW p \in Problems,
              Submit(q, a, p) \/ \E d \in Decisions : Decide(q, a, p, d)
       PROVE  TypeInv'
  <2>1. /\ GetProblem(p) /\ UNCHANGED <<problem, lock>>
        /\ problem[p].status \in {"draft", "changes_requested", "in_review"}
    BY <1>11 DEF Submit, Decide
  <2>2. CASE problem[p].status = "in_review" /\ Goto(q, By(Seen(At("ready_statement", p)), a))
    <3>1. PICK r \in Request : /\ Goto(q, r) /\ r.pc = "ready_statement" /\ r.problem = p
                               /\ r.seen = problem[p].status /\ r.actor = a
      BY <2>2, ApproveMoves
    <3>2. Knows(r)
      BY <2>1, <2>2, <3>1 DEF Knows, Uploading, Checking, Approving
    <3> QED
      BY <1>1, <2>1, <3>1, <3>2, MovesUnlocked
  <2>3. ASSUME NEW to \in {"in_review", "changes_requested"},
               Goto(q, Transition(By(Seen(At("transition", p)), a), to))
        PROVE  TypeInv'
    <3>1. to \in Statuses \ {"archived"}
      BY DEF Statuses
    <3>2. PICK r \in Request : /\ Goto(q, r) /\ r.pc = "transition" /\ r.problem = p /\ r.to = to
                               /\ r.seen = problem[p].status /\ r.actor = a
      BY <2>3, <3>1, TransitionMoves
    <3>3. Knows(r)
      BY <2>1, <3>1, <3>2 DEF Knows, Uploading, Checking, Approving, Statuses
    <3> QED
      BY <1>1, <2>1, <3>2, <3>3, MovesUnlocked
  <2> QED
    BY <1>11, <2>2, <2>3 DEF Submit, Decide
<1>12. CASE ReadyStatement(q) \/ ReadyTestcaseSet(q) \/ ensurePublishable(q)
  <2>1. UNCHANGED <<problem, lock>> /\ req[q].pc \in Approving
    BY <1>12 DEF ReadyStatement, ReadyTestcaseSet, ensurePublishable, Approving
  <2>2. CASE Finish(q)
    BY <1>1, <2>1, <2>2, EndsUnlocked
  <2>3. CASE ~Finish(q)
    <3>1. PICK r \in Request : /\ Goto(q, r) /\ SameApproval(r, req[q])
                               /\ \/ r.pc \in {"ready_set", "ready_check"}
                                  \/ r.pc = "transition" /\ r.to = "published"
      BY <1>12, <2>3, ReadyMoves
    <3>2. Knows(r)
      BY <1>3, <2>1, <3>1 DEF Knows, SameApproval, Uploading, Checking, Approving, Statuses
    <3> QED
      BY <1>1, <2>1, <3>1, <3>2, MovesUnlocked
  <2> QED
    BY <2>2, <2>3
<1> QED
  BY <1>4, <1>5, <1>6, <1>7, <1>8, <1>9, <1>10, <1>11, <1>12
  DEF ReadStep, HandleCreateStatement, HandleUploadTestcases, HandleRunProblemCheck,
      HandleSubmitReview, HandleDecideReview

\* A new version of the problem whose row the request has locked.
LEMMA CreateProblemStatementTypes ==
    ASSUME TypeInv, NEW q \in Requests, CreateProblemStatement(q)
    PROVE  TypeInv' /\ Grows
<1>1. /\ TablesInv /\ RequestsInv /\ req[q].pc = "statement"
      /\ req[q].problem \in Problems /\ Holds(q, req[q])
  BY RequestTyped DEF CreateProblemStatement, TypeInv
<1>2. PICK p \in Problems : p = req[q].problem
  BY <1>1
<1>3. lock[p] = q /\ req[q].seen = problem[p].status
  BY <1>1, <1>2 DEF Holds
<1>4. /\ statements' = [statements EXCEPT ![p] = InsertProblemStatement(p)]
      /\ demotePublishedProblem(p, problem[p].status)
      /\ lock' = Released(q) /\ Finish(q)
      /\ UNCHANGED sets /\ UNCHANGED checks /\ UNCHANGED keys /\ UNCHANGED faults
      /\ UNCHANGED <<review, objects, keys, unknown>>
  BY <1>2, <1>3 DEF CreateProblemStatement
<1>5. RowsTyped' /\ RowsGrow /\ \A o \in Problems : o # p => problem'[o] = problem[o]
  BY <1>1, <1>4, Demoted DEF TablesInv
<1>6. StatementsTyped' /\ StatementsGrow
  BY <1>1, <1>4, StatementWritten
<1>7. SetsTyped' /\ SetsGrow
  BY <1>1, <1>4, SetsUntouched DEF TablesInv
<1>8. ChecksTyped' /\ ChecksGrow
  BY <1>1, <1>4, <1>6, <1>7, ChecksUntouched DEF TablesInv
<1>9. StorageTyped' /\ KeysGrow
  BY <1>1, <1>4, StorageUntouched DEF TablesInv
<1>10. TablesInv' /\ Grows
  BY <1>5, <1>6, <1>7, <1>8, <1>9 DEF TablesInv, Grows
<1>11. lock' \in [Problems -> Requests \cup {None}] /\ LockRespected(q)
  BY <1>1, <1>3, <1>4, <1>5, LockReleased
<1> QED
  BY <1>4, <1>10, <1>11, RequestEnds

LEMMA CreateTestcaseSetTypes ==
    ASSUME TypeInv, NEW q \in Requests, CreateTestcaseSet(q)
    PROVE  TypeInv' /\ Grows
<1>1. /\ TablesInv /\ RequestsInv /\ req[q].pc = "set"
      /\ req[q].problem \in Problems /\ Knows(req[q]) /\ Holds(q, req[q])
  BY RequestTyped DEF CreateTestcaseSet, TypeInv
<1>2. PICK p \in Problems : p = req[q].problem
  BY <1>1
<1>3. /\ lock[p] = q /\ req[q].seen = problem[p].status
      /\ req[q].key \in Keys /\ req[q].archive \in DOMAIN Uploads
  BY <1>1, <1>2 DEF Holds, Knows, Uploading
<1>4. /\ sets' = [sets EXCEPT ![p] = InsertTestcaseSet(p, req[q].key, req[q].archive)]
      /\ demotePublishedProblem(p, problem[p].status)
      /\ lock' = Released(q)
      /\ UNCHANGED statements /\ UNCHANGED checks /\ UNCHANGED keys
      /\ UNCHANGED review /\ UNCHANGED objects
  BY <1>2, <1>3 DEF CreateTestcaseSet, WriteTestcaseSet
<1>5. RowsTyped' /\ RowsGrow /\ \A o \in Problems : o # p => problem'[o] = problem[o]
  BY <1>1, <1>4, Demoted DEF TablesInv
<1>6. StatementsTyped' /\ StatementsGrow
  BY <1>1, <1>4, StatementsUntouched DEF TablesInv
<1>7. SetsTyped' /\ SetsGrow
  BY <1>1, <1>3, <1>4, SetWritten
<1>8. ChecksTyped' /\ ChecksGrow
  BY <1>1, <1>4, <1>6, <1>7, ChecksUntouched DEF TablesInv
<1>9. Fault \/ UNCHANGED faults
  BY DEF CreateTestcaseSet
<1>10. unknown' \subseteq Keys
  BY <1>1, <1>3 DEF CreateTestcaseSet, TablesInv, StorageTyped
<1>11. StorageTyped' /\ KeysGrow
  BY <1>1, <1>4, <1>9, <1>10, FaultTyped, KeysUntouched DEF TablesInv, StorageTyped
<1>12. TablesInv' /\ Grows
  BY <1>5, <1>6, <1>7, <1>8, <1>11 DEF TablesInv, Grows
<1>13. lock' \in [Problems -> Requests \cup {None}] /\ LockRespected(q)
  BY <1>1, <1>3, <1>4, <1>5, LockReleased
<1>14. CASE Finish(q)
  BY <1>12, <1>13, <1>14, RequestEnds
<1>15. CASE Goto(q, [req[q] EXCEPT !.pc = "cleanup"])
  <2>1. PICK r \in Request : Goto(q, r) /\ r.pc = "cleanup" /\ SameUpload(r, req[q])
    BY <1>15, UploadGoesOn DEF Places, Uploading
  <2>2. Knows(r)
    BY <1>1, <2>1 DEF Knows, SameUpload, Uploading, Checking, Approving
  <2>3. Knows(r)' /\ Holds(q, r)'
    BY <1>1, <1>12, <2>1, <2>2, StillKnows DEF Holds
  <2> QED
    BY <1>12, <1>13, <2>1, <2>3, RequestMoves
<1> QED
  BY <1>12, <1>14, <1>15 DEF CreateTestcaseSet

\* Put and Delete write object storage only.
LEMMA ObjectStepTypes ==
    ASSUME TypeInv, NEW q \in Requests, PutArchive(q) \/ DeleteArchive(q)
    PROVE  TypeInv' /\ Grows
<1>1. /\ TablesInv /\ RequestsInv /\ req[q].pc \in {"put", "cleanup"} /\ Knows(req[q])
  BY RequestTyped DEF PutArchive, DeleteArchive, TypeInv
<1>2. req[q].key \in Keys /\ req[q].archive \in DOMAIN Uploads
  BY <1>1 DEF Knows, Uploading
<1>3. /\ UNCHANGED <<problem, statements, sets, checks>> /\ UNCHANGED <<problem, lock>>
      /\ UNCHANGED review /\ UNCHANGED keys /\ UNCHANGED unknown
      /\ Fault \/ UNCHANGED faults
  BY DEF PutArchive, DeleteArchive
<1>4. objects' \subseteq [key : Keys, archive : DOMAIN Uploads]
  <2>1. objects \subseteq [key : Keys, archive : DOMAIN Uploads]
    BY <1>1 DEF TablesInv, StorageTyped
  <2>2. [key |-> req[q].key, archive |-> req[q].archive] \in [key : Keys, archive : DOMAIN Uploads]
    BY <1>2
  <2> QED
    BY <2>1, <2>2 DEF PutArchive, DeleteArchive, Without
<1>5. StorageTyped' /\ KeysGrow
  BY <1>1, <1>3, <1>4, FaultTyped, KeysUntouched DEF TablesInv, StorageTyped
<1>6. TablesInv' /\ Grows
  BY <1>1, <1>3, <1>5, OnlyStorageWritten
<1>7. CASE Finish(q)
  BY <1>3, <1>6, <1>7, EndsUnlocked
<1>8. CASE req[q].pc = "put" /\ Goto(q, [req[q] EXCEPT !.pc = "stored"])
  <2>1. PICK r \in Request : Goto(q, r) /\ r.pc = "stored" /\ SameUpload(r, req[q])
    BY <1>8, UploadGoesOn DEF Places, Uploading
  <2>2. Knows(r)
    BY <1>1, <2>1 DEF Knows, SameUpload, Uploading, Checking, Approving
  <2> QED
    BY <1>3, <1>6, <2>1, <2>2, MovesUnlocked
<1> QED
  BY <1>6, <1>7, <1>8 DEF PutArchive, DeleteArchive

LEMMA CompleteCheckTypes ==
    ASSUME TypeInv, NEW q \in Requests, CompleteProblemCheckRun(q)
    PROVE  TypeInv' /\ Grows
<1>1. /\ TablesInv /\ RequestsInv /\ req[q].pc = "check_save" /\ req[q] \in Request
      /\ req[q].problem \in Problems /\ Knows(req[q])
  BY RequestTyped DEF CompleteProblemCheckRun, TypeInv
<1>2. PICK p \in Problems : p = req[q].problem
  BY <1>1
<1> DEFINE c == CompletedCheckRun(InsertCheckRun(req[q].statement, req[q].set), req[q].valid)
<1>3. /\ req[q].statement \in DOMAIN statements[p] /\ req[q].set \in DOMAIN sets[p]
      /\ req[q].statement \in Nat /\ req[q].set \in Nat /\ req[q].valid \in BOOLEAN
  BY <1>1, <1>2 DEF Knows, Checking, Request
<1>4. c \in CheckRow /\ c.statement = req[q].statement /\ c.set = req[q].set
  BY <1>3 DEF CompletedCheckRun, InsertCheckRun, CheckRow
<1>5. /\ checks' = [checks EXCEPT ![p] = Append(checks[p], c)]
      /\ Finish(q) /\ UNCHANGED problem /\ UNCHANGED statements /\ UNCHANGED sets
      /\ UNCHANGED <<problem, lock>> /\ UNCHANGED <<review, objects, keys, unknown>>
      /\ UNCHANGED faults
  BY <1>2 DEF CompleteProblemCheckRun
<1> HIDE DEF c
<1>6. ChecksTyped' /\ ChecksGrow
  BY <1>1, <1>3, <1>4, <1>5, CheckWritten
<1>7. RowsTyped' /\ RowsGrow
  BY <1>1, <1>5, RowsUntouched DEF TablesInv
<1>8. StatementsTyped' /\ StatementsGrow
  BY <1>1, <1>5, StatementsUntouched DEF TablesInv
<1>9. SetsTyped' /\ SetsGrow
  BY <1>1, <1>5, SetsUntouched DEF TablesInv
<1>10. StorageTyped' /\ KeysGrow
  BY <1>1, <1>5, StorageUntouched DEF TablesInv
<1>11. TablesInv' /\ Grows
  BY <1>6, <1>7, <1>8, <1>9, <1>10 DEF TablesInv, Grows
<1> QED
  BY <1>5, <1>11, EndsUnlocked

LEMMA TransitionTypes ==
    ASSUME TypeInv, NEW q \in Requests, transition(q)
    PROVE  TypeInv' /\ Grows
<1>1. /\ TablesInv /\ RequestsInv /\ req[q].pc = "transition"
      /\ req[q].problem \in Problems /\ Knows(req[q])
  BY RequestTyped DEF transition, TypeInv
<1>2. PICK p \in Problems : p = req[q].problem
  BY <1>1
<1>3. req[q].seen \in Statuses \ {"archived"} /\ req[q].to \in Statuses \ {"archived"}
  BY <1>1 DEF Knows
<1>4. /\ ~Locked(p) /\ Finish(q) /\ UNCHANGED lock /\ UNCHANGED faults
      /\ UNCHANGED <<statements, sets, checks, keys>> /\ UNCHANGED keys
      /\ UNCHANGED objects /\ UNCHANGED unknown
  BY <1>2 DEF transition
<1>5. /\ RowsTyped' /\ RowsGrow
      /\ \A o \in Problems : o # p => problem'[o] = problem[o]
      /\ review' = [o \in Problems |-> review'[o]]
  <2>1. CASE problem[p].status = req[q].seen
    <3>1. /\ SetProblemStatus(p, req[q].to) /\ problem[p].status # "archived"
          /\ CreateProblemReviewEvent(p, req[q].actor, req[q].to)
      BY <1>2, <1>3, <2>1 DEF transition
    <3>2. /\ RowsTyped' /\ RowsGrow
          /\ problem' = [problem EXCEPT ![p] = [problem[p] EXCEPT !.status = req[q].to]]
      BY <1>1, <1>3, <3>1, StatusWritten DEF TablesInv
    <3>3. review' = [o \in Problems |-> review'[o]]
      BY <1>1, <3>1 DEF CreateProblemReviewEvent, TablesInv, StorageTyped
    <3>4. \A o \in Problems : o # p => problem'[o] = problem[o]
      BY <1>1, <3>2 DEF TablesInv, RowsTyped
    <3> QED
      BY <3>2, <3>3, <3>4
  <2>2. CASE problem[p].status # req[q].seen
    <3>1. UNCHANGED problem /\ UNCHANGED review
      BY <1>2, <2>2 DEF transition
    <3>2. RowsTyped' /\ RowsGrow
      BY <1>1, <3>1, RowsUntouched DEF TablesInv
    <3> QED
      BY <1>1, <3>1, <3>2 DEF TablesInv, StorageTyped
  <2> QED
    BY <2>1, <2>2
<1>6. StorageTyped'
  BY <1>1, <1>4, <1>5, FaultTyped DEF TablesInv, StorageTyped
<1>7. TablesInv' /\ Grows
  BY <1>1, <1>4, <1>5, <1>6, OnlyRowsWritten
<1>8. lock' \in [Problems -> Requests \cup {None}] /\ LockRespected(q)
  BY <1>1, <1>4, <1>5 DEF RequestsInv, LockRespected, Locked
<1> QED
  BY <1>4, <1>7, <1>8, RequestEnds

LEMMA WriteStepTypes ==
    ASSUME TypeInv, NEW q \in Requests, WriteStep(q)
    PROVE  TypeInv' /\ Grows
BY CreateProblemStatementTypes, CreateTestcaseSetTypes, ObjectStepTypes, CompleteCheckTypes,
   TransitionTypes DEF WriteStep

LEMMA TypeStep ==
    ASSUME TypeInv, [Next]_vars
    PROVE  TypeInv' /\ Grows
<1>1. CASE RowStep
  BY <1>1, RowStepTypes
<1>2. ASSUME NEW q \in Requests, ReadStep(q)
      PROVE  TypeInv' /\ Grows
  BY <1>2, ReadStepTypes, ReadStepWrites
<1>3. ASSUME NEW q \in Requests, WriteStep(q)
      PROVE  TypeInv' /\ Grows
  BY <1>3, WriteStepTypes
<1>4. CASE UNCHANGED vars
  <2>1. /\ UNCHANGED <<problem, statements, sets, checks, review, objects, keys, unknown>>
        /\ UNCHANGED faults /\ UNCHANGED req /\ UNCHANGED lock /\ UNCHANGED problem
        /\ UNCHANGED statements /\ UNCHANGED sets /\ UNCHANGED keys
    BY <1>4 DEF vars
  <2>2. TablesInv' /\ Grows
    BY <2>1, NothingWritten DEF TypeInv
  <2>3. RequestsInv'
    <3>1. req' \in [Requests -> Request] /\ lock' \in [Problems -> Requests \cup {None}]
      BY <2>1 DEF TypeInv, RequestsInv
    <3>2. \A q \in Requests : Knows(req[q])' /\ Holds(q, req[q])'
      BY <2>1 DEF TypeInv, RequestsInv, Knows, Holds, GetProblem
    <3> QED
      BY <3>1, <3>2 DEF RequestsInv
  <2> QED
    BY <2>2, <2>3 DEF TypeInv
<1> QED
  BY <1>1, <1>2, <1>3, <1>4 DEF Next, RowStep, ReadStep, WriteStep

\* Every row, trail entry, lock and stored object has a value of its type, and at
\* most one statement and one testcase set of a problem are current, for any number
\* of requests in progress: the transactions of ProblemRepository.
THEOREM TypeCorrect == Spec => []TypeOK
<1>1. TypeInv => TypeOK
  <2> SUFFICES ASSUME TypeInv
               PROVE  TypeOK
    OBVIOUS
  <2>1. \A p \in Problems : /\ problem[p].status \in Statuses \cup {None}
                            /\ problem[p].owner \in Users \cup {None}
                            /\ problem[p].visibility \in Visibilities
                            /\ problem[p].archivedFrom \in (Statuses \ {"archived"}) \cup {None}
                            /\ problem[p].archivedFrom # None => problem[p].status = "archived"
    BY DEF TypeInv, TablesInv, RowsTyped, Row
  <2>2. \A p \in Problems : /\ \A i, j \in DOMAIN statements[p] :
                                 statements[p][i] /\ statements[p][j] => i = j
                            /\ \A i, j \in DOMAIN sets[p] :
                                 sets[p][i].current /\ sets[p][j].current => i = j
    BY DEF TypeInv, TablesInv, StatementsTyped, SetsTyped
  <2>3. \A p \in Problems : \A i \in DOMAIN checks[p] :
           checks[p][i].statement \in DOMAIN statements[p] /\ checks[p][i].set \in DOMAIN sets[p]
    BY DEF TypeInv, TablesInv, ChecksTyped
  <2>4. \A p \in Problems : lock[p] \in Requests \cup {None}
    BY DEF TypeInv, RequestsInv
  <2>5. objects \subseteq [key : Keys, archive : DOMAIN Uploads] /\ unknown \subseteq Keys
        /\ faults \in 0 .. MaxFaults
    BY DEF TypeInv, TablesInv, StorageTyped
  <2> QED
    BY <2>1, <2>2, <2>3, <2>4, <2>5 DEF TypeOK
<1> QED
  BY TypeInitially, TypeStep, <1>1, PTL DEF Spec

-----------------------------------------------------------------------------
(* The content of a published problem.                                     *)

\* A version is added to the problem whose row the transaction holds, and the status
\* it read under the lock is still the row's.
LEMMA VersionDemotes ==
    ASSUME TypeInv, NEW q \in Requests, CreateProblemStatement(q) \/ CreateTestcaseSet(q),
           NEW p \in Problems, problem[p].status = "published",
           <<statements'[p], sets'[p]>> # <<statements[p], sets[p]>>
    PROVE  problem'[p].status = "draft"
<1>1. /\ TablesInv /\ req[q].pc \in {"statement", "set"}
      /\ req[q].problem \in Problems /\ Holds(q, req[q])
  BY RequestTyped DEF CreateProblemStatement, CreateTestcaseSet, TypeInv
<1>2. PICK o \in Problems : o = req[q].problem
  BY <1>1
<1>3. req[q].seen = problem[o].status
  BY <1>1, <1>2 DEF Holds
<1>4. /\ demotePublishedProblem(o, problem[o].status)
      /\ \/ UNCHANGED sets /\ statements' = [statements EXCEPT ![o] = InsertProblemStatement(o)]
         \/ /\ UNCHANGED statements
            /\ sets' = [sets EXCEPT ![o] = InsertTestcaseSet(o, req[q].key, req[q].archive)]
  BY <1>2, <1>3 DEF CreateProblemStatement, CreateTestcaseSet, WriteTestcaseSet
<1>5. o = p
  <2> SUFFICES ASSUME o # p
               PROVE  statements'[p] = statements[p] /\ sets'[p] = sets[p]
    OBVIOUS
  <2> QED
    BY <1>1, <1>4 DEF TablesInv, StatementsTyped, SetsTyped
<1> QED
  BY <1>1, <1>4, <1>5, Demoted DEF TablesInv

LEMMA OthersAddNoVersion ==
    ASSUME TypeInv, [Next]_vars,
           ~\E q \in Requests : CreateProblemStatement(q) \/ CreateTestcaseSet(q)
    PROVE  UNCHANGED statements /\ UNCHANGED sets
<1>1. CASE RowStep
  BY <1>1, RowStepWrites
<1>2. ASSUME NEW q \in Requests, ReadStep(q)
      PROVE  UNCHANGED statements /\ UNCHANGED sets
  BY <1>2, ReadStepWrites
<1>3. ASSUME NEW q \in Requests, WriteStep(q)
      PROVE  UNCHANGED statements /\ UNCHANGED sets
  BY <1>3 DEF WriteStep, PutArchive, DeleteArchive, CompleteProblemCheckRun, transition
<1>4. CASE UNCHANGED vars
  BY <1>4 DEF vars
<1> QED
  BY <1>1, <1>2, <1>3, <1>4 DEF Next, RowStep, ReadStep, WriteStep

\* CreateStatement and UploadTestcaseArchive: whatever reviews, archivals and other
\* edits run beside it, a step that gives a published problem a new version also
\* takes it off publication.
THEOREM PublishedIsFrozen == Spec => PublishedContentFrozen
<1>1. ASSUME TypeInv, [Next]_vars
      PROVE  [\A p \in Problems :
                problem[p].status = "published"
                  /\ <<statements[p], sets[p]>>' # <<statements[p], sets[p]>>
                => problem'[p].status = "draft"]_vars
  <2> SUFFICES ASSUME NEW p \in Problems, problem[p].status = "published",
                      <<statements'[p], sets'[p]>> # <<statements[p], sets[p]>>
               PROVE  problem'[p].status = "draft"
    OBVIOUS
  <2>1. ASSUME NEW q \in Requests, CreateProblemStatement(q) \/ CreateTestcaseSet(q)
        PROVE  problem'[p].status = "draft"
    BY <1>1, <2>1, VersionDemotes
  <2>2. CASE ~\E q \in Requests : CreateProblemStatement(q) \/ CreateTestcaseSet(q)
    BY <1>1, <2>2, OthersAddNoVersion
  <2> QED
    BY <2>1, <2>2
<1> QED
  BY TypeInitially, TypeStep, <1>1, PTL DEF Spec, PublishedContentFrozen

-----------------------------------------------------------------------------
(* Who published a problem, and with what content.                         *)

LEMMA ReviewInitially == Init => ReviewInv
<1> SUFFICES ASSUME Init
             PROVE  ReviewInv
  OBVIOUS
<1>1. \A q \in Requests : Approved(req[q])
  BY DEF Init, Idle, Approved, Approving
<1>2. \A p \in Problems : Reviewed(p)
  <2>1. None # "published"
    BY WorkflowAssumption DEF Statuses
  <2>2. \A p \in Problems : problem[p].status = None /\ problem[p].archivedFrom = None
    BY DEF Init, Absent, ProblemRow
  <2> QED
    BY <2>1, <2>2 DEF Reviewed, Standing
<1> QED
  BY <1>1, <1>2 DEF ReviewInv

LEMMA DecisionStands ==
    ASSUME Grows, NEW p \in Problems, GetProblem(p), NEW a, MayDecide(a, p)
    PROVE  MayDecide(a, p)'
BY DEF Grows, RowsGrow, MayDecide, hasProblemPermission

LEMMA ContentStands ==
    ASSUME Grows, NEW p \in Problems
    PROVE  /\ HasStatement(p) => HasStatement(p)'
           /\ HasSet(p) => HasSet(p)'
           /\ HasValidCheck(p) => HasValidCheck(p)'
BY DEF Grows, StatementsGrow, SetsGrow, ChecksGrow

LEMMA StillApproved ==
    ASSUME Grows, NEW r \in Request, Knows(r), Approved(r)
    PROVE  Approved(r)'
<1>1. CASE r.pc \in Approving \cup {"transition"}
  <2>1. r.problem \in Problems /\ GetProblem(r.problem)
    BY <1>1 DEF Knows, Approving
  <2>2. MayDecide(r.actor, r.problem) => MayDecide(r.actor, r.problem)'
    BY <2>1, DecisionStands
  <2>3. /\ HasStatement(r.problem) => HasStatement(r.problem)'
        /\ HasSet(r.problem) => HasSet(r.problem)'
        /\ HasValidCheck(r.problem) => HasValidCheck(r.problem)'
    BY <2>1, ContentStands
  <2> QED
    BY <2>2, <2>3 DEF Approved
<1>2. CASE r.pc \notin Approving \cup {"transition"}
  BY <1>2 DEF Approved, Approving
<1> QED
  BY <1>1, <1>2

LEMMA StillReviewed ==
    ASSUME Grows, NEW p \in Problems, Reviewed(p), review'[p] = review[p],
           Standing(p)' = Standing(p) \/ Standing(p)' = "draft"
    PROVE  Reviewed(p)'
<1> SUFFICES ASSUME Standing(p)' = "published"
             PROVE  /\ review'[p] # None /\ review'[p].to = "published" /\ review'[p].from = "in_review"
                    /\ MayDecide(review[p].actor, p)'
                    /\ HasStatement(p)' /\ HasSet(p)' /\ HasValidCheck(p)'
  BY DEF Reviewed, MayDecide, Standing
<1>1. Standing(p) = "published"
  OBVIOUS
<1>2. GetProblem(p)
  BY <1>1, WorkflowAssumption DEF Standing, GetProblem, Statuses
<1>3. /\ review[p] # None /\ review[p].to = "published" /\ review[p].from = "in_review"
      /\ MayDecide(review[p].actor, p)
      /\ HasStatement(p) /\ HasSet(p) /\ HasValidCheck(p)
  BY <1>1 DEF Reviewed
<1>4. PICK a : a = review[p].actor
  OBVIOUS
<1>5. MayDecide(a, p)'
  BY <1>2, <1>3, <1>4, DecisionStands
<1>6. MayDecide(review[p].actor, p)'
  BY <1>4, <1>5 DEF MayDecide
<1> QED
  BY <1>3, <1>6, ContentStands

\* One request moves, and the others' approvals stand.
LEMMA ApprovalsMove ==
    ASSUME TypeInv, Grows, ReviewInv, NEW q \in Requests, NEW r \in Request, Goto(q, r), Approved(r)'
    PROVE  \A s \in Requests : Approved(req[s])'
<1> SUFFICES ASSUME NEW s \in Requests
             PROVE  Approved(req[s])'
  OBVIOUS
<1>1. req \in [Requests -> Request] /\ req' = [req EXCEPT ![q] = r]
  BY DEF TypeInv, RequestsInv, Goto
<1>2. CASE s = q
  <2>1. req'[s] = r
    BY <1>1, <1>2
  <2> QED
    BY <2>1 DEF Approved, MayDecide, HasStatement, HasSet, HasValidCheck
<1>3. CASE s # q
  <2>1. PICK u \in Request : u = req[s]
    BY <1>1
  <2>2. req'[s] = u /\ Knows(u) /\ Approved(u)
    BY <1>1, <1>3, <2>1, RequestTyped DEF ReviewInv
  <2>3. Approved(u)'
    BY <2>2, StillApproved
  <2> QED
    BY <2>2, <2>3 DEF Approved, MayDecide, HasStatement, HasSet, HasValidCheck
<1> QED
  BY <1>2, <1>3

\* A request that is not deciding.
Quiet(r) == r.pc \notin Approving \cup {"transition"}

LEMMA QuietMove ==
    ASSUME TypeInv, Grows, ReviewInv, NEW q \in Requests, NEW r \in Request, Goto(q, r), Quiet(r)
    PROVE  \A s \in Requests : Approved(req[s])'
<1>1. Approved(r)'
  BY DEF Quiet, Approved, Approving
<1> QED
  BY <1>1, ApprovalsMove

LEMMA EndsQuiet ==
    ASSUME TypeInv, Grows, ReviewInv, NEW q \in Requests, Finish(q)
    PROVE  \A s \in Requests : Approved(req[s])'
<1>1. Idle \in Request /\ Quiet(Idle) /\ Goto(q, Idle)
  BY IdleRequest DEF Quiet, Approving, Finish
<1> QED
  BY <1>1, QuietMove

LEMMA ReadStepReviews ==
    ASSUME TypeInv, ReviewInv, NEW q \in Requests, ReadStep(q)
    PROVE  ReviewInv'
<1>1. Grows /\ UNCHANGED problem /\ UNCHANGED review
  BY ReadStepWrites
<1>2. \A p \in Problems : Reviewed(p)'
  <2>1. \A p \in Problems : Standing(p)' = Standing(p) /\ review'[p] = review[p] /\ Reviewed(p)
    BY <1>1 DEF Standing, ReviewInv
  <2> QED
    BY <1>1, <2>1, StillReviewed
<1> SUFFICES \A s \in Requests : Approved(req[s])'
  BY <1>2 DEF ReviewInv
<1>3. req[q] \in Request /\ Knows(req[q]) /\ Approved(req[q])
  BY RequestTyped DEF ReviewInv
<1>4. ASSUME NEW r \in Request, Goto(q, r), Quiet(r)
      PROVE  \A s \in Requests : Approved(req[s])'
  BY <1>1, <1>4, QuietMove
<1>5. ASSUME Finish(q)
      PROVE  \A s \in Requests : Approved(req[s])'
  BY <1>1, <1>5, EndsQuiet
<1>6. ASSUME NEW a \in Users, NEW p \in Problems, CreateStatement(q, a, p)
      PROVE  \A s \in Requests : Approved(req[s])'
  BY <1>4, <1>6, CreateStatementMoves DEF Quiet, Approving
<1>7. ASSUME NEW a \in Users, NEW p \in Problems, NEW z \in DOMAIN Uploads,
             UploadTestcaseArchive(q, a, p, z)
      PROVE  \A s \in Requests : Approved(req[s])'
  BY <1>4, <1>7, UploadMoves DEF Quiet, Approving
<1>8. CASE LockForTestcaseSet(q)
  BY <1>4, <1>8, LockForSetMoves DEF Quiet, Approving
<1>9. CASE RollBack(q) \/ Crash(q)
  <2>1. CASE Goto(q, [req[q] EXCEPT !.pc = "cleanup"])
    <3>1. "cleanup" \in Places
      BY DEF Places, Uploading
    <3> QED
      BY <1>4, <2>1, <3>1, UploadGoesOn DEF Quiet, Approving
  <2> QED
    BY <1>5, <1>9, <2>1 DEF RollBack, Crash
<1>10. ASSUME NEW a \in Users, NEW p \in Problems, RunProblemCheck(q, a, p)
       PROVE  \A s \in Requests : Approved(req[s])'
  BY <1>4, <1>10, RunCheckMoves DEF Quiet, Approving
<1>11. CASE CheckTestcaseSet(q)
  BY <1>4, <1>5, <1>11, CheckSetMoves DEF Quiet, Approving
<1>12. CASE CheckArchive(q)
  BY <1>4, <1>12, CheckArchiveMoves DEF Quiet, Approving
<1>13. ASSUME NEW a \in Users, NEW p \in Problems, NEW to \in {"in_review", "changes_requested"},
              Goto(q, Transition(By(Seen(At("transition", p)), a), to))
       PROVE  \A s \in Requests : Approved(req[s])'
  <2>1. to \in Statuses
    BY DEF Statuses
  <2>2. PICK r \in Request : Goto(q, r) /\ r.pc = "transition" /\ r.to = to
    BY <1>13, <2>1, TransitionMoves
  <2>3. Approved(r)'
    BY <2>2 DEF Approved, Approving
  <2> QED
    BY <1>1, <2>2, <2>3, ApprovalsMove
<1>14. ASSUME NEW a \in Users, NEW p \in Problems, CanDecideReview(a, p), GetProblem(p),
              Goto(q, By(Seen(At("ready_statement", p)), a))
       PROVE  \A s \in Requests : Approved(req[s])'
  <2>1. PICK r \in Request : /\ Goto(q, r) /\ r.pc = "ready_statement" /\ r.problem = p
                             /\ r.actor = a
    BY <1>14, ApproveMoves
  <2>2. MayDecide(a, p)
    BY <1>14 DEF CanDecideReview, MayDecide
  <2>3. MayDecide(a, p)'
    BY <1>1, <1>14, <2>2, DecisionStands
  <2>4. Approved(r)'
    BY <2>1, <2>3 DEF Approved
  <2> QED
    BY <1>1, <2>1, <2>4, ApprovalsMove
<1>15. CASE ReadyStatement(q) \/ ReadyTestcaseSet(q) \/ (ensurePublishable(q) /\ ~Finish(q))
  <2>1. PICK r \in Request :
             /\ Goto(q, r) /\ SameApproval(r, req[q])
             /\ \/ /\ ReadyStatement(q) /\ r.pc = "ready_set"
                   /\ r.statement # 0 => HasStatement(r.problem)
                \/ /\ ReadyTestcaseSet(q) /\ r.pc = "ready_check" /\ r.statement = req[q].statement
                   /\ r.set # 0 => HasSet(r.problem)
                \/ /\ ensurePublishable(q) /\ r.pc = "transition" /\ r.to = "published"
                   /\ req[q].statement # 0 /\ req[q].set # 0 /\ HasValidCheck(r.problem)
    BY <1>15, ReadyMoves
  <2>2. /\ ReadyStatement(q) => req[q].pc = "ready_statement"
        /\ ReadyTestcaseSet(q) => req[q].pc = "ready_set"
        /\ ensurePublishable(q) => req[q].pc = "ready_check"
    BY DEF ReadyStatement, ReadyTestcaseSet, ensurePublishable
  <2>3. r.problem = req[q].problem /\ r.actor = req[q].actor /\ r.seen = req[q].seen
    BY <2>1 DEF SameApproval
  <2>4. Approved(r)
    BY <1>3, <2>1, <2>2, <2>3 DEF Approved, Approving
  <2>5. Knows(r)
    BY <1>3, <2>1, <2>2, <2>3 DEF Knows, Approving, Uploading, Checking, Statuses
  <2>6. Approved(r)'
    BY <1>1, <2>4, <2>5, StillApproved
  <2> QED
    BY <1>1, <2>1, <2>6, ApprovalsMove
<1>16. CASE HandleSubmitReview(q)
  <2>1. \E a \in Users, p \in Problems :
           Goto(q, Transition(By(Seen(At("transition", p)), a), "in_review"))
    BY <1>16 DEF HandleSubmitReview, Submit
  <2> QED
    BY <1>13, <2>1
<1>17. CASE HandleDecideReview(q)
  <2>1. \E a \in Users, p \in Problems :
           \/ /\ CanDecideReview(a, p) /\ GetProblem(p)
              /\ Goto(q, By(Seen(At("ready_statement", p)), a))
           \/ Goto(q, Transition(By(Seen(At("transition", p)), a), "changes_requested"))
    BY <1>17 DEF HandleDecideReview, Decide
  <2> QED
    BY <1>13, <1>14, <2>1
<1>18. CASE ensurePublishable(q)
  BY <1>5, <1>15, <1>18
<1> QED
  BY <1>6, <1>7, <1>8, <1>9, <1>10, <1>11, <1>12, <1>15, <1>16, <1>17, <1>18
  DEF ReadStep, HandleCreateStatement, HandleUploadTestcases, HandleRunProblemCheck

LEMMA WriteStepReviews ==
    ASSUME TypeInv, ReviewInv, NEW q \in Requests, WriteStep(q)
    PROVE  ReviewInv'
<1>1. Grows
  BY WriteStepTypes
<1>2. \A s \in Requests : Approved(req[s])'
  <2>1. CASE Finish(q)
    BY <1>1, <2>1, EndsQuiet
  <2>2. ASSUME NEW pc \in {"stored", "cleanup"}, Goto(q, [req[q] EXCEPT !.pc = pc])
        PROVE  \A s \in Requests : Approved(req[s])'
    <3>1. pc \in Places
      BY DEF Places, Uploading
    <3>2. PICK r \in Request : Goto(q, r) /\ r.pc = pc
      BY <2>2, <3>1, UploadGoesOn
    <3> QED
      BY <1>1, <3>2, QuietMove DEF Quiet, Approving
  <2>3. \/ Finish(q)
        \/ Goto(q, [req[q] EXCEPT !.pc = "stored"])
        \/ Goto(q, [req[q] EXCEPT !.pc = "cleanup"])
    BY DEF WriteStep, CreateProblemStatement, PutArchive, CreateTestcaseSet, DeleteArchive,
           CompleteProblemCheckRun, transition
  <2> QED
    BY <2>1, <2>2, <2>3
<1>3. ASSUME NEW p \in Problems
      PROVE  Reviewed(p)'
  <2>1. TablesInv /\ Reviewed(p) /\ problem[p] \in Row
    BY DEF TypeInv, TablesInv, RowsTyped, ReviewInv
  <2>2. CASE CreateProblemStatement(q) \/ CreateTestcaseSet(q)
    <3>1. req[q].pc \in {"statement", "set"} /\ req[q].problem \in Problems /\ Holds(q, req[q])
      BY <2>2, RequestTyped DEF CreateProblemStatement, CreateTestcaseSet
    <3>2. PICK o \in Problems : o = req[q].problem
      BY <3>1
    <3>3. demotePublishedProblem(o, problem[o].status) /\ UNCHANGED review
      BY <2>2, <3>1, <3>2 DEF CreateProblemStatement, CreateTestcaseSet, WriteTestcaseSet, Holds
    <3>4. problem'[p] = problem[p] \/ problem'[p].status = "draft"
      BY <2>1, <3>3, Demoted DEF TablesInv
    <3>5. Standing(p)' = Standing(p) \/ Standing(p)' = "draft"
      BY <3>4 DEF Standing
    <3> QED
      BY <1>1, <2>1, <3>3, <3>5, StillReviewed
  <2>3. CASE PutArchive(q) \/ DeleteArchive(q) \/ CompleteProblemCheckRun(q)
    <3>1. UNCHANGED problem /\ UNCHANGED review
      BY <2>3 DEF PutArchive, DeleteArchive, CompleteProblemCheckRun
    <3>2. Standing(p)' = Standing(p) /\ review'[p] = review[p]
      BY <3>1 DEF Standing
    <3> QED
      BY <1>1, <2>1, <3>2, StillReviewed
  <2>4. CASE transition(q)
    <3>1. /\ req[q].pc = "transition" /\ req[q].problem \in Problems /\ GetProblem(req[q].problem)
          /\ Knows(req[q]) /\ Approved(req[q])
      BY <2>4, RequestTyped DEF transition, ReviewInv
    <3>2. PICK o \in Problems : o = req[q].problem
      BY <3>1
    <3>3. CASE problem[o].status # req[q].seen \/ o # p
      <4>1. problem'[p] = problem[p] /\ review'[p] = review[p]
        BY <2>1, <2>4, <3>2, <3>3
        DEF transition, SetProblemStatus, CreateProblemReviewEvent, TablesInv, RowsTyped, StorageTyped
      <4>2. Standing(p)' = Standing(p)
        BY <4>1 DEF Standing
      <4> QED
        BY <1>1, <2>1, <4>1, <4>2, StillReviewed
    <3>4. CASE problem[o].status = req[q].seen /\ o = p
      <4>1. /\ SetProblemStatus(p, req[q].to) /\ CreateProblemReviewEvent(p, req[q].actor, req[q].to)
            /\ req[q].seen \in Statuses \ {"archived"} /\ req[q].to \in Statuses \ {"archived"}
        BY <2>4, <3>1, <3>2, <3>4 DEF transition, Knows
      <4>2. problem'[p].status = req[q].to
        BY <2>1, <3>4, <4>1, StatusWritten DEF TablesInv
      <4>3. Standing(p)' = req[q].to
        BY <4>1, <4>2 DEF Standing
      <4>4. CASE req[q].to # "published"
        BY <4>3, <4>4 DEF Reviewed
      <4>5. CASE req[q].to = "published"
        <5>1. PICK a : a = req[q].actor
          OBVIOUS
        <5>2. /\ MayDecide(a, p) /\ GetProblem(p) /\ req[q].seen = "in_review"
              /\ HasStatement(p) /\ HasSet(p) /\ HasValidCheck(p)
          BY <3>1, <3>2, <3>4, <4>5, <5>1 DEF Approved, Knows
        <5>3. MayDecide(a, p)' /\ HasStatement(p)' /\ HasSet(p)' /\ HasValidCheck(p)'
          BY <1>1, <5>2, DecisionStands, ContentStands
        <5>4. review'[p] = [actor |-> a, from |-> "in_review", to |-> "published"]
          BY <2>1, <3>4, <4>1, <4>5, <5>1, <5>2
          DEF CreateProblemReviewEvent, TablesInv, StorageTyped
        <5>5. review'[p] # None
          <6>1. a \in Users /\ {"in_review", "published"} \subseteq Statuses
            BY <3>1, <5>1 DEF Knows, Statuses
          <6>2. review'[p] \in [actor : Users, from : Statuses, to : Statuses]
            BY <5>4, <6>1
          <6> QED
            BY <6>2, WorkflowAssumption
        <5>6. MayDecide(review[p].actor, p)'
          BY <5>3, <5>4 DEF MayDecide
        <5> QED
          BY <5>3, <5>4, <5>5, <5>6 DEF Reviewed
      <4> QED
        BY <4>4, <4>5
    <3> QED
      BY <3>3, <3>4
  <2> QED
    BY <2>2, <2>3, <2>4 DEF WriteStep
<1> QED
  BY <1>2, <1>3 DEF ReviewInv

LEMMA ReviewStep ==
    ASSUME TypeInv, ReviewInv, [Next]_vars
    PROVE  ReviewInv'
<1>1. Grows
  BY TypeStep
<1>2. CASE RowStep \/ UNCHANGED vars
  <2>1. /\ UNCHANGED review /\ UNCHANGED req
        /\ \A p \in Problems : Standing(p)' = Standing(p) \/ Standing(p)' = "draft"
    BY <1>2, RowStepWrites DEF vars, Standing
  <2>2. \A p \in Problems : Reviewed(p)'
    BY <1>1, <2>1, StillReviewed DEF ReviewInv
  <2>3. ASSUME NEW s \in Requests
        PROVE  Approved(req[s])'
    <3>1. PICK u \in Request : u = req[s] /\ Knows(u) /\ Approved(u)
      BY RequestTyped DEF ReviewInv
    <3>2. Approved(u)' /\ req'[s] = u
      BY <1>1, <2>1, <3>1, StillApproved
    <3> QED
      BY <3>2 DEF Approved, MayDecide, HasStatement, HasSet, HasValidCheck
  <2> QED
    BY <2>2, <2>3 DEF ReviewInv
<1>3. ASSUME NEW q \in Requests, ReadStep(q) \/ WriteStep(q)
      PROVE  ReviewInv'
  BY <1>3, ReadStepReviews, WriteStepReviews
<1> QED
  BY <1>2, <1>3 DEF Next, RowStep, ReadStep, WriteStep

\* Decide and ensurePublishable: for any users, permissions and number of requests,
\* a problem is published, or waits in the archive to be published again, only after
\* an approval by somebody who is not its owner or who manages all problems, and with
\* a statement, a testcase set and a check that once was valid.  An approval carries
\* its three reads and the actor it was checked against past any other request.
THEOREM PublishedOnlyAfterReview == Spec => []PublishedWasReviewed
<1>1. TypeInv /\ ReviewInv => PublishedWasReviewed
  <2> SUFFICES ASSUME TypeInv, ReviewInv, NEW p \in Problems, Standing(p) = "published"
               PROVE  /\ review[p] # None /\ review[p].to = "published"
                      /\ review[p].from = "in_review"
                      /\ \/ review[p].actor # problem[p].owner
                         \/ hasProblemPermission(review[p].actor, "problem.manage_all")
                      /\ GetCurrentProblemStatement(p) # 0 /\ GetCurrentTestcaseSet(p) # 0
                      /\ \E i \in DOMAIN checks[p] : checks[p][i].valid
    BY DEF PublishedWasReviewed
  <2>1. /\ review[p] # None /\ review[p].to = "published" /\ review[p].from = "in_review"
        /\ MayDecide(review[p].actor, p)
        /\ HasStatement(p) /\ HasSet(p) /\ HasValidCheck(p)
    BY DEF ReviewInv, Reviewed
  <2>2. GetCurrentProblemStatement(p) # 0 /\ GetCurrentTestcaseSet(p) # 0
    BY <2>1, CurrentStatementFound, CurrentSetFound DEF TypeInv
  <2> QED
    BY <2>1, <2>2 DEF MayDecide, HasValidCheck
<1> QED
  BY TypeInitially, ReviewInitially, TypeStep, ReviewStep, <1>1, PTL DEF Spec

-----------------------------------------------------------------------------
(* The archives of the recorded sets.                                      *)

\* VerifyArchive: an archive checked against its own digest is parsed as it was when
\* it was uploaded.
LEMMA OwnDigestVerifies ==
    ASSUME NEW z
    PROVE  VerifyArchive(z, z.sum) = ValidateArchive(z)
BY Zenon DEF VerifyArchive, ValidateArchive, parseArchive

\* The check of a set whose object is the archive it was written from finds what the
\* upload found.
LEMMA StoredSetPasses ==
    ASSUME NEW row, NEW z \in DOMAIN Uploads, Acceptable(z), Stored(row.key, z),
           row.checksum = Uploads[z].sum, row.cases = Len(Manifests[z].cases)
    PROVE  ~HasErrorFindings(checkFindings(row))
<1>1. Verified[z][row.checksum] = Manifests[z]
  <2>1. Verified[z][row.checksum] = VerifyArchive(Uploads[z], Uploads[z].sum)
    BY DEF Verified
  <2>2. Manifests[z] = ValidateArchive(Uploads[z])
    BY DEF Manifests
  <2> QED
    BY <2>1, <2>2, OwnDigestVerifies
<1>2. archiveFindings(row, z) = Manifests[z].codes
  BY <1>1 DEF archiveFindings
<1> DEFINE o == [key |-> row.key, archive |-> z]
<1>3. o \in objects /\ o.key = row.key /\ o.archive = z
      /\ \A x \in objects : x.key = row.key <=> x = o
  BY DEF Stored, Keeps
<1> HIDE DEF o
<1>4. {x \in objects : x.key = row.key} = {o}
  BY <1>3
<1>5. UNION {archiveFindings(row, x.archive) : x \in {o}} = archiveFindings(row, z)
  BY <1>3
<1>6. checkFindings(row) = archiveFindings(row, z)
  BY <1>3, <1>4, <1>5 DEF checkFindings
<1> QED
  BY <1>2, <1>6 DEF Acceptable

LEMMA ArchiveInitially == Init => ArchiveInv
<1> SUFFICES ASSUME Init
             PROVE  ArchiveInv
  OBVIOUS
<1>1. \A q \in Requests : req[q].pc = "idle"
  BY DEF Init, Idle
<1>2. \A p \in Problems : DOMAIN sets[p] = {}
  BY DEF Init
<1> QED
  BY <1>1, <1>2 DEF ArchiveInv, Uploaded, OwnKeys, Uploading

LEMMA OtherKeyKept ==
    ASSUME NEW key, NEW z, Stored(key, z), NEW k, k # key,
           \/ objects' = objects
           \/ objects' = Without(k)
           \/ \E y : objects' = Without(k) \cup {[key |-> k, archive |-> y]}
    PROVE  Stored(key, z)'
<1>1. \A o : o.key = key => (o \in objects' <=> o \in objects)
  BY DEF Without
<1> DEFINE rec == [key |-> key, archive |-> z]
<1>2. rec \in objects /\ rec.key = key /\ \A o \in objects : o.key = key <=> o = rec
  BY DEF Stored, Keeps
<1> HIDE DEF rec
<1>3. rec \in objects' /\ \A o \in objects' : o.key = key <=> o = rec
  BY <1>1, <1>2
<1> QED
  BY <1>3 DEF Stored, Keeps, rec

LEMMA PutStores ==
    ASSUME NEW k, NEW z, objects' = Without(k) \cup {[key |-> k, archive |-> z]}
    PROVE  Stored(k, z)'
<1> DEFINE rec == [key |-> k, archive |-> z]
<1>1. rec.key = k
  OBVIOUS
<1>2. objects' = Without(k) \cup {rec}
  OBVIOUS
<1> HIDE DEF rec
<1>3. rec \in objects' /\ \A o \in objects' : o.key = k <=> o = rec
  BY <1>1, <1>2 DEF Without
<1> QED
  BY <1>3 DEF Stored, Keeps, rec

\* A row stays backed while storage keeps what is under its key.
LEMMA RowStands ==
    ASSUME TypeInv, TypeInv', Grows, NEW p \in Problems, NEW row, row.key \in Keys, RowStored(p, row),
           unknown \subseteq unknown',
           row.key \in unknown \/ \A z : Stored(row.key, z) => Stored(row.key, z)'
    PROVE  RowStored(p, row)'
<1>1. row.key[1] = p /\ row.key[2] <= keys'[p]
  <2>1. keys[p] \in Int /\ keys'[p] \in Int /\ keys[p] <= keys'[p]
    BY WorkflowAssumption DEF TypeInv, TablesInv, StorageTyped, Grows, KeysGrow
  <2>2. row.key[2] \in Int
    BY WorkflowAssumption DEF Keys
  <2> QED
    BY <2>1, <2>2 DEF RowStored
<1>2. CASE row.key \in unknown
  BY <1>1, <1>2 DEF RowStored
<1>3. CASE row.key \notin unknown
  <2>1. PICK z \in DOMAIN Uploads : /\ Acceptable(z) /\ Stored(row.key, z)
                                    /\ row.checksum = Uploads[z].sum
                                    /\ row.cases = Len(Manifests[z].cases)
    BY <1>3 DEF RowStored
  <2>2. Stored(row.key, z)'
    BY <1>3, <2>1
  <2> QED
    BY <1>1, <2>1, <2>2 DEF RowStored, Acceptable
<1> QED
  BY <1>2, <1>3

LEMMA SetRowsTyped ==
    ASSUME TypeInv, NEW p \in Problems, NEW i \in DOMAIN sets[p]
    PROVE  sets[p][i] \in SetRow /\ sets[p][i].key \in Keys
<1>1. sets[p] \in Seq(SetRow) /\ DOMAIN sets[p] = 1 .. Len(sets[p])
  BY VersionsTyped DEF TypeInv
<1>2. sets[p][i] \in SetRow
  BY <1>1, ElementOfSeq
<1> QED
  BY <1>2 DEF SetRow

LEMMA OwnKeysMove ==
    ASSUME TypeInv, OwnKeys, NEW q \in Requests, NEW r \in Request, Goto(q, r),
           r.pc \in Uploading =>
             \A s \in Requests : s # q /\ req[s].pc \in Uploading => req[s].key # r.key
    PROVE  OwnKeys'
<1>1. req \in [Requests -> Request] /\ req' = [req EXCEPT ![q] = r]
  BY DEF TypeInv, RequestsInv, Goto
<1>2. req'[q] = r /\ \A s \in Requests : s # q => req'[s] = req[s]
  BY <1>1
<1> QED
  BY <1>2 DEF OwnKeys

\* The rows and objects stay as they are and at most one request moves.
LEMMA RowsStayStored ==
    ASSUME TypeInv, TypeInv', Grows, ArchiveInv, UNCHANGED objects, UNCHANGED sets, UNCHANGED unknown
    PROVE  \A p \in Problems : \A i \in DOMAIN sets'[p] : RowStored(p, sets[p][i])'
<1> SUFFICES ASSUME NEW p \in Problems, NEW i \in DOMAIN sets[p]
             PROVE  RowStored(p, sets[p][i])'
  OBVIOUS
<1>1. PICK row : row = sets[p][i]
  OBVIOUS
<1>2. row.key \in Keys /\ RowStored(p, row)
  BY <1>1, SetRowsTyped DEF ArchiveInv
<1>3. \A z : Stored(row.key, z) => Stored(row.key, z)'
  BY DEF Stored, Keeps
<1>4. RowStored(p, row)'
  BY <1>2, <1>3, RowStands
<1>5. row = sets'[p][i]
  BY <1>1
<1> QED
  BY <1>4, <1>5 DEF RowStored, Stored, Keeps

LEMMA QuietStorage ==
    ASSUME TypeInv, TypeInv', Grows, ArchiveInv, UNCHANGED objects, UNCHANGED sets, UNCHANGED unknown,
           NEW q \in Requests, NEW r \in Request, Goto(q, r), Uploaded(r),
           r.pc \in Uploading =>
             \A s \in Requests : s # q /\ req[s].pc \in Uploading => req[s].key # r.key
    PROVE  ArchiveInv'
<1>1. req \in [Requests -> Request] /\ req' = [req EXCEPT ![q] = r]
  BY DEF TypeInv, RequestsInv, Goto
<1>2. ASSUME NEW s \in Requests
      PROVE  Uploaded(req[s])'
  <2>1. PICK u : u = req'[s]
    OBVIOUS
  <2>2. Uploaded(u)
    BY <1>1, <2>1 DEF ArchiveInv
  <2> QED
    BY <2>1, <2>2 DEF Uploaded, Recorded, Stored, Keeps, Acceptable
<1>3. OwnKeys'
  BY OwnKeysMove DEF ArchiveInv
<1> QED
  BY <1>2, <1>3, RowsStayStored DEF ArchiveInv

LEMMA ReadStepArchives ==
    ASSUME TypeInv, ArchiveInv, NEW q \in Requests, ReadStep(q)
    PROVE  ArchiveInv'
<1>1. /\ TypeInv' /\ Grows /\ UNCHANGED objects /\ UNCHANGED sets /\ UNCHANGED unknown
  BY ReadStepWrites, ReadStepTypes
<1>2. req[q] \in Request /\ Knows(req[q]) /\ Uploaded(req[q])
  BY RequestTyped DEF ArchiveInv
<1>3. ASSUME NEW r \in Request, Goto(q, r), r.pc \notin Uploading
      PROVE  ArchiveInv'
  BY <1>1, <1>3, QuietStorage DEF Uploaded, Uploading
<1>4. ASSUME NEW r \in Request, Goto(q, r), r.pc \in Uploading, req[q].pc \in Uploading,
             SameUpload(r, req[q]), Uploaded(r)
      PROVE  ArchiveInv'
  <2>1. \A s \in Requests : s # q /\ req[s].pc \in Uploading => req[s].key # r.key
    BY <1>4 DEF ArchiveInv, OwnKeys, SameUpload
  <2> QED
    BY <1>1, <1>4, <2>1, QuietStorage
<1>5. ASSUME Finish(q)
      PROVE  ArchiveInv'
  BY <1>3, <1>5, IdleRequest DEF Finish, Uploading
<1>6. ASSUME NEW a \in Users, NEW p \in Problems, CreateStatement(q, a, p)
      PROVE  ArchiveInv'
  BY <1>3, <1>6, CreateStatementMoves DEF Uploading
<1>7. ASSUME NEW a \in Users, NEW p \in Problems, NEW z \in DOMAIN Uploads,
             UploadTestcaseArchive(q, a, p, z)
      PROVE  ArchiveInv'
  <2>1. PICK r \in Request : /\ Goto(q, r) /\ r.pc = "put" /\ r.problem = p /\ r.archive = z
                             /\ r.key = <<p, keys[p] + 1>> /\ r.key \in Keys
    BY <1>7, UploadMoves
  <2>2. keys[p] \in Int
    BY WorkflowAssumption DEF TypeInv, TablesInv, StorageTyped
  <2>3. ASSUME NEW k, k[1] = p => k[2] <= keys[p]
        PROVE  k # r.key
    BY <2>1, <2>2, <2>3
  <2>4. \A s \in Requests : req[s].pc \in Uploading => req[s].key # r.key
    <3> SUFFICES ASSUME NEW s \in Requests, req[s].pc \in Uploading
                 PROVE  req[s].key # r.key
      OBVIOUS
    <3>1. req[s].key[1] = req[s].problem /\ req[s].key[2] <= keys[req[s].problem]
      BY RequestTyped DEF Knows
    <3> QED
      BY <2>3, <3>1
  <2>5. ~Recorded(r.key)
    <3> SUFFICES ASSUME NEW o \in Problems, NEW i \in DOMAIN sets[o]
                 PROVE  sets[o][i].key # r.key
      BY DEF Recorded
    <3>1. sets[o][i].key[1] = o /\ sets[o][i].key[2] <= keys[o]
      BY DEF ArchiveInv, RowStored
    <3> QED
      BY <2>3, <3>1
  <2>6. Acceptable(z)
    BY <1>7 DEF UploadTestcaseArchive, Acceptable
  <2>7. Uploaded(r)
    BY <2>1, <2>5, <2>6 DEF Uploaded
  <2> QED
    BY <1>1, <2>1, <2>4, <2>7, QuietStorage
<1>8. CASE LockForTestcaseSet(q)
  <2>1. PICK r \in Request : Goto(q, r) /\ r.pc = "set" /\ SameUpload(r, req[q])
    BY <1>8, LockForSetMoves
  <2>2. req[q].pc = "stored"
    BY <1>8 DEF LockForTestcaseSet
  <2>3. Uploaded(r)
    BY <1>2, <2>1, <2>2 DEF Uploaded, SameUpload
  <2> QED
    BY <1>4, <2>1, <2>2, <2>3 DEF Uploading
<1>9. CASE RollBack(q) \/ Crash(q)
  <2>1. CASE req[q].pc = "set" /\ Goto(q, [req[q] EXCEPT !.pc = "cleanup"])
    <3>1. PICK r \in Request : Goto(q, r) /\ r.pc = "cleanup" /\ SameUpload(r, req[q])
      BY <2>1, UploadGoesOn DEF Places, Uploading
    <3>2. Uploaded(r)
      BY <1>2, <2>1, <3>1 DEF Uploaded, SameUpload
    <3> QED
      BY <1>4, <2>1, <3>1, <3>2 DEF Uploading
  <2> QED
    BY <1>5, <1>9, <2>1 DEF RollBack, Crash
<1>10. ASSUME NEW a \in Users, NEW p \in Problems, RunProblemCheck(q, a, p)
       PROVE  ArchiveInv'
  BY <1>3, <1>10, RunCheckMoves DEF Uploading
<1>11. CASE CheckTestcaseSet(q)
  BY <1>3, <1>5, <1>11, CheckSetMoves DEF Uploading
<1>12. CASE CheckArchive(q)
  BY <1>3, <1>12, CheckArchiveMoves DEF Uploading
<1>13. ASSUME NEW a \in Users, NEW p \in Problems, NEW to \in {"in_review", "changes_requested"},
              Goto(q, Transition(By(Seen(At("transition", p)), a), to))
       PROVE  ArchiveInv'
  <2>1. to \in Statuses
    BY DEF Statuses
  <2> QED
    BY <1>3, <1>13, <2>1, TransitionMoves DEF Uploading
<1>14. ASSUME NEW a \in Users, NEW p \in Problems, Goto(q, By(Seen(At("ready_statement", p)), a))
       PROVE  ArchiveInv'
  BY <1>3, <1>14, ApproveMoves DEF Uploading
<1>15. CASE ReadyStatement(q) \/ ReadyTestcaseSet(q) \/ ensurePublishable(q)
  <2>1. CASE ~Finish(q)
    <3>1. PICK r \in Request : Goto(q, r) /\ r.pc \in {"ready_set", "ready_check", "transition"}
      BY <1>15, <2>1, ReadyMoves
    <3> QED
      BY <1>3, <3>1 DEF Uploading
  <2> QED
    BY <1>5, <2>1
<1>16. CASE HandleSubmitReview(q) \/ HandleDecideReview(q)
  <2>1. \E a \in Users, p \in Problems :
           \/ Goto(q, By(Seen(At("ready_statement", p)), a))
           \/ Goto(q, Transition(By(Seen(At("transition", p)), a), "in_review"))
           \/ Goto(q, Transition(By(Seen(At("transition", p)), a), "changes_requested"))
    BY <1>16 DEF HandleSubmitReview, Submit, HandleDecideReview, Decide
  <2> QED
    BY <1>13, <1>14, <2>1
<1> QED
  BY <1>6, <1>7, <1>8, <1>9, <1>10, <1>11, <1>12, <1>15, <1>16
  DEF ReadStep, HandleCreateStatement, HandleUploadTestcases, HandleRunProblemCheck

\* Put and Delete: they touch the object of one key, which no row relies on.
LEMMA ObjectStepArchives ==
    ASSUME TypeInv, ArchiveInv, NEW q \in Requests, PutArchive(q) \/ DeleteArchive(q)
    PROVE  ArchiveInv'
<1>1. TypeInv' /\ Grows
  BY ObjectStepTypes
<1>2. UNCHANGED sets /\ UNCHANGED unknown
  BY DEF PutArchive, DeleteArchive
<1>3. /\ req[q] \in Request /\ Uploaded(req[q]) /\ req[q].pc \in {"put", "cleanup"}
      /\ req \in [Requests -> Request]
  BY RequestTyped DEF ArchiveInv, PutArchive, DeleteArchive, TypeInv, RequestsInv
<1>4. CASE UNCHANGED objects /\ Finish(q)
  <2>1. Idle \in Request /\ Goto(q, Idle) /\ Uploaded(Idle) /\ Idle.pc \notin Uploading
    BY <1>4, IdleRequest DEF Finish, Uploaded, Uploading
  <2> QED
    BY <1>1, <1>2, <1>4, <2>1, QuietStorage
<1>5. PICK k : k = req[q].key
  OBVIOUS
<1>6. \A s \in Requests : s # q /\ req[s].pc \in Uploading => req[s].key # k
  BY <1>3, <1>5 DEF ArchiveInv, OwnKeys, Uploading
<1>7. Recorded(k) => k \in unknown
  BY <1>3, <1>5 DEF Uploaded
<1>8. ASSUME NEW r \in Request, Goto(q, r), Uploaded(r)', r.pc \in Uploading => r.key = k,
             \/ objects' = Without(k)
             \/ \E y : objects' = Without(k) \cup {[key |-> k, archive |-> y]}
      PROVE  ArchiveInv'
  <2>1. req' = [req EXCEPT ![q] = r]
    BY <1>8 DEF Goto
  <2>2. OwnKeys'
    BY <1>6, <1>8, OwnKeysMove DEF ArchiveInv
  <2>3. ASSUME NEW p \in Problems, NEW i \in DOMAIN sets[p]
        PROVE  RowStored(p, sets[p][i])'
    <3>1. PICK row : row = sets[p][i]
      OBVIOUS
    <3>2. row.key \in Keys /\ RowStored(p, row)
      BY <3>1, SetRowsTyped DEF ArchiveInv
    <3>3. row.key = k => k \in unknown
      BY <1>7, <3>1 DEF Recorded
    <3>4. row.key \in unknown \/ \A z : Stored(row.key, z) => Stored(row.key, z)'
      BY <1>8, <3>3, OtherKeyKept
    <3>5. RowStored(p, row)'
      BY <1>1, <1>2, <3>2, <3>4, RowStands
    <3>6. row = sets'[p][i]
      BY <1>2, <3>1
    <3> QED
      BY <3>5, <3>6 DEF RowStored, Stored, Keeps
  <2>4. ASSUME NEW s \in Requests
        PROVE  Uploaded(req[s])'
    <3>1. CASE s = q
      <4>1. req'[s] = r
        BY <1>3, <2>1, <3>1
      <4> QED
        BY <1>8, <4>1 DEF Uploaded, Recorded, Stored, Keeps, Acceptable
    <3>2. CASE s # q
      <4>1. PICK u : u = req[s] /\ req'[s] = u /\ Uploaded(u)
        BY <1>3, <2>1, <3>2 DEF ArchiveInv
      <4>2. u.pc \in {"stored", "set"} => u.key # k
        BY <1>6, <3>2, <4>1 DEF Uploading
      <4>3. u.pc \in {"stored", "set"} => Stored(u.key, u.archive)'
        BY <1>8, <4>1, <4>2, OtherKeyKept DEF Uploaded
      <4>4. Recorded(u.key)' <=> Recorded(u.key)
        BY <1>2 DEF Recorded
      <4>5. Uploaded(u)'
        BY <1>2, <4>1, <4>3, <4>4 DEF Uploaded, Acceptable
      <4> QED
        BY <4>1, <4>5 DEF Uploaded, Recorded, Stored, Keeps, Acceptable
    <3> QED
      BY <3>1, <3>2
  <2> QED
    BY <1>2, <2>2, <2>3, <2>4 DEF ArchiveInv
<1>9. CASE /\ req[q].pc = "put" /\ Goto(q, [req[q] EXCEPT !.pc = "stored"])
           /\ objects' = Without(k) \cup {[key |-> k, archive |-> req[q].archive]}
  <2>1. PICK r \in Request : Goto(q, r) /\ r.pc = "stored" /\ SameUpload(r, req[q])
    BY <1>9, UploadGoesOn DEF Places, Uploading
  <2>2. r.key = k /\ r.archive = req[q].archive /\ Acceptable(r.archive) /\ ~Recorded(r.key)
    BY <1>3, <1>5, <1>9, <2>1 DEF SameUpload, Uploaded
  <2>3. Stored(r.key, r.archive)'
    BY <1>9, <2>2, PutStores
  <2>4. ~Recorded(r.key)'
    BY <1>2, <2>2 DEF Recorded
  <2>5. Uploaded(r)'
    BY <2>1, <2>2, <2>3, <2>4 DEF Uploaded, Acceptable
  <2> QED
    BY <1>8, <1>9, <2>1, <2>2, <2>5
<1>10. CASE Finish(q) /\ objects' = Without(k)
  <2>1. Idle \in Request /\ Goto(q, Idle) /\ Idle.pc = "idle"
    BY <1>10, IdleRequest DEF Finish
  <2>2. Uploaded(Idle)'
    BY DEF Uploaded, Idle
  <2> QED
    BY <1>8, <1>10, <2>1, <2>2 DEF Uploading
<1> QED
  BY <1>4, <1>5, <1>9, <1>10 DEF PutArchive, DeleteArchive

\* CreateTestcaseSet: the new row has the key of a stored, accepted archive, and the
\* request that wrote it will not delete the object unless the commit was reported lost.
LEMMA CreateTestcaseSetArchives ==
    ASSUME TypeInv, ArchiveInv, NEW q \in Requests, CreateTestcaseSet(q)
    PROVE  ArchiveInv'
<1>1. TypeInv' /\ Grows
  BY CreateTestcaseSetTypes
<1>2. /\ req[q].pc = "set" /\ req[q].problem \in Problems /\ Knows(req[q]) /\ Uploaded(req[q])
      /\ TablesInv /\ req \in [Requests -> Request]
  BY RequestTyped DEF CreateTestcaseSet, ArchiveInv, TypeInv, RequestsInv
<1>3. PICK o \in Problems, k \in Keys, z \in DOMAIN Uploads :
         o = req[q].problem /\ k = req[q].key /\ z = req[q].archive
  BY <1>2 DEF Knows, Uploading
<1>4. /\ sets' = [sets EXCEPT ![o] = InsertTestcaseSet(o, k, z)]
      /\ UNCHANGED objects /\ UNCHANGED keys /\ unknown \subseteq unknown'
      /\ \/ Finish(q)
         \/ Goto(q, [req[q] EXCEPT !.pc = "cleanup"]) /\ k \in unknown'
  BY <1>3 DEF CreateTestcaseSet, WriteTestcaseSet
<1>5. /\ \A p \in Problems : p # o => sets'[p] = sets[p]
      /\ \A i \in DOMAIN sets'[o] :
           \/ /\ sets'[o][i].key = k /\ sets'[o][i].checksum = Uploads[z].sum
              /\ sets'[o][i].cases = Len(Manifests[z].cases)
           \/ /\ i \in DOMAIN sets[o]
              /\ sets'[o][i].key = sets[o][i].key
              /\ sets'[o][i].checksum = sets[o][i].checksum
              /\ sets'[o][i].cases = sets[o][i].cases
  <2>1. TablesInv
    BY <1>2
  <2>2. sets' = [sets EXCEPT ![o] = InsertTestcaseSet(o, k, z)]
    BY <1>4
  <2> QED
    BY <2>1, <2>2, SetWritten, ZenonT(30)
<1>6. k[1] = o /\ k[2] <= keys[o] /\ Acceptable(z) /\ Stored(k, z)
  BY <1>2, <1>3 DEF Knows, Uploaded, Uploading
<1>7. ASSUME NEW p \in Problems, NEW i \in DOMAIN sets'[p]
      PROVE  RowStored(p, sets[p][i])'
  <2>1. PICK row : row = sets'[p][i]
    OBVIOUS
  <2>2. CASE p = o /\ row.key = k /\ row.checksum = Uploads[z].sum
             /\ row.cases = Len(Manifests[z].cases)
    <3>1. Stored(row.key, z)'
      BY <1>4, <1>6, <2>2 DEF Stored, Keeps
    <3>2. RowStored(p, row)'
      BY <1>4, <1>6, <2>2, <3>1 DEF RowStored, Acceptable
    <3> QED
      BY <2>1, <3>2 DEF RowStored, Stored, Keeps
  <2>3. CASE /\ i \in DOMAIN sets[p] /\ row.key = sets[p][i].key
             /\ row.checksum = sets[p][i].checksum /\ row.cases = sets[p][i].cases
    <3>1. row.key \in Keys /\ RowStored(p, row)
      BY <2>3, SetRowsTyped DEF ArchiveInv, RowStored
    <3>2. \A y : Stored(row.key, y) => Stored(row.key, y)'
      BY <1>4 DEF Stored, Keeps
    <3>3. RowStored(p, row)'
      BY <1>1, <1>4, <3>1, <3>2, RowStands
    <3> QED
      BY <2>1, <3>3 DEF RowStored, Stored, Keeps
  <2> QED
    BY <1>5, <2>1, <2>2, <2>3
<1>8. \A key : key # k /\ Recorded(key)' => Recorded(key)
  <2> SUFFICES ASSUME NEW key, key # k, NEW p \in Problems, NEW i \in DOMAIN sets'[p],
                      sets'[p][i].key = key
               PROVE  \E j \in DOMAIN sets[p] : sets[p][j].key = key
    BY DEF Recorded
  <2> QED
    BY <1>5
<1>9. ASSUME NEW r \in Request, Goto(q, r), r.pc \in {"idle", "cleanup"},
             r.pc = "cleanup" => r.key = k /\ k \in unknown'
      PROVE  ArchiveInv'
  <2>1. req' = [req EXCEPT ![q] = r]
    BY <1>9 DEF Goto
  <2>2. \A s \in Requests : s # q /\ req[s].pc \in Uploading => req[s].key # k
    BY <1>2, <1>3 DEF ArchiveInv, OwnKeys, Uploading
  <2>3. OwnKeys'
    BY <1>9, <2>2, OwnKeysMove DEF ArchiveInv, Uploading
  <2>4. ASSUME NEW s \in Requests
        PROVE  Uploaded(req[s])'
    <3>1. CASE s = q
      <4>1. req'[s] = r
        BY <1>2, <2>1, <3>1
      <4> QED
        BY <1>9, <4>1 DEF Uploaded
    <3>2. CASE s # q
      <4>1. PICK u : u = req[s] /\ req'[s] = u /\ Uploaded(u)
        BY <1>2, <2>1, <3>2 DEF ArchiveInv
      <4>2. u.pc \in Uploading => (Recorded(u.key)' => Recorded(u.key))
        BY <1>8, <2>2, <3>2, <4>1
      <4>3. Stored(u.key, u.archive)' <=> Stored(u.key, u.archive)
        BY <1>4 DEF Stored, Keeps
      <4>4. Uploaded(u)'
        BY <1>4, <4>1, <4>2, <4>3 DEF Uploaded, Acceptable, Uploading
      <4> QED
        BY <4>1, <4>4 DEF Uploaded, Recorded, Stored, Keeps, Acceptable
    <3> QED
      BY <3>1, <3>2
  <2> QED
    BY <1>7, <2>3, <2>4 DEF ArchiveInv
<1>10. CASE Finish(q)
  BY <1>9, <1>10, IdleRequest DEF Finish
<1>11. CASE Goto(q, [req[q] EXCEPT !.pc = "cleanup"]) /\ k \in unknown'
  <2>1. PICK r \in Request : Goto(q, r) /\ r.pc = "cleanup" /\ SameUpload(r, req[q])
    BY <1>11, UploadGoesOn DEF Places, Uploading
  <2>2. r.key = k
    BY <1>3, <2>1 DEF SameUpload
  <2> QED
    BY <1>9, <1>11, <2>1, <2>2
<1> QED
  BY <1>4, <1>10, <1>11

LEMMA ArchiveStep ==
    ASSUME TypeInv, ArchiveInv, [Next]_vars
    PROVE  ArchiveInv'
<1>1. TypeInv' /\ Grows
  BY TypeStep
<1>2. CASE RowStep \/ UNCHANGED vars
  <2>1. UNCHANGED objects /\ UNCHANGED sets /\ UNCHANGED unknown /\ UNCHANGED req
    BY <1>2, RowStepWrites DEF vars
  <2>2. \A s \in Requests : Uploaded(req[s])'
    BY <2>1 DEF ArchiveInv, Uploaded, Recorded, Stored, Keeps, Acceptable
  <2>3. OwnKeys'
    BY <2>1 DEF ArchiveInv, OwnKeys
  <2> QED
    BY <1>1, <2>1, <2>2, <2>3, RowsStayStored DEF ArchiveInv
<1>3. ASSUME NEW q \in Requests, ReadStep(q)
      PROVE  ArchiveInv'
  BY <1>3, ReadStepArchives
<1>4. ASSUME NEW q \in Requests, CreateProblemStatement(q) \/ CompleteProblemCheckRun(q) \/ transition(q)
      PROVE  ArchiveInv'
  <2>1. Finish(q) /\ UNCHANGED objects /\ UNCHANGED sets /\ UNCHANGED unknown
    BY <1>4 DEF CreateProblemStatement, CompleteProblemCheckRun, transition
  <2>2. Idle \in Request /\ Goto(q, Idle) /\ Uploaded(Idle) /\ Idle.pc \notin Uploading
    BY <2>1, IdleRequest DEF Finish, Uploaded, Uploading
  <2> QED
    BY <1>1, <2>1, <2>2, QuietStorage
<1>5. ASSUME NEW q \in Requests, PutArchive(q) \/ DeleteArchive(q) \/ CreateTestcaseSet(q)
      PROVE  ArchiveInv'
  BY <1>5, ObjectStepArchives, CreateTestcaseSetArchives
<1> QED
  BY <1>2, <1>3, <1>4, <1>5 DEF Next, RowStep, ReadStep

\* UploadTestcaseArchive: however many uploads run beside one another, fail, crash or
\* clean up, the archive of every recorded set is in storage and a check of it against
\* its row finds no error, unless the commit that recorded the set was answered with an
\* error.  The random key is what makes a cleanup delete nobody else's object.
THEOREM RecordedSetsAreStored == Spec => []SetsHaveArchives
<1>1. ArchiveInv => SetsHaveArchives
  <2> SUFFICES ASSUME ArchiveInv, NEW p \in Problems, NEW i \in DOMAIN sets[p],
                      sets[p][i].key \notin unknown
               PROVE  ~HasErrorFindings(checkFindings(sets[p][i]))
    BY DEF SetsHaveArchives
  <2>1. PICK row : row = sets[p][i]
    OBVIOUS
  <2>2. PICK z \in DOMAIN Uploads : /\ Acceptable(z) /\ Stored(row.key, z)
                                    /\ row.checksum = Uploads[z].sum
                                    /\ row.cases = Len(Manifests[z].cases)
    BY <2>1 DEF ArchiveInv, RowStored
  <2> QED
    BY <2>1, <2>2, StoredSetPasses
<1> QED
  BY TypeInitially, ArchiveInitially, TypeStep, ArchiveStep, <1>1, PTL DEF Spec

-----------------------------------------------------------------------------
(* The console and the publication gate.                                   *)

\* GetProblemAuthoringState: the stepper and the gate read the same rows and agree, so
\* an author is never sent to a step other than the one an approval would be refused for.
THEOREM ConsoleAgreesWithGate == Spec => []ConsoleNamesFirstBlocker
<1>1. ConsoleNamesFirstBlocker
  <2> SUFFICES ASSUME NEW p \in Problems
               PROVE  LET blockers == loadProblemAuthoringReadiness(p, GetCurrentProblemStatement(p),
                                                                    GetCurrentTestcaseSet(p))
                          flow == buildProblemAuthoringFlow(p)
                      IN  IF blockers = <<>> THEN flow \in {<<>>, <<"review">>}
                          ELSE Head(flow) = Head(blockers)
    BY DEF ConsoleNamesFirstBlocker
  <2> DEFINE s == GetCurrentProblemStatement(p)
             t == GetCurrentTestcaseSet(p)
             valid == CheckValid(p, GetLatestCompletedProblemCheckRun(p, s, t))
             toReview == stepStatus("review", problem[p].status \in {"in_review", "published"})
  <2>1. /\ loadProblemAuthoringReadiness(p, s, t) =
              (IF s = 0 THEN <<"statement">> ELSE <<>>)
              \o (IF t = 0 THEN <<"testcase">> ELSE <<>>)
              \o (IF s # 0 /\ t # 0 /\ ~valid THEN <<"check">> ELSE <<>>)
        /\ buildProblemAuthoringFlow(p) =
              (IF s = 0 THEN <<"statement">> ELSE <<>>)
              \o (IF t = 0 THEN <<"testcase">> ELSE <<>>)
              \o (IF s # 0 /\ t # 0 /\ valid THEN <<>> ELSE <<"check">>)
              \o toReview
    BY DEF loadProblemAuthoringReadiness, buildProblemAuthoringFlow, stepStatus
  <2>2. toReview \in {<<>>, <<"review">>}
    BY DEF stepStatus
  <2> HIDE DEF s, t, valid, toReview
  <2> DEFINE blockers == loadProblemAuthoringReadiness(p, s, t)
             flow == buildProblemAuthoringFlow(p)
  <2>3. CASE s = 0
    <3>1. Head(blockers) = "statement" /\ blockers # <<>>
      BY <2>1, <2>3
    <3>2. Head(flow) = "statement"
      BY <2>1, <2>2, <2>3
    <3> QED
      BY <3>1, <3>2 DEF s, t
  <2>4. CASE s # 0 /\ t = 0
    <3>1. Head(blockers) = "testcase" /\ blockers # <<>>
      BY <2>1, <2>4
    <3>2. Head(flow) = "testcase"
      BY <2>1, <2>2, <2>4
    <3> QED
      BY <3>1, <3>2 DEF s, t
  <2>5. CASE s # 0 /\ t # 0 /\ ~valid
    <3>1. Head(blockers) = "check" /\ blockers # <<>>
      BY <2>1, <2>5
    <3>2. Head(flow) = "check"
      BY <2>1, <2>2, <2>5
    <3> QED
      BY <3>1, <3>2 DEF s, t
  <2>6. CASE s # 0 /\ t # 0 /\ valid
    <3>1. blockers = <<>>
      BY <2>1, <2>6
    <3>2. flow = toReview
      BY <2>1, <2>2, <2>6
    <3> QED
      BY <2>2, <3>1, <3>2 DEF s, t
  <2> QED
    BY <2>3, <2>4, <2>5, <2>6
<1> QED
  BY <1>1, PTL

-----------------------------------------------------------------------------
(* The parser.  One member at a time: what the loop holds stays clean      *)
(* exactly as long as the next member fits.                                *)

IsParse(st) ==
    /\ DOMAIN st = {"files", "declared", "inputs", "outputs", "codes"}
    /\ st.files \in Nat /\ st.declared \in Nat

Clean(codes) == codes \subseteq {"file_ignored"}

IsMember(m) ==
    /\ {m.dir, m.readable} \subseteq BOOLEAN /\ m.key \in Seq(Tokens)
    /\ {m.declared, m.compressed} \subseteq Nat

\* The member is an input or an output that takes part in the pairing.
Counts(m) == ~m.dir /\ ~ignoredArchivePath(m)

\* A member that counts, on its own.
Sound(m) ==
    /\ classifyTestcaseFile(m) # None
    /\ m.readable /\ m.declared \in 1 .. Budgets.entry
    /\ ~compressionRatioExceeded(m)

Stems(st, kind) == IF kind = "inputs" THEN DOMAIN st.inputs ELSE DOMAIN st.outputs

\* The member leaves the loop without an error.
Fits(st, m) ==
    /\ ~m.dir => st.files + 1 <= Budgets.files
    /\ Counts(m) => /\ Sound(m)
                    /\ st.declared + m.declared <= Budgets.total
                    /\ m.key \notin Stems(st, classifyTestcaseFile(m))

\* The stem the member brings to the map of a kind, if it does.
KeyAs(m, kind) == {k \in {m.key} : Counts(m) /\ classifyTestcaseFile(m) = kind}

\* What the loop holds after a member that fits.
Follows(st, m, r) ==
    /\ r.files = st.files + (IF m.dir THEN 0 ELSE 1)
    /\ r.declared = st.declared + (IF Counts(m) THEN m.declared ELSE 0)
    /\ \A kind \in {"inputs", "outputs"} :
          Stems(r, kind) = Stems(st, kind) \cup KeyAs(m, kind)

\* Clean after a member that fits, and never clean again after one that does not.
Parses(st, m, r) ==
    /\ IsParse(r) /\ st.codes \subseteq r.codes
    /\ Clean(r.codes) <=> Clean(st.codes) /\ Fits(st, m)
    /\ Clean(r.codes) => Follows(st, m, r)

LEMMA FoundEffect ==
    ASSUME NEW st, IsParse(st), NEW code
    PROVE  /\ IsParse(Found(st, code)) /\ Found(st, code).codes = st.codes \cup {code}
           /\ Found(st, code).files = st.files /\ Found(st, code).declared = st.declared
           /\ Found(st, code).inputs = st.inputs /\ Found(st, code).outputs = st.outputs
BY DEF IsParse, Found

LEMMA RecordEffect ==
    ASSUME NEW st, IsParse(st), NEW kind \in {"inputs", "outputs"}, NEW key, NEW i, NEW r,
           r = recordArchiveEntry(st, kind, key, i)
    PROVE  /\ IsParse(r) /\ st.codes \subseteq r.codes /\ r.files = st.files /\ r.declared = st.declared
           /\ key \in Stems(st, kind) => ~Clean(r.codes)
           /\ key \notin Stems(st, kind) =>
                 /\ r.codes = st.codes
                 /\ \A k \in {"inputs", "outputs"} :
                       Stems(r, k) = Stems(st, k) \cup {x \in {key} : k = kind}
<1>0. st[kind] = IF kind = "inputs" THEN st.inputs ELSE st.outputs
  OBVIOUS
<1>1. CASE key \in Stems(st, kind)
  <2>1. r = Found(st, "case_duplicate")
    BY <1>0, <1>1 DEF recordArchiveEntry, Stems
  <2>2. /\ IsParse(r) /\ r.codes = st.codes \cup {"case_duplicate"}
        /\ r.files = st.files /\ r.declared = st.declared
    BY <2>1, FoundEffect
  <2>3. ~Clean(r.codes) /\ st.codes \subseteq r.codes
    BY <2>2 DEF Clean
  <2> QED
    BY <1>1, <2>2, <2>3
<1>2. CASE key \notin Stems(st, kind)
  <2> DEFINE f == Entered(st[kind], key, i)
  <2>1. r = [st EXCEPT ![kind] = f]
    BY <1>0, <1>2 DEF recordArchiveEntry, Stems
  <2>2. DOMAIN f = DOMAIN st[kind] \cup {key}
    BY DEF Entered
  <2> HIDE DEF f
  <2>3. /\ IsParse(r) /\ r.codes = st.codes /\ r.files = st.files /\ r.declared = st.declared
        /\ r.inputs = IF kind = "inputs" THEN f ELSE st.inputs
        /\ r.outputs = IF kind = "inputs" THEN st.outputs ELSE f
    BY <2>1 DEF IsParse
  <2>4. \A k \in {"inputs", "outputs"} :
           Stems(r, k) = Stems(st, k) \cup {x \in {key} : k = kind}
    BY <1>0, <2>2, <2>3 DEF Stems
  <2> QED
    BY <1>2, <2>3, <2>4
<1> QED
  BY <1>1, <1>2

LEMMA BudgetTypes ==
    /\ Budgets.bytes \in Nat /\ Budgets.entry \in Nat /\ Budgets.total \in Nat
    /\ Budgets.files \in Nat /\ Budgets.ratio \in Nat
    /\ None \notin {"inputs", "outputs", "entry_too_large", "total_size_exceeded",
                    "compression_ratio_exceeded"}
<1>1. Budgets \in [bytes : Nat, entry : Nat, total : Nat, files : Nat, ratio : Nat]
  BY ArchiveAssumption
<1>2. /\ Budgets.bytes \in Nat /\ Budgets.entry \in Nat /\ Budgets.total \in Nat
      /\ Budgets.files \in Nat /\ Budgets.ratio \in Nat
  BY <1>1
<1> QED
  BY <1>2, ArchiveAssumption

\* A member that ends in a finding other than a warning does not fit.
LEMMA RefusedMember ==
    ASSUME NEW st, NEW m, NEW r, IsParse(r), NEW code, code # "file_ignored",
           st.codes \subseteq r.codes, code \in r.codes, ~Fits(st, m)
    PROVE  Parses(st, m, r)
BY DEF Parses, Clean

\* One pass of the loop of parseArchive.
LEMMA MemberEffect ==
    ASSUME NEW st, IsParse(st), NEW i, NEW m, IsMember(m), NEW r, r = parseMember(st, i, m)
    PROVE  Parses(st, m, r)
<1> DEFINE c == [st EXCEPT !.files = @ + 1]
           kind == classifyTestcaseFile(m)
           code == brokenBudget(c, m)
<1>1. /\ IsParse(c) /\ c.files = st.files + 1 /\ c.declared = st.declared /\ c.codes = st.codes
      /\ c.inputs = st.inputs /\ c.outputs = st.outputs
  BY DEF IsParse
<1>2. r = IF m.dir THEN st
          ELSE IF c.files > Budgets.files THEN Found(c, "file_count_exceeded")
          ELSE IF ignoredArchivePath(m) THEN Found(c, "file_ignored")
          ELSE IF kind = None THEN Found(c, "file_name_invalid")
          ELSE IF code # None THEN recordArchiveEntry(Found(c, code), kind, m.key, i)
          ELSE readArchiveEntry([c EXCEPT !.declared = @ + m.declared], m, kind, i)
  BY DEF parseMember
<1>3. /\ m.dir \in BOOLEAN /\ m.readable \in BOOLEAN /\ m.declared \in Nat /\ m.compressed \in Nat
      /\ st.files \in Nat /\ st.declared \in Nat
  BY DEF IsMember, IsParse
<1>4. kind \in {"inputs", "outputs", None}
  BY DEF classifyTestcaseFile
<1>5. /\ code \in {"entry_too_large", "total_size_exceeded", "compression_ratio_exceeded", None}
      /\ code = None <=> /\ m.declared <= Budgets.entry
                         /\ st.declared + m.declared <= Budgets.total
                         /\ ~compressionRatioExceeded(m)
  <2> HIDE DEF c
  <2> QED
    BY <1>1, <1>3, BudgetTypes DEF brokenBudget
<1>6. \A k : Stems(c, k) = Stems(st, k)
  BY <1>1 DEF Stems
<1> HIDE DEF c, kind, code
<1>7. CASE m.dir
  <2>1. r = st /\ ~Counts(m)
    BY <1>2, <1>7 DEF Counts
  <2>2. Fits(st, m) /\ Follows(st, m, r)
    BY <1>3, <1>7, <2>1 DEF Fits, Follows, KeyAs
  <2> QED
    BY <2>1, <2>2 DEF Parses
<1>8. CASE ~m.dir /\ c.files > Budgets.files
  <2>1. r = Found(c, "file_count_exceeded")
    BY <1>2, <1>8
  <2>2. IsParse(r) /\ st.codes \subseteq r.codes /\ "file_count_exceeded" \in r.codes
    BY <1>1, <2>1, FoundEffect
  <2>3. ~Fits(st, m)
    BY <1>1, <1>3, <1>8, BudgetTypes DEF Fits
  <2> QED
    BY <2>2, <2>3, RefusedMember
<1>9. CASE ~m.dir /\ ~(c.files > Budgets.files) /\ ignoredArchivePath(m)
  <2>1. r = Found(c, "file_ignored") /\ ~Counts(m)
    BY <1>2, <1>9 DEF Counts
  <2>2. /\ IsParse(r) /\ r.codes = st.codes \cup {"file_ignored"} /\ r.files = st.files + 1
        /\ r.declared = st.declared /\ r.inputs = st.inputs /\ r.outputs = st.outputs
    BY <1>1, <2>1, FoundEffect
  <2>3. Fits(st, m)
    BY <1>1, <1>3, <1>9, <2>1, BudgetTypes DEF Fits
  <2>4. Follows(st, m, r)
    BY <1>3, <1>9, <2>1, <2>2 DEF Follows, Stems, KeyAs
  <2> QED
    BY <2>2, <2>3, <2>4 DEF Parses, Clean
<1>10. CASE ~m.dir /\ ~(c.files > Budgets.files) /\ ~ignoredArchivePath(m)
  <2>c. Counts(m) /\ st.files + 1 <= Budgets.files
    BY <1>1, <1>3, <1>10, BudgetTypes DEF Counts
  <2>1. CASE kind = None
    <3>1. r = Found(c, "file_name_invalid")
      BY <1>2, <1>10, <2>1
    <3>2. IsParse(r) /\ st.codes \subseteq r.codes /\ "file_name_invalid" \in r.codes
      BY <1>1, <3>1, FoundEffect
    <3>3. ~Fits(st, m)
      BY <2>1, <2>c DEF Fits, Sound, kind
    <3> QED
      BY <3>2, <3>3, RefusedMember
  <2>2. CASE kind # None /\ code # None
    <3>1. r = recordArchiveEntry(Found(c, code), kind, m.key, i)
      BY <1>2, <1>10, <2>2
    <3>2. IsParse(Found(c, code)) /\ Found(c, code).codes = st.codes \cup {code}
      BY <1>1, FoundEffect
    <3>3. IsParse(r) /\ Found(c, code).codes \subseteq r.codes
      <4> DEFINE b == Found(c, code)
      <4> HIDE DEF b
      <4>1. IsParse(b) /\ r = recordArchiveEntry(b, kind, m.key, i) /\ kind \in {"inputs", "outputs"}
        BY <1>4, <2>2, <3>1, <3>2 DEF b
      <4>2. IsParse(r) /\ b.codes \subseteq r.codes
        BY <4>1, RecordEffect
      <4> QED
        BY <4>2 DEF b
    <3>4. ~Fits(st, m)
      BY <1>3, <1>5, <2>2, <2>c, BudgetTypes DEF Fits, Sound
    <3> QED
      BY <1>5, <2>2, <3>2, <3>3, <3>4, RefusedMember
  <2>3. CASE kind # None /\ code = None
    <3> DEFINE d == [c EXCEPT !.declared = @ + m.declared]
    <3>1. r = readArchiveEntry(d, m, kind, i)
      BY <1>2, <1>10, <2>3
    <3>2. /\ IsParse(d) /\ d.files = st.files + 1 /\ d.declared = st.declared + m.declared
          /\ d.codes = st.codes /\ d.inputs = st.inputs /\ d.outputs = st.outputs
      BY <1>1, <1>3 DEF IsParse
    <3>s. \A k : Stems(d, k) = Stems(st, k)
      BY <3>2 DEF Stems
    <3> HIDE DEF d
    <3>3. CASE ~m.readable
      <4>1. r = Found(d, "zip_invalid")
        BY <3>1, <3>3 DEF readArchiveEntry
      <4>2. IsParse(r) /\ st.codes \subseteq r.codes /\ "zip_invalid" \in r.codes
        BY <3>2, <4>1, FoundEffect
      <4>3. ~Fits(st, m)
        BY <2>c, <3>3 DEF Fits, Sound
      <4> QED
        BY <4>2, <4>3, RefusedMember
    <3>4. CASE m.readable /\ m.declared = 0
      <4>1. r = Found(d, "entry_empty")
        BY <3>1, <3>4 DEF readArchiveEntry
      <4>2. IsParse(r) /\ st.codes \subseteq r.codes /\ "entry_empty" \in r.codes
        BY <3>2, <4>1, FoundEffect
      <4>3. ~Fits(st, m)
        BY <2>c, <3>4 DEF Fits, Sound
      <4> QED
        BY <4>2, <4>3, RefusedMember
    <3>5. CASE m.readable /\ m.declared # 0
      <4>1. r = recordArchiveEntry(d, kind, m.key, i) /\ kind \in {"inputs", "outputs"}
        BY <1>4, <2>3, <3>1, <3>5 DEF readArchiveEntry
      <4>2. /\ IsParse(r) /\ d.codes \subseteq r.codes /\ r.files = d.files /\ r.declared = d.declared
            /\ m.key \in Stems(d, kind) => ~Clean(r.codes)
            /\ m.key \notin Stems(d, kind) =>
                  /\ r.codes = d.codes
                  /\ \A k \in {"inputs", "outputs"} :
                        Stems(r, k) = Stems(d, k) \cup {x \in {m.key} : k = kind}
        BY <3>2, <4>1, RecordEffect
      <4>3. Fits(st, m) <=> m.key \notin Stems(st, kind)
        BY <1>3, <1>5, <2>3, <2>c, <3>5, BudgetTypes DEF Fits, Sound, kind
      <4>4. CASE m.key \in Stems(st, kind)
        BY <3>2, <3>s, <4>2, <4>3, <4>4 DEF Parses
      <4>5. CASE m.key \notin Stems(st, kind)
        <5>1. Follows(st, m, r)
          BY <1>3, <1>10, <2>c, <3>2, <3>s, <4>2, <4>5 DEF Follows, kind, KeyAs
        <5> QED
          BY <3>2, <3>s, <4>2, <4>3, <4>5, <5>1 DEF Parses
      <4> QED
        BY <4>4, <4>5
    <3> QED
      BY <1>3, <3>3, <3>4, <3>5
  <2> QED
    BY <2>1, <2>2, <2>3
<1> QED
  BY <1>3, <1>7, <1>8, <1>9, <1>10

-----------------------------------------------------------------------------
(* The loop over the members.                                              *)

\* Induction up to n, for a set.
LEMMA UpTo ==
    ASSUME NEW n \in Nat, NEW T, 0 \in T,
           \A m \in 0 .. n : m \in T /\ m # n => m + 1 \in T
    PROVE  0 .. n \subseteq T
<1> DEFINE U == {m \in 0 .. n : m \notin T}
<1> SUFFICES ASSUME U # {}
             PROVE  FALSE
  OBVIOUS
<1>1. PICK m \in U : \A k \in U : m <= k
  <2>1. U \in SUBSET Nat
    OBVIOUS
  <2> HIDE DEF U
  <2> QED
    BY <2>1, LeastNatural
<1>2. m # 0 /\ m \in 0 .. n /\ m \notin T
  OBVIOUS
<1>3. m - 1 \in 0 .. n /\ m - 1 # n /\ m - 1 \notin U /\ (m - 1) + 1 = m
  BY <1>1, <1>2
<1>4. m - 1 \in T
  BY <1>3
<1> QED
  BY <1>2, <1>3, <1>4

LEMMA MembersTyped ==
    ASSUME NEW z, IsArchive(z)
    PROVE  /\ Len(z.members) \in Nat /\ DOMAIN z.members = 1 .. Len(z.members)
           /\ \A i \in 1 .. Len(z.members) : IsMember(z.members[i])
BY DEF IsArchive, IsMember

\* The loop has an outcome after every member.
LEMMA LoopExists ==
    ASSUME NEW z, IsArchive(z)
    PROVE  \E g : g = [n \in 0 .. Len(z.members) |->
                          IF n = 0 THEN NoEntries ELSE parseMember(g[n - 1], n, z.members[n])]
<1> DEFINE l == Len(z.members)
           Good(m) == \E g : /\ g = [i \in 0 .. m |-> g[i]] /\ g[0] = NoEntries
                             /\ \A i \in 1 .. m : g[i] = parseMember(g[i - 1], i, z.members[i])
           T == {m \in Nat : Good(m)}
<1>0. l \in Nat
  BY MembersTyped
<1> HIDE DEF l
<1>1. Good(0)
  <2> DEFINE g == [i \in 0 .. 0 |-> NoEntries]
  <2>1. g = [i \in 0 .. 0 |-> g[i]] /\ g[0] = NoEntries /\ 1 .. 0 = {}
    OBVIOUS
  <2> HIDE DEF g
  <2> QED
    BY <2>1
<1>2. ASSUME NEW m \in 0 .. l, m # l, Good(m)
      PROVE  Good(m + 1)
  <2>1. PICK g : /\ g = [i \in 0 .. m |-> g[i]] /\ g[0] = NoEntries
                 /\ \A i \in 1 .. m : g[i] = parseMember(g[i - 1], i, z.members[i])
    BY <1>2
  <2> DEFINE h == [i \in 0 .. (m + 1) |->
                      IF i = m + 1 THEN parseMember(g[m], m + 1, z.members[m + 1]) ELSE g[i]]
  <2>2. m \in Nat
    BY <1>0, <1>2
  <2>3. h = [i \in 0 .. (m + 1) |-> h[i]]
    OBVIOUS
  <2>4. h[0] = NoEntries
    BY <2>1, <2>2
  <2>5. ASSUME NEW i \in 1 .. (m + 1)
        PROVE  h[i] = parseMember(h[i - 1], i, z.members[i])
    <3>1. CASE i = m + 1
      <4>1. h[m + 1] = parseMember(g[m], m + 1, z.members[m + 1]) /\ h[m] = g[m] /\ (m + 1) - 1 = m
        BY <2>2
      <4> QED
        BY <3>1, <4>1
    <3>2. CASE i \in 1 .. m
      <4>1. i - 1 \in 0 .. (m + 1) /\ i - 1 # m + 1 /\ i # m + 1 /\ i \in 0 .. (m + 1)
        BY <2>2, <3>2
      <4>2. h[i] = g[i] /\ h[i - 1] = g[i - 1]
        BY <4>1
      <4> QED
        BY <2>1, <3>2, <4>2
    <3> QED
      BY <3>1, <3>2, <2>2
  <2> HIDE DEF h
  <2> QED
    BY <2>3, <2>4, <2>5
<1> HIDE DEF Good
<1>3. 0 .. l \subseteq T
  <2>1. 0 \in T /\ \A m \in 0 .. l : m \in T /\ m # l => m + 1 \in T
    BY <1>0, <1>1, <1>2
  <2> HIDE DEF T
  <2> QED
    BY <1>0, <2>1, UpTo
<1>4. Good(l)
  BY <1>0, <1>3
<1>5. PICK g : /\ g = [i \in 0 .. l |-> g[i]] /\ g[0] = NoEntries
               /\ \A i \in 1 .. l : g[i] = parseMember(g[i - 1], i, z.members[i])
  BY <1>4 DEF Good
<1>6. \A i \in 0 .. l : g[i] = IF i = 0 THEN NoEntries ELSE parseMember(g[i - 1], i, z.members[i])
  <2> TAKE i \in 0 .. l
  <2>1. CASE i = 0
    BY <1>5, <2>1
  <2>2. CASE i # 0
    <3>1. i \in 1 .. l
      BY <1>0, <2>2
    <3> QED
      BY <1>5, <2>2, <3>1
  <2> QED
    BY <2>1, <2>2
<1>7. g = [i \in 0 .. l |-> IF i = 0 THEN NoEntries ELSE parseMember(g[i - 1], i, z.members[i])]
  BY <1>5, <1>6
<1> QED
  BY <1>7 DEF l

LEMMA LoopEquation ==
    ASSUME NEW z, IsArchive(z)
    PROVE  parseMembers(z) = [n \in 0 .. Len(z.members) |->
               IF n = 0 THEN NoEntries ELSE parseMember(parseMembers(z)[n - 1], n, z.members[n])]
BY LoopExists DEF parseMembers

LEMMA LoopByMember ==
    ASSUME NEW z, IsArchive(z)
    PROVE  /\ parseMembers(z)[0] = NoEntries
           /\ \A n \in 1 .. Len(z.members) :
                 parseMembers(z)[n] = parseMember(parseMembers(z)[n - 1], n, z.members[n])
<1> DEFINE f == parseMembers(z)
           l == Len(z.members)
<1>1. f = [n \in 0 .. l |-> IF n = 0 THEN NoEntries ELSE parseMember(f[n - 1], n, z.members[n])]
  BY LoopEquation
<1>2. l \in Nat
  BY MembersTyped
<1> HIDE DEF f, l
<1>3. f[0] = NoEntries /\ \A n \in 1 .. l : f[n] = parseMember(f[n - 1], n, z.members[n])
  BY <1>1, <1>2
<1> QED
  BY <1>3 DEF f, l

\* What the members that count declare, one member at a time.
LEMMA DeclaredExists ==
    ASSUME NEW z, IsArchive(z)
    PROVE  \E g : g = [n \in 0 .. Len(z.members) |->
               IF n = 0 THEN 0
               ELSE g[n - 1] + (IF n \in Considered(z) THEN z.members[n].declared ELSE 0)]
<1> DEFINE l == Len(z.members)
           a(n) == IF n \in Considered(z) THEN z.members[n].declared ELSE 0
           Good(m) == \E g \in [0 .. m -> Nat] : g[0] = 0 /\ \A i \in 1 .. m : g[i] = g[i - 1] + a(i)
           T == {m \in Nat : Good(m)}
<1>0. l \in Nat /\ \A i \in 1 .. l : a(i) \in Nat
  BY MembersTyped DEF IsMember
<1> HIDE DEF l, a
<1>1. Good(0)
  <2> DEFINE g == [i \in 0 .. 0 |-> 0]
  <2>1. g \in [0 .. 0 -> Nat] /\ g[0] = 0 /\ 1 .. 0 = {}
    OBVIOUS
  <2> HIDE DEF g
  <2> QED
    BY <2>1
<1>2. ASSUME NEW m \in 0 .. l, m # l, Good(m)
      PROVE  Good(m + 1)
  <2>1. PICK g \in [0 .. m -> Nat] : g[0] = 0 /\ \A i \in 1 .. m : g[i] = g[i - 1] + a(i)
    BY <1>2
  <2> DEFINE h == [i \in 0 .. (m + 1) |-> IF i = m + 1 THEN g[m] + a(m + 1) ELSE g[i]]
  <2>2. m \in Nat /\ m + 1 \in 1 .. l
    BY <1>0, <1>2
  <2>3. g[m] + a(m + 1) \in Nat
    BY <1>0, <2>2
  <2>4. h \in [0 .. (m + 1) -> Nat]
    BY <2>2, <2>3
  <2>5. h[0] = 0
    BY <2>1, <2>2
  <2>6. ASSUME NEW i \in 1 .. (m + 1)
        PROVE  h[i] = h[i - 1] + a(i)
    <3>1. CASE i = m + 1
      BY <2>2, <3>1
    <3>2. CASE i \in 1 .. m
      <4>1. i - 1 \in 0 .. (m + 1) /\ i - 1 # m + 1 /\ i # m + 1 /\ i \in 0 .. (m + 1)
        BY <2>2, <3>2
      <4> QED
        BY <2>1, <2>2, <3>2, <4>1
    <3> QED
      BY <3>1, <3>2, <2>2
  <2> HIDE DEF h
  <2> QED
    BY <2>4, <2>5, <2>6
<1> HIDE DEF Good
<1>3. 0 .. l \subseteq T
  <2>1. 0 \in T /\ \A m \in 0 .. l : m \in T /\ m # l => m + 1 \in T
    BY <1>0, <1>1, <1>2
  <2> HIDE DEF T
  <2> QED
    BY <1>0, <2>1, UpTo
<1>4. Good(l)
  BY <1>0, <1>3
<1>5. PICK g \in [0 .. l -> Nat] : g[0] = 0 /\ \A i \in 1 .. l : g[i] = g[i - 1] + a(i)
  BY <1>4 DEF Good
<1>6. g = [i \in 0 .. l |-> IF i = 0 THEN 0 ELSE g[i - 1] + a(i)]
  BY <1>0, <1>5
<1> QED
  BY <1>6 DEF l, a

LEMMA DeclaredEquation ==
    ASSUME NEW z, IsArchive(z)
    PROVE  DeclaredUpTo(z) = [n \in 0 .. Len(z.members) |->
               IF n = 0 THEN 0
               ELSE DeclaredUpTo(z)[n - 1]
                       + (IF n \in Considered(z) THEN z.members[n].declared ELSE 0)]
BY DeclaredExists DEF DeclaredUpTo

LEMMA DeclaredByMember ==
    ASSUME NEW z, IsArchive(z)
    PROVE  /\ DeclaredUpTo(z)[0] = 0
           /\ \A n \in 1 .. Len(z.members) :
                 DeclaredUpTo(z)[n] = DeclaredUpTo(z)[n - 1]
                     + (IF Counts(z.members[n]) THEN z.members[n].declared ELSE 0)
           /\ \A n \in 0 .. Len(z.members) : DeclaredUpTo(z)[n] \in Nat
<1> DEFINE f == DeclaredUpTo(z)
           l == Len(z.members)
           a(n) == IF n \in Considered(z) THEN z.members[n].declared ELSE 0
           T == {m \in Nat : f[m] \in Nat}
<1>1. f = [n \in 0 .. l |-> IF n = 0 THEN 0 ELSE f[n - 1] + a(n)]
  BY DeclaredEquation
<1>2. l \in Nat /\ \A i \in 1 .. l : a(i) \in Nat
  BY MembersTyped DEF IsMember
<1>3. \A n \in 1 .. l : a(n) = IF Counts(z.members[n]) THEN z.members[n].declared ELSE 0
  BY MembersTyped DEF Considered, Counts
<1> HIDE DEF f, l, a
<1>4. f[0] = 0 /\ \A n \in 1 .. l : f[n] = f[n - 1] + a(n)
  BY <1>1, <1>2
<1>5. 0 .. l \subseteq T
  <2>1. 0 \in T
    BY <1>4
  <2>2. ASSUME NEW m \in 0 .. l, m \in T, m # l
        PROVE  m + 1 \in T
    <3>1. m + 1 \in 1 .. l /\ (m + 1) - 1 = m /\ f[m] \in Nat
      BY <1>2, <2>2
    <3>2. f[m + 1] = f[m] + a(m + 1)
      BY <1>4, <3>1
    <3> QED
      BY <1>2, <3>1, <3>2
  <2> HIDE DEF T
  <2> QED
    BY <1>2, <2>1, <2>2, UpTo
<1> QED
  BY <1>3, <1>4, <1>5 DEF f, l

Files(z, n) == {i \in 1 .. n : ~z.members[i].dir}

KeysUpTo(z, n, kind) ==
    {z.members[i].key : i \in {j \in 1 .. n : /\ Counts(z.members[j])
                                              /\ classifyTestcaseFile(z.members[j]) = kind}}

Twins(a, b) ==
    /\ Counts(a) /\ Counts(b) /\ a.key = b.key
    /\ classifyTestcaseFile(a) = classifyTestcaseFile(b)

\* Nothing in the first n members calls for an error.
PrefixGood(z, n) ==
    /\ Cardinality(Files(z, n)) <= Budgets.files
    /\ \A i \in 1 .. n : Counts(z.members[i]) => Sound(z.members[i])
    /\ \A i, j \in 1 .. n : Twins(z.members[i], z.members[j]) => i = j
    /\ DeclaredUpTo(z)[n] <= Budgets.total

\* The loop invariant: no error so far exactly if nothing called for one, and
\* then the counters and the two maps stand for the members seen.
Scanned(z, n, st) ==
    /\ IsParse(st)
    /\ Clean(st.codes) <=> PrefixGood(z, n)
    /\ Clean(st.codes) => /\ st.files = Cardinality(Files(z, n))
                          /\ st.declared = DeclaredUpTo(z)[n]
                          /\ \A kind \in {"inputs", "outputs"} : Stems(st, kind) = KeysUpTo(z, n, kind)

LEMMA FilesCounted ==
    ASSUME NEW z, IsArchive(z), NEW n \in 0 .. Len(z.members)
    PROVE  IsFiniteSet(Files(z, n)) /\ Cardinality(Files(z, n)) \in Nat
<1>1. n \in Nat
  BY MembersTyped
<1>2. IsFiniteSet(1 .. n)
  BY <1>1, FS_Interval
<1>3. Files(z, n) \in SUBSET (1 .. n)
  BY DEF Files
<1>4. IsFiniteSet(Files(z, n))
  BY <1>2, <1>3, FS_Subset
<1> QED
  BY <1>4, FS_CardinalityType

LEMMA OneMoreFile ==
    ASSUME NEW z, IsArchive(z), NEW n \in 0 .. Len(z.members), n # Len(z.members)
    PROVE  Cardinality(Files(z, n + 1)) =
               Cardinality(Files(z, n)) + (IF z.members[n + 1].dir THEN 0 ELSE 1)
<1>1. n \in Nat /\ 1 .. (n + 1) = (1 .. n) \cup {n + 1} /\ n + 1 \notin 1 .. n
  BY MembersTyped
<1>2. IsFiniteSet(Files(z, n)) /\ Cardinality(Files(z, n)) \in Nat
  BY FilesCounted
<1>3. n + 1 \notin Files(z, n)
  BY <1>1 DEF Files
<1>4. CASE z.members[n + 1].dir
  <2>1. Files(z, n + 1) = Files(z, n)
    BY <1>1, <1>4 DEF Files
  <2> QED
    BY <1>2, <1>4, <2>1
<1>5. CASE ~z.members[n + 1].dir
  <2>1. Files(z, n + 1) = Files(z, n) \cup {n + 1}
    BY <1>1, <1>5 DEF Files
  <2>2. Cardinality(Files(z, n) \cup {n + 1}) = Cardinality(Files(z, n)) + 1
    BY <1>2, <1>3, FS_AddElement
  <2> QED
    BY <1>5, <2>1, <2>2
<1> QED
  BY <1>4, <1>5

\* The keys met after one more member.
KeysGrowBy(z, n, m) ==
    \A kind : KeysUpTo(z, n + 1, kind) = KeysUpTo(z, n, kind) \cup KeyAs(m, kind)

LEMMA OneMoreKey ==
    ASSUME NEW z, NEW n \in Nat, NEW m, m = z.members[n + 1]
    PROVE  KeysGrowBy(z, n, m)
<1> SUFFICES ASSUME NEW kind
             PROVE  KeysUpTo(z, n + 1, kind) = KeysUpTo(z, n, kind) \cup KeyAs(m, kind)
  BY DEF KeysGrowBy
<1>1. 1 .. (n + 1) = (1 .. n) \cup {n + 1}
  OBVIOUS
<1> DEFINE P(j) == Counts(z.members[j]) /\ classifyTestcaseFile(z.members[j]) = kind
<1>2. {j \in 1 .. (n + 1) : P(j)} = {j \in 1 .. n : P(j)} \cup {j \in {n + 1} : P(j)}
  BY <1>1
<1>3. P(n + 1) <=> Counts(m) /\ classifyTestcaseFile(m) = kind
  OBVIOUS
<1> HIDE DEF P
<1>4. {z.members[i].key : i \in {j \in 1 .. (n + 1) : P(j)}} =
      {z.members[i].key : i \in {j \in 1 .. n : P(j)}} \cup {k \in {m.key} : P(n + 1)}
  BY <1>2
<1> QED
  BY <1>3, <1>4 DEF P, KeysUpTo, KeyAs

\* Nothing in n + 1 members calls for an error: nothing in the first n, and not the last.
LEMMA PrefixStep ==
    ASSUME NEW z, IsArchive(z), NEW n \in 0 .. Len(z.members), n # Len(z.members),
           NEW m, m = z.members[n + 1]
    PROVE  PrefixGood(z, n + 1) <=>
             /\ PrefixGood(z, n)
             /\ ~m.dir => Cardinality(Files(z, n)) + 1 <= Budgets.files
             /\ Counts(m) => /\ Sound(m)
                             /\ DeclaredUpTo(z)[n] + m.declared <= Budgets.total
                             /\ m.key \notin KeysUpTo(z, n, classifyTestcaseFile(m))
<1>1. n \in Nat /\ 1 .. (n + 1) = (1 .. n) \cup {n + 1} /\ n + 1 \notin 1 .. n /\ n + 1 \in 1 .. Len(z.members)
      /\ (n + 1) - 1 = n
  BY MembersTyped
<1>2. /\ Cardinality(Files(z, n + 1)) = Cardinality(Files(z, n)) + (IF m.dir THEN 0 ELSE 1)
      /\ Cardinality(Files(z, n)) \in Nat
  BY OneMoreFile, FilesCounted
<1>3. /\ DeclaredUpTo(z)[n + 1] = DeclaredUpTo(z)[n] + (IF Counts(m) THEN m.declared ELSE 0)
      /\ DeclaredUpTo(z)[n] \in Nat /\ m.declared \in Nat
  <2>1. DeclaredUpTo(z)[n + 1] = DeclaredUpTo(z)[(n + 1) - 1]
                     + (IF Counts(z.members[n + 1]) THEN z.members[n + 1].declared ELSE 0)
    BY <1>1, DeclaredByMember
  <2>2. DeclaredUpTo(z)[n] \in Nat
    BY DeclaredByMember
  <2>3. m.declared \in Nat
    BY <1>1, MembersTyped DEF IsMember
  <2> QED
    BY <1>1, <2>1, <2>2, <2>3
<1>4. (\A i \in 1 .. (n + 1) : Counts(z.members[i]) => Sound(z.members[i])) <=>
      (\A i \in 1 .. n : Counts(z.members[i]) => Sound(z.members[i])) /\ (Counts(m) => Sound(m))
  BY <1>1
<1>5. \A i, j : Twins(z.members[i], z.members[j]) <=> Twins(z.members[j], z.members[i])
  BY DEF Twins
<1>6. (\A i, j \in 1 .. (n + 1) : Twins(z.members[i], z.members[j]) => i = j) <=>
      /\ \A i, j \in 1 .. n : Twins(z.members[i], z.members[j]) => i = j
      /\ \A i \in 1 .. n : ~Twins(z.members[i], m)
  BY <1>1, <1>5
<1>7. (\A i \in 1 .. n : ~Twins(z.members[i], m)) <=>
      (Counts(m) => m.key \notin KeysUpTo(z, n, classifyTestcaseFile(m)))
  BY DEF Twins, KeysUpTo
<1>8. /\ Cardinality(Files(z, n + 1)) <= Budgets.files <=>
           /\ Cardinality(Files(z, n)) <= Budgets.files
           /\ ~m.dir => Cardinality(Files(z, n)) + 1 <= Budgets.files
      /\ DeclaredUpTo(z)[n + 1] <= Budgets.total <=>
           /\ DeclaredUpTo(z)[n] <= Budgets.total
           /\ Counts(m) => DeclaredUpTo(z)[n] + m.declared <= Budgets.total
  BY <1>2, <1>3, BudgetTypes, SMTT(40)
<1> QED
  BY <1>4, <1>6, <1>7, <1>8 DEF PrefixGood

LEMMA ScannedNothing ==
    ASSUME NEW z, IsArchive(z)
    PROVE  Scanned(z, 0, NoEntries)
<1>1. 1 .. 0 = {}
  OBVIOUS
<1>2. Files(z, 0) = {} /\ \A kind : KeysUpTo(z, 0, kind) = {}
  BY <1>1 DEF Files, KeysUpTo
<1>3. Cardinality(Files(z, 0)) = 0 /\ DeclaredUpTo(z)[0] = 0
  BY <1>2, FS_EmptySet, DeclaredByMember
<1>4. PrefixGood(z, 0)
  BY <1>1, <1>3, BudgetTypes DEF PrefixGood
<1>5. IsParse(NoEntries) /\ Clean(NoEntries.codes) /\ NoEntries.files = 0 /\ NoEntries.declared = 0
  BY DEF IsParse, Clean, NoEntries
<1>6. \A kind \in {"inputs", "outputs"} : Stems(NoEntries, kind) = {}
  <2>1. DOMAIN NoEntries.inputs = {} /\ DOMAIN NoEntries.outputs = {}
    <3>1. DOMAIN << >> = {}
      OBVIOUS
    <3> QED
      BY <3>1 DEF NoEntries
  <2> QED
    BY <2>1 DEF Stems
<1> QED
  BY <1>2, <1>3, <1>4, <1>5, <1>6 DEF Scanned

LEMMA ScannedStep ==
    ASSUME NEW z, IsArchive(z), NEW n \in 0 .. Len(z.members), n # Len(z.members),
           NEW st, Scanned(z, n, st), NEW r, r = parseMember(st, n + 1, z.members[n + 1])
    PROVE  Scanned(z, n + 1, r)
<1> DEFINE m == z.members[n + 1]
           kind == classifyTestcaseFile(m)
<1>1. n \in Nat /\ n + 1 \in 1 .. Len(z.members) /\ (n + 1) - 1 = n
  BY MembersTyped
<1>2. IsMember(m)
  BY <1>1, MembersTyped
<1>3. IsParse(st)
  BY DEF Scanned
<1>4. PICK x : x = m
  OBVIOUS
<1>5. Parses(st, x, r)
  BY <1>2, <1>3, <1>4, MemberEffect
<1>6. PrefixGood(z, n + 1) <=>
             /\ PrefixGood(z, n)
             /\ ~x.dir => Cardinality(Files(z, n)) + 1 <= Budgets.files
             /\ Counts(x) => /\ Sound(x)
                             /\ DeclaredUpTo(z)[n] + x.declared <= Budgets.total
                             /\ x.key \notin KeysUpTo(z, n, classifyTestcaseFile(x))
  BY <1>4, PrefixStep
<1>7. CASE ~Clean(st.codes)
  BY <1>5, <1>6, <1>7 DEF Scanned, Parses
<1>8. CASE Clean(st.codes)
  <2>1. /\ PrefixGood(z, n) /\ st.files = Cardinality(Files(z, n)) /\ st.declared = DeclaredUpTo(z)[n]
        /\ \A k \in {"inputs", "outputs"} : Stems(st, k) = KeysUpTo(z, n, k)
    BY <1>8 DEF Scanned
  <2>2. Sound(x) => classifyTestcaseFile(x) \in {"inputs", "outputs"}
    BY DEF Sound, classifyTestcaseFile
  <2>3. PrefixGood(z, n + 1) <=> Fits(st, x)
    BY <1>6, <2>1, <2>2 DEF Fits
  <2>4. IsParse(r) /\ (Clean(r.codes) <=> PrefixGood(z, n + 1)) /\ (Clean(r.codes) => Follows(st, x, r))
    BY <1>5, <1>8, <2>3 DEF Parses
  <2>5. ASSUME Clean(r.codes)
        PROVE  /\ r.files = Cardinality(Files(z, n + 1))
               /\ r.declared = DeclaredUpTo(z)[n + 1]
               /\ \A k \in {"inputs", "outputs"} : Stems(r, k) = KeysUpTo(z, n + 1, k)
    <3>1. Follows(st, x, r)
      BY <2>4, <2>5
    <3>2. Cardinality(Files(z, n + 1)) = Cardinality(Files(z, n)) + (IF x.dir THEN 0 ELSE 1)
      BY <1>4, OneMoreFile
    <3>3. DeclaredUpTo(z)[n + 1] = DeclaredUpTo(z)[n] + (IF Counts(x) THEN x.declared ELSE 0)
      BY <1>1, <1>4, DeclaredByMember
    <3>4. \A k : KeysUpTo(z, n + 1, k) = KeysUpTo(z, n, k) \cup KeyAs(x, k)
      <4>1. n \in Nat /\ x = z.members[n + 1]
        BY <1>1, <1>4
      <4>2. KeysGrowBy(z, n, x)
        BY <4>1, OneMoreKey
      <4> QED
        BY <4>2 DEF KeysGrowBy
    <3>5. /\ r.files = st.files + (IF x.dir THEN 0 ELSE 1)
          /\ r.declared = st.declared + (IF Counts(x) THEN x.declared ELSE 0)
          /\ \A k \in {"inputs", "outputs"} :
                Stems(r, k) = Stems(st, k) \cup KeyAs(x, k)
      BY <3>1 DEF Follows
    <3>6. r.files = Cardinality(Files(z, n + 1)) /\ r.declared = DeclaredUpTo(z)[n + 1]
      BY <2>1, <3>2, <3>3, <3>5
    <3>7. ASSUME NEW k \in {"inputs", "outputs"}
          PROVE  Stems(r, k) = KeysUpTo(z, n + 1, k)
      BY <2>1, <3>4, <3>5, Zenon
    <3> QED
      BY <3>6, <3>7
  <2> QED
    BY <2>4, <2>5 DEF Scanned
<1> QED
  BY <1>7, <1>8

\* The loop invariant holds after every member.
LEMMA LoopInvariant ==
    ASSUME NEW z, IsArchive(z)
    PROVE  Scanned(z, Len(z.members), parseMembers(z)[Len(z.members)])
<1> DEFINE l == Len(z.members)
           T == {n \in Nat : Scanned(z, n, parseMembers(z)[n])}
<1>1. l \in Nat
  BY MembersTyped
<1>2. 0 \in T
  BY ScannedNothing, LoopByMember
<1>3. ASSUME NEW n \in 0 .. l, n \in T, n # l
      PROVE  n + 1 \in T
  <2>1. n \in Nat /\ n + 1 \in 1 .. l /\ (n + 1) - 1 = n /\ Scanned(z, n, parseMembers(z)[n])
    BY <1>1, <1>3
  <2>2. parseMembers(z)[n + 1] = parseMember(parseMembers(z)[n], n + 1, z.members[n + 1])
    BY <2>1, LoopByMember
  <2>3. Scanned(z, n + 1, parseMembers(z)[n + 1])
    BY <1>3, <2>1, <2>2, ScannedStep
  <2> QED
    BY <2>1, <2>3
<1>4. 0 .. l \subseteq T
  <2> HIDE DEF T
  <2> QED
    BY <1>1, <1>2, <1>3, UpTo
<1>5. l \in T
  BY <1>1, <1>4
<1> QED
  BY <1>5

-----------------------------------------------------------------------------
(* The verdict on the archive.                                             *)

\* What the parser needs of an archive it accepts, after the loop.
Paired(z) ==
    LET n == Len(z.members)
    IN  /\ z.zip /\ z.size \in 1 .. Budgets.bytes /\ PrefixGood(z, n)
        /\ KeysUpTo(z, n, "inputs") = KeysUpTo(z, n, "outputs") /\ KeysUpTo(z, n, "inputs") # {}

\* Accepted: no error in the loop, no half missing, at least one case.
LEMMA AcceptedIsPaired ==
    ASSUME NEW z, IsArchive(z)
    PROVE  Accepted(ValidateArchive(z)) <=> Paired(z)
<1> DEFINE st == parseMembers(z)[Len(z.members)]
           stems == DOMAIN st.inputs \cap DOMAIN st.outputs
           n == Len(z.members)
           r == ValidateArchive(z)
<1>0. z.size \in Int /\ z.zip \in BOOLEAN /\ Budgets.bytes \in Nat
  BY BudgetTypes DEF IsArchive
<1>1. CASE z.size <= 0 \/ z.size > Budgets.bytes \/ ~z.zip
  <2>1. r = Rejected("zip_invalid") \/ r = Rejected("archive_too_large")
    BY <1>0, <1>1 DEF ValidateArchive, parseArchive
  <2>2. r.codes = {"zip_invalid"} \/ r.codes = {"archive_too_large"}
    BY <2>1 DEF Rejected
  <2>3. ~Accepted(r)
    BY <2>2 DEF Accepted, HasErrorFindings
  <2>4. ~Paired(z)
    BY <1>0, <1>1 DEF Paired
  <2> QED
    BY <2>3, <2>4
<1>2. CASE ~(z.size <= 0) /\ ~(z.size > Budgets.bytes) /\ z.zip
  <2>1. r.codes = st.codes \cup missingPairs(st) \cup (IF stems = {} THEN {"archive_empty"} ELSE {})
    BY <1>0, <1>2 DEF ValidateArchive, parseArchive
  <2>2. Scanned(z, n, st)
    BY LoopInvariant
  <2> HIDE DEF st, n, r
  <2>3. Accepted(r) <=> /\ Clean(st.codes)
                        /\ DOMAIN st.inputs = DOMAIN st.outputs /\ DOMAIN st.inputs # {}
    BY <2>1 DEF Accepted, HasErrorFindings, Clean, missingPairs
  <2>4. /\ Clean(st.codes) <=> PrefixGood(z, n)
        /\ Clean(st.codes) => /\ DOMAIN st.inputs = KeysUpTo(z, n, "inputs")
                              /\ DOMAIN st.outputs = KeysUpTo(z, n, "outputs")
    BY <2>2 DEF Scanned, Stems
  <2>5. z.size \in 1 .. Budgets.bytes
    BY <1>0, <1>2
  <2> QED
    BY <1>2, <2>3, <2>4, <2>5 DEF Paired, n, r
<1> QED
  BY <1>0, <1>1, <1>2

\* One member of a kind and key, or none, or several.
LEMMA OneOfAKind ==
    ASSUME NEW z, IsArchive(z), NEW kind, NEW key
    PROVE  /\ IsFiniteSet(Of(z, kind, key))
           /\ Cardinality(Of(z, kind, key)) = 1 <=> \E x : Of(z, kind, key) = {x}
<1>1. Len(z.members) \in Nat /\ Of(z, kind, key) \in SUBSET (1 .. Len(z.members))
  BY MembersTyped DEF Of, Considered
<1>2. IsFiniteSet(1 .. Len(z.members))
  BY <1>1, FS_Interval
<1>3. IsFiniteSet(Of(z, kind, key))
  BY <1>1, <1>2, FS_Subset
<1> QED
  BY <1>3, FS_Singleton

\* Who the members are that count, and that are of a kind and key.
LEMMA MembersOf ==
    ASSUME NEW z, IsArchive(z)
    PROVE  /\ \A i : i \in Considered(z) <=> i \in 1 .. Len(z.members) /\ Counts(z.members[i])
           /\ \A kind, key, i : i \in Of(z, kind, key) <=>
                 /\ i \in 1 .. Len(z.members) /\ Counts(z.members[i])
                 /\ z.members[i].key = key /\ classifyTestcaseFile(z.members[i]) = kind
           /\ \A kind, key : key \in KeysUpTo(z, Len(z.members), kind) <=> Of(z, kind, key) # {}
<1>1. \A i : i \in Considered(z) <=> i \in 1 .. Len(z.members) /\ Counts(z.members[i])
  BY MembersTyped DEF Considered, Counts
<1>2. \A kind, key, i : i \in Of(z, kind, key) <=>
                 /\ i \in 1 .. Len(z.members) /\ Counts(z.members[i])
                 /\ z.members[i].key = key /\ classifyTestcaseFile(z.members[i]) = kind
  BY <1>1 DEF Of
<1>3. ASSUME NEW kind, NEW key
      PROVE  key \in KeysUpTo(z, Len(z.members), kind) <=> Of(z, kind, key) # {}
  BY <1>2 DEF KeysUpTo
<1> QED
  BY <1>1, <1>2, <1>3

LEMMA PairedIsWellPaired ==
    ASSUME NEW z, IsArchive(z)
    PROVE  Paired(z) <=> WellPaired(z)
<1> DEFINE n == Len(z.members)
           c(i) == classifyTestcaseFile(z.members[i])
           k(i) == z.members[i].key
           Both(i) == /\ Cardinality(Of(z, "inputs", k(i))) = 1
                      /\ Cardinality(Of(z, "outputs", k(i))) = 1
           Alone == \A i, j \in 1 .. n : Twins(z.members[i], z.members[j]) => i = j
           Halves == /\ KeysUpTo(z, n, "inputs") = KeysUpTo(z, n, "outputs")
                     /\ KeysUpTo(z, n, "inputs") # {}
<1>1. {i \in DOMAIN z.members : ~z.members[i].dir} = Files(z, n)
  BY MembersTyped DEF Files
<1>2. WellPaired(z) <=>
        /\ z.zip /\ z.size \in 1 .. Budgets.bytes
        /\ Cardinality(Files(z, n)) <= Budgets.files
        /\ Considered(z) # {}
        /\ \A i \in Considered(z) : Sound(z.members[i]) /\ Both(i)
        /\ DeclaredUpTo(z)[n] <= Budgets.total
  BY <1>1 DEF WellPaired, Sound
<1>3. Paired(z) <=>
        /\ z.zip /\ z.size \in 1 .. Budgets.bytes
        /\ Cardinality(Files(z, n)) <= Budgets.files
        /\ \A i \in Considered(z) : Sound(z.members[i])
        /\ Alone /\ Halves
        /\ DeclaredUpTo(z)[n] <= Budgets.total
  <2>1. (\A i \in 1 .. n : Counts(z.members[i]) => Sound(z.members[i]))
           <=> \A i \in Considered(z) : Sound(z.members[i])
    BY MembersOf
  <2> QED
    BY <2>1 DEF Paired, PrefixGood
<1>4. ASSUME \A i \in Considered(z) : Sound(z.members[i])
      PROVE  Alone /\ Halves <=> Considered(z) # {} /\ \A i \in Considered(z) : Both(i)
  <2>1. \A i \in Considered(z) : c(i) \in {"inputs", "outputs"} /\ i \in Of(z, c(i), k(i))
    <3> TAKE i \in Considered(z)
    <3>1. Sound(z.members[i])
      BY <1>4
    <3>2. c(i) \in {"inputs", "outputs"}
      BY <3>1 DEF Sound, classifyTestcaseFile
    <3>3. i \in Of(z, c(i), k(i))
      BY MembersOf
    <3> QED
      BY <3>2, <3>3
  <2>2. \A kind, key, i : i \in Of(z, kind, key) => /\ i \in Considered(z) /\ i \in 1 .. n
                                                    /\ k(i) = key /\ c(i) = kind
    BY MembersOf
  <2>3. \A kind, key : key \in KeysUpTo(z, n, kind) <=> Of(z, kind, key) # {}
    BY MembersOf
  <2>4. \A i, j \in 1 .. n : Twins(z.members[i], z.members[j]) <=>
              i \in Considered(z) /\ j \in Considered(z) /\ k(i) = k(j) /\ c(i) = c(j)
    BY MembersOf DEF Twins
  <2>5. \A kind, key : Cardinality(Of(z, kind, key)) = 1 <=> \E x : Of(z, kind, key) = {x}
    BY OneOfAKind
  <2> HIDE DEF n, c, k
  <2>6. ASSUME Alone, Halves
        PROVE  Considered(z) # {} /\ \A i \in Considered(z) : Both(i)
    <3>1. Considered(z) # {}
      BY <2>2, <2>3, <2>6
    <3>2. ASSUME NEW i \in Considered(z), NEW kind \in {"inputs", "outputs"}
          PROVE  Cardinality(Of(z, kind, k(i))) = 1
      <4>1. k(i) \in KeysUpTo(z, n, c(i)) /\ c(i) \in {"inputs", "outputs"}
        BY <2>1, <2>3
      <4>2. k(i) \in KeysUpTo(z, n, kind)
        BY <2>6, <4>1
      <4>3. PICK x : x \in Of(z, kind, k(i))
        BY <2>3, <4>2
      <4>4. ASSUME NEW y \in Of(z, kind, k(i))
            PROVE  y = x
        BY <2>2, <2>4, <2>6, <4>3
      <4>5. Of(z, kind, k(i)) = {x}
        BY <4>3, <4>4
      <4> QED
        BY <2>5, <4>5
    <3> QED
      BY <3>1, <3>2
  <2>7. ASSUME Considered(z) # {}, \A i \in Considered(z) : Both(i)
        PROVE  Alone /\ Halves
    <3>1. \A i \in Considered(z) : \A kind \in {"inputs", "outputs"} : \E x : Of(z, kind, k(i)) = {x}
      BY <2>5, <2>7
    <3>2. Alone
      <4> SUFFICES ASSUME NEW i \in 1 .. n, NEW j \in 1 .. n, Twins(z.members[i], z.members[j])
                   PROVE  i = j
        OBVIOUS
      <4>1. i \in Considered(z) /\ j \in Considered(z) /\ k(i) = k(j) /\ c(i) = c(j)
        BY <2>4
      <4>2. i \in Of(z, c(i), k(i)) /\ j \in Of(z, c(i), k(i)) /\ c(i) \in {"inputs", "outputs"}
        BY <2>1, <4>1
      <4>3. PICK x : Of(z, c(i), k(i)) = {x}
        BY <3>1, <4>1, <4>2
      <4> QED
        BY <4>2, <4>3
    <3>3. \A kind \in {"inputs", "outputs"} : \A key :
             key \in KeysUpTo(z, n, kind) => \A other \in {"inputs", "outputs"} :
                key \in KeysUpTo(z, n, other)
      BY <2>2, <2>3, <3>1
    <3>4. KeysUpTo(z, n, "inputs") = KeysUpTo(z, n, "outputs")
      BY <3>3
    <3>5. KeysUpTo(z, n, "inputs") # {}
      <4>1. PICK i \in Considered(z) : TRUE
        BY <2>7
      <4>2. k(i) \in KeysUpTo(z, n, "inputs")
        BY <2>3, <3>1, <4>1
      <4> QED
        BY <4>2
    <3> QED
      BY <3>2, <3>4, <3>5
  <2> QED
    BY <2>6, <2>7
<1> HIDE DEF Both, Alone, Halves
<1> QED
  BY <1>2, <1>3, <1>4

-----------------------------------------------------------------------------
(* The natural order of the cases is total.                                *)

LEMMA TokenFields ==
    ASSUME NEW t \in Tokens
    PROVE  /\ t.digit \in BOOLEAN
           /\ t.digit => /\ t \in [digit : {TRUE}, zeros : Nat, value : Nat]
                         /\ t.zeros \in Nat /\ t.value \in Nat
           /\ ~t.digit => /\ t \in [digit : {FALSE}, fold : Nat, exact : Nat]
                          /\ t.fold \in Nat /\ t.exact \in Nat
<1>1. CASE t \in [digit : {TRUE}, zeros : Nat, value : Nat]
  BY <1>1
<1>2. CASE t \in [digit : {FALSE}, fold : Nat, exact : Nat]
  BY <1>2
<1> QED
  BY <1>1, <1>2 DEF Tokens

LEMMA EqualTokens ==
    ASSUME NEW a \in Tokens, NEW b \in Tokens, a.digit = b.digit,
           a.digit => a.zeros = b.zeros /\ a.value = b.value,
           ~a.digit => a.fold = b.fold /\ a.exact = b.exact
    PROVE  a = b
<1>1. CASE a.digit
  <2>1. /\ a \in [digit : {TRUE}, zeros : Nat, value : Nat]
        /\ b \in [digit : {TRUE}, zeros : Nat, value : Nat]
    BY <1>1, TokenFields
  <2>2. /\ a = [digit |-> TRUE, zeros |-> a.zeros, value |-> a.value]
        /\ b = [digit |-> TRUE, zeros |-> b.zeros, value |-> b.value]
    BY <2>1
  <2>3. a.zeros = b.zeros /\ a.value = b.value
    BY <1>1
  <2> QED
    BY <2>2, <2>3, Zenon
<1>2. CASE ~a.digit
  <2>1. /\ a \in [digit : {FALSE}, fold : Nat, exact : Nat]
        /\ b \in [digit : {FALSE}, fold : Nat, exact : Nat]
    BY <1>2, TokenFields
  <2> QED
    BY <1>2, <2>1
<1> QED
  BY <1>1, <1>2

LEMMA TokenOrder ==
    ASSUME NEW a \in Tokens, NEW b \in Tokens, NEW c \in Tokens
    PROVE  /\ ~compareNaturalTokens(a, a)
           /\ a # b => compareNaturalTokens(a, b) \/ compareNaturalTokens(b, a)
           /\ compareNaturalTokens(a, b) /\ compareNaturalTokens(b, c) => compareNaturalTokens(a, c)
<1>1. /\ a.digit \in BOOLEAN /\ b.digit \in BOOLEAN /\ c.digit \in BOOLEAN
      /\ a.digit => a.zeros \in Nat /\ a.value \in Nat
      /\ b.digit => b.zeros \in Nat /\ b.value \in Nat
      /\ c.digit => c.zeros \in Nat /\ c.value \in Nat
      /\ ~a.digit => a.fold \in Nat /\ a.exact \in Nat
      /\ ~b.digit => b.fold \in Nat /\ b.exact \in Nat
      /\ ~c.digit => c.fold \in Nat /\ c.exact \in Nat
  BY TokenFields
<1>2. ~compareNaturalTokens(a, a)
  BY <1>1 DEF compareNaturalTokens, compareDigits, compareTexts
<1>3. ASSUME a # b
      PROVE  compareNaturalTokens(a, b) \/ compareNaturalTokens(b, a)
  <2>1. \/ a.digit # b.digit
        \/ a.digit /\ b.digit /\ (a.zeros # b.zeros \/ a.value # b.value)
        \/ ~a.digit /\ ~b.digit /\ (a.fold # b.fold \/ a.exact # b.exact)
    BY <1>1, <1>3, EqualTokens
  <2> QED
    BY <1>1, <2>1 DEF compareNaturalTokens, compareDigits, compareTexts
<1>4. ASSUME compareNaturalTokens(a, b), compareNaturalTokens(b, c)
      PROVE  compareNaturalTokens(a, c)
  <2>1. CASE a.digit /\ b.digit /\ c.digit
    BY <1>1, <1>4, <2>1 DEF compareNaturalTokens, compareDigits
  <2>2. CASE ~a.digit /\ ~b.digit /\ ~c.digit
    BY <1>1, <1>4, <2>2 DEF compareNaturalTokens, compareTexts
  <2>3. CASE ~(a.digit = b.digit /\ b.digit = c.digit)
    BY <1>1, <1>4, <2>3 DEF compareNaturalTokens
  <2> QED
    BY <1>1, <2>1, <2>2, <2>3
<1> QED
  BY <1>2, <1>3, <1>4

LEMMA KeyTokens ==
    ASSUME NEW a \in Seq(Tokens)
    PROVE  Len(a) \in Nat /\ DOMAIN a = 1 .. Len(a) /\ \A i \in 1 .. Len(a) : a[i] \in Tokens
BY LenProperties, ElementOfSeq

LEMMA NaturalIrreflexive ==
    ASSUME NEW a \in Seq(Tokens)
    PROVE  ~naturalLess(a, a)
<1>1. Len(a) \in Nat /\ DOMAIN a = 1 .. Len(a) /\ \A i \in 1 .. Len(a) : a[i] \in Tokens
  BY KeyTokens
<1>2. \A i \in DOMAIN a : ~compareNaturalTokens(a[i], a[i])
  BY <1>1, TokenOrder
<1> QED
  BY <1>1, <1>2 DEF naturalLess

LEMMA NaturalTotal ==
    ASSUME NEW a \in Seq(Tokens), NEW b \in Seq(Tokens), a # b
    PROVE  naturalLess(a, b) \/ naturalLess(b, a)
<1>1. /\ Len(a) \in Nat /\ DOMAIN a = 1 .. Len(a) /\ \A i \in 1 .. Len(a) : a[i] \in Tokens
      /\ Len(b) \in Nat /\ DOMAIN b = 1 .. Len(b) /\ \A i \in 1 .. Len(b) : b[i] \in Tokens
  BY KeyTokens
<1> DEFINE D == {i \in DOMAIN a \cap DOMAIN b : a[i] # b[i]}
<1>2. CASE D = {}
  <2>1. \A i \in DOMAIN a \cap DOMAIN b : a[i] = b[i]
    BY <1>2
  <2>2. Len(a) # Len(b)
    <3> SUFFICES ASSUME Len(a) = Len(b)
                 PROVE  a = b
      OBVIOUS
    <3>1. \A i \in 1 .. Len(a) : a[i] = b[i]
      BY <1>1, <2>1
    <3> QED
      BY <3>1, SeqEqual
  <2>3. CASE Len(a) < Len(b)
    <3>1. \A j \in DOMAIN a : a[j] = b[j]
      BY <1>1, <2>1, <2>3
    <3> QED
      BY <2>3, <3>1 DEF naturalLess
  <2>4. CASE Len(b) < Len(a)
    <3>1. \A j \in DOMAIN b : b[j] = a[j]
      BY <1>1, <2>1, <2>4
    <3> QED
      BY <2>4, <3>1 DEF naturalLess
  <2>5. Len(a) \in Nat /\ Len(b) \in Nat
    BY <1>1
  <2>6. Len(a) < Len(b) \/ Len(b) < Len(a)
    BY <2>2, <2>5
  <2> QED
    BY <2>3, <2>4, <2>6
<1>3. CASE D # {}
  <2>1. D \in SUBSET Nat
    BY <1>1
  <2>2. PICK i \in D : \A k \in D : i <= k
    <3> HIDE DEF D
    <3> QED
      BY <1>3, <2>1, LeastNatural
  <2>3. i \in DOMAIN a \cap DOMAIN b /\ a[i] # b[i]
    OBVIOUS
  <2>4. \A j \in 1 .. i - 1 : j \in DOMAIN a \cap DOMAIN b /\ j \notin D
    BY <1>1, <2>2, <2>3
  <2>5. \A j \in 1 .. i - 1 : a[j] = b[j] /\ b[j] = a[j]
    BY <2>4
  <2>6. compareNaturalTokens(a[i], b[i]) \/ compareNaturalTokens(b[i], a[i])
    BY <1>1, <2>3, TokenOrder
  <2> QED
    BY <2>3, <2>5, <2>6 DEF naturalLess
<1> QED
  BY <1>2, <1>3

LEMMA NaturalTransitive ==
    ASSUME NEW a \in Seq(Tokens), NEW b \in Seq(Tokens), NEW c \in Seq(Tokens),
           naturalLess(a, b), naturalLess(b, c)
    PROVE  naturalLess(a, c)
<1>1. /\ Len(a) \in Nat /\ DOMAIN a = 1 .. Len(a) /\ \A i \in 1 .. Len(a) : a[i] \in Tokens
      /\ Len(b) \in Nat /\ DOMAIN b = 1 .. Len(b) /\ \A i \in 1 .. Len(b) : b[i] \in Tokens
      /\ Len(c) \in Nat /\ DOMAIN c = 1 .. Len(c) /\ \A i \in 1 .. Len(c) : c[i] \in Tokens
  BY KeyTokens
<1> DEFINE Differs(x, y, i) == /\ i \in DOMAIN x \cap DOMAIN y /\ compareNaturalTokens(x[i], y[i])
                           /\ \A j \in 1 .. i - 1 : x[j] = y[j]
           Starts(x, y) == Len(x) < Len(y) /\ \A j \in DOMAIN x : x[j] = y[j]
<1>2. \A x, y : naturalLess(x, y) <=> (\E i : Differs(x, y, i)) \/ Starts(x, y)
  BY DEF naturalLess
<1>3. ASSUME NEW i, NEW k, Differs(a, b, i), Differs(b, c, k)
      PROVE  \E n : Differs(a, c, n)
  <2>1. i \in 1 .. Len(a) /\ i \in 1 .. Len(b) /\ k \in 1 .. Len(b) /\ k \in 1 .. Len(c)
    BY <1>1, <1>3
  <2>2. CASE i < k
    <3>1. i \in 1 .. k - 1 /\ i \in DOMAIN c
      BY <1>1, <2>1, <2>2
    <3>2. b[i] = c[i] /\ \A j \in 1 .. i - 1 : j \in 1 .. k - 1
      BY <1>3, <2>1, <3>1
    <3>3. Differs(a, c, i)
      BY <1>3, <3>1, <3>2
    <3> QED
      BY <3>3
  <2>3. CASE k < i
    <3>1. k \in 1 .. i - 1 /\ k \in DOMAIN a
      BY <1>1, <2>1, <2>3
    <3>2. a[k] = b[k] /\ \A j \in 1 .. k - 1 : j \in 1 .. i - 1
      BY <1>3, <2>1, <3>1
    <3>3. Differs(a, c, k)
      BY <1>3, <3>1, <3>2
    <3> QED
      BY <3>3
  <2>4. CASE i = k
    <3>1. compareNaturalTokens(a[i], c[i])
      BY <1>1, <1>3, <2>1, <2>4, TokenOrder
    <3>2. Differs(a, c, i)
      BY <1>3, <2>4, <3>1
    <3> QED
      BY <3>2
  <2> QED
    BY <2>1, <2>2, <2>3, <2>4
<1>4. ASSUME NEW i, Differs(a, b, i), Starts(b, c)
      PROVE  Differs(a, c, i)
  <2>1. i \in 1 .. Len(a) /\ i \in 1 .. Len(b)
    BY <1>1, <1>4
  <2>2. i \in DOMAIN c /\ b[i] = c[i] /\ \A j \in 1 .. i - 1 : j \in DOMAIN b
    BY <1>1, <1>4, <2>1
  <2> QED
    BY <1>4, <2>2
<1>5. ASSUME NEW k, Starts(a, b), Differs(b, c, k)
      PROVE  Differs(a, c, k) \/ Starts(a, c)
  <2>1. k \in 1 .. Len(b) /\ k \in 1 .. Len(c)
    BY <1>1, <1>5
  <2>2. CASE k <= Len(a)
    <3>1. k \in DOMAIN a /\ a[k] = b[k] /\ \A j \in 1 .. k - 1 : j \in DOMAIN a
      BY <1>1, <1>5, <2>1, <2>2
    <3> QED
      BY <1>5, <3>1
  <2>3. CASE ~(k <= Len(a))
    <3>1. Len(a) < Len(c) /\ \A j \in DOMAIN a : j \in 1 .. k - 1
      BY <1>1, <2>1, <2>3
    <3> QED
      BY <1>5, <3>1
  <2> QED
    BY <2>2, <2>3
<1>6. ASSUME Starts(a, b), Starts(b, c)
      PROVE  Starts(a, c)
  <2>1. \A j \in DOMAIN a : j \in DOMAIN b
    BY <1>1, <1>6
  <2> QED
    BY <1>1, <1>6, <2>1
<1> HIDE DEF Differs, Starts
<1> QED
  BY <1>2, <1>3, <1>4, <1>5, <1>6

\* A set of stems in order: each at the place the number of smaller ones gives it.
LEMMA SortedExists ==
    ASSUME NEW S \in SUBSET Seq(Tokens), IsFiniteSet(S)
    PROVE  \E s \in [1 .. Cardinality(S) -> S] :
              \A i, j \in 1 .. Cardinality(S) : i < j => s[i] # s[j] /\ ~naturalLess(s[j], s[i])
<1> DEFINE n == Cardinality(S)
           below(x) == {y \in S : naturalLess(y, x)}
           rank == [x \in S |-> Cardinality(below(x)) + 1]
<1>1. n \in Nat
  BY FS_CardinalityType
<1>2. \A x \in S : below(x) \in SUBSET S /\ x \notin below(x)
  BY NaturalIrreflexive
<1>3. \A x \in S : IsFiniteSet(below(x)) /\ Cardinality(below(x)) \in Nat
  BY <1>2, FS_Subset, FS_CardinalityType
<1>4. ASSUME NEW x \in S, NEW y \in S, naturalLess(x, y)
      PROVE  rank[x] < rank[y]
  <2>1. x \in below(y) /\ x \notin below(x)
    BY <1>2, <1>4
  <2>2. below(x) \in SUBSET below(y)
    BY <1>4, NaturalTransitive
  <2>3. below(x) # below(y)
    BY <2>1
  <2>4. Cardinality(below(x)) <= Cardinality(below(y)) /\ Cardinality(below(x)) # Cardinality(below(y))
    <3>1. IsFiniteSet(below(y))
      BY <1>3
    <3> HIDE DEF below
    <3> QED
      BY <2>2, <2>3, <3>1, FS_Subset
  <2>5. Cardinality(below(x)) \in Nat /\ Cardinality(below(y)) \in Nat
    BY <1>3
  <2>6. rank[x] = Cardinality(below(x)) + 1 /\ rank[y] = Cardinality(below(y)) + 1
    OBVIOUS
  <2> HIDE DEF below, rank
  <2> QED
    BY <2>4, <2>5, <2>6
<1>5. ASSUME NEW x \in S
      PROVE  rank[x] \in 1 .. n
  <2>1. below(x) # S /\ below(x) \in SUBSET S
    BY <1>2
  <2>2. Cardinality(below(x)) <= n /\ Cardinality(below(x)) # n
    <3> HIDE DEF below
    <3> QED
      BY <2>1, FS_Subset
  <2>3. Cardinality(below(x)) \in Nat /\ rank[x] = Cardinality(below(x)) + 1
    BY <1>3
  <2> HIDE DEF below, rank, n
  <2> QED
    BY <1>1, <2>2, <2>3
<1>6. DOMAIN rank = S /\ rank \in [S -> 1 .. n]
  <2>1. rank = [x \in S |-> rank[x]]
    OBVIOUS
  <2> HIDE DEF rank, n
  <2> QED
    BY <1>5, <2>1
<1> HIDE DEF rank, below
<1>7. \A x, y \in S : x # y => rank[x] # rank[y]
  <2> SUFFICES ASSUME NEW x \in S, NEW y \in S, x # y
               PROVE  rank[x] # rank[y]
    OBVIOUS
  <2>1. naturalLess(x, y) \/ naturalLess(y, x)
    BY NaturalTotal
  <2>2. rank[x] < rank[y] \/ rank[y] < rank[x]
    BY <1>4, <2>1
  <2>3. rank[x] \in Int /\ rank[y] \in Int
    BY <1>1, <1>5
  <2> QED
    BY <2>2, <2>3
<1>8. rank \in Surjection(S, 1 .. n)
  <2>1. rank \in Injection(S, 1 .. n)
    BY <1>6, <1>7 DEF Injection, IsInjective
  <2>2. IsFiniteSet(1 .. n) /\ Cardinality(1 .. n) = n
    BY <1>1, FS_Interval
  <2> QED
    BY <2>1, <2>2, FS_Injection
<1>9. \A i \in 1 .. n : \E x \in S : rank[x] = i
  BY <1>8 DEF Surjection
<1> DEFINE s == [i \in 1 .. n |-> CHOOSE x \in S : rank[x] = i]
<1>10. \A i \in 1 .. n : s[i] \in S /\ rank[s[i]] = i
  BY <1>9
<1>11. s \in [1 .. n -> S]
  BY <1>9
<1> HIDE DEF s
<1>12. \A i, j \in 1 .. n : i < j => s[i] # s[j] /\ ~naturalLess(s[j], s[i])
  <2> SUFFICES ASSUME NEW i \in 1 .. n, NEW j \in 1 .. n, i < j
               PROVE  s[i] # s[j] /\ ~naturalLess(s[j], s[i])
    OBVIOUS
  <2>1. s[i] \in S /\ s[j] \in S /\ rank[s[i]] = i /\ rank[s[j]] = j
    BY <1>10
  <2>2. naturalLess(s[j], s[i]) => j < i
    BY <1>4, <2>1
  <2>3. i \in Nat /\ j \in Nat
    BY <1>1
  <2> QED
    BY <2>1, <2>2, <2>3
<1> QED
  BY <1>11, <1>12

LEMMA SortedStems ==
    ASSUME NEW S \in SUBSET Seq(Tokens), IsFiniteSet(S), NEW s, s = sortTestcaseKeys(S)
    PROVE  /\ s \in [1 .. Cardinality(S) -> S]
           /\ \A i, j \in 1 .. Cardinality(S) :
                 i < j => s[i] # s[j] /\ naturalLess(s[i], s[j]) /\ ~naturalLess(s[j], s[i])
<1>1. /\ s \in [1 .. Cardinality(S) -> S]
      /\ \A i, j \in 1 .. Cardinality(S) : i < j => s[i] # s[j] /\ ~naturalLess(s[j], s[i])
  BY SortedExists DEF sortTestcaseKeys
<1>2. ASSUME NEW i \in 1 .. Cardinality(S), NEW j \in 1 .. Cardinality(S), i < j
      PROVE  naturalLess(s[i], s[j])
  <2>1. s[i] \in Seq(Tokens) /\ s[j] \in Seq(Tokens)
    BY <1>1
  <2> QED
    BY <1>1, <1>2, <2>1, NaturalTotal
<1> QED
  BY <1>1, <1>2

-----------------------------------------------------------------------------
(* What the two maps hold: every stem leads to a member of its own.        *)

Map(st, kind) == IF kind = "inputs" THEN st.inputs ELSE st.outputs

\* Members 1 .. n of a kind and key.
OfUpTo(z, n, kind, key) ==
    {i \in 1 .. n : /\ Counts(z.members[i]) /\ z.members[i].key = key
                    /\ classifyTestcaseFile(z.members[i]) = kind}

\* Members 1 .. n that count can be read and are not empty.
Legible(z, n) ==
    \A i \in 1 .. n : Counts(z.members[i]) => z.members[i].readable /\ z.members[i].declared > 0

\* Whatever the findings: what the maps name is there, and a member that can be
\* read is in its map unless the loop stopped counting.
Mapped(z, n, st) ==
    /\ IsParse(st) /\ st.codes \cap {"input_missing", "output_missing"} = {}
    /\ \A kind \in {"inputs", "outputs"} :
          /\ \A k \in DOMAIN Map(st, kind) : Map(st, kind)[k] \in OfUpTo(z, n, kind, k)
          /\ Legible(z, n) /\ "file_count_exceeded" \notin st.codes
               => KeysUpTo(z, n, kind) \subseteq DOMAIN Map(st, kind)

LEMMA RecordMaps ==
    ASSUME NEW b, IsParse(b), NEW kind \in {"inputs", "outputs"}, NEW key, NEW i, NEW r,
           r = recordArchiveEntry(b, kind, key, i)
    PROVE  \A k \in {"inputs", "outputs"} :
              Map(r, k) = IF k = kind /\ key \notin DOMAIN Map(b, k) THEN Entered(Map(b, k), key, i)
                          ELSE Map(b, k)
<1>0. b[kind] = Map(b, kind)
  BY DEF Map
<1>1. CASE key \in DOMAIN Map(b, kind)
  <2>1. r = Found(b, "case_duplicate")
    BY <1>0, <1>1 DEF recordArchiveEntry
  <2>2. r.inputs = b.inputs /\ r.outputs = b.outputs
    BY <2>1, FoundEffect
  <2> QED
    BY <1>1, <2>2 DEF Map
<1>2. CASE key \notin DOMAIN Map(b, kind)
  <2> DEFINE f == Entered(Map(b, kind), key, i)
  <2>1. r = [b EXCEPT ![kind] = f]
    BY <1>0, <1>2 DEF recordArchiveEntry
  <2> HIDE DEF f
  <2>2. /\ r.inputs = IF kind = "inputs" THEN f ELSE b.inputs
        /\ r.outputs = IF kind = "inputs" THEN b.outputs ELSE f
    BY <2>1 DEF IsParse
  <2>3. \A k \in {"inputs", "outputs"} : Map(r, k) = IF k = kind THEN f ELSE Map(b, k)
    BY <2>2 DEF Map
  <2> QED
    BY <1>2, <2>3 DEF f
<1> QED
  BY <1>1, <1>2

\* A member is entered in the map of its kind, or it cannot be.
LEMMA MemberMaps ==
    ASSUME NEW st, IsParse(st), NEW i, NEW m, IsMember(m), NEW r, r = parseMember(st, i, m)
    PROVE  \/ /\ r.inputs = st.inputs /\ r.outputs = st.outputs
              /\ \/ "file_count_exceeded" \in r.codes
                 \/ ~Counts(m) \/ classifyTestcaseFile(m) = None \/ ~m.readable \/ m.declared = 0
           \/ /\ Counts(m) /\ classifyTestcaseFile(m) \in {"inputs", "outputs"}
              /\ \E b : /\ IsParse(b) /\ b.inputs = st.inputs /\ b.outputs = st.outputs
                        /\ r = recordArchiveEntry(b, classifyTestcaseFile(m), m.key, i)
<1> DEFINE c == [st EXCEPT !.files = @ + 1]
           d == [c EXCEPT !.declared = @ + m.declared]
           kind == classifyTestcaseFile(m)
           code == brokenBudget(c, m)
<1>1. /\ IsParse(c) /\ c.inputs = st.inputs /\ c.outputs = st.outputs
  BY DEF IsParse
<1>2. m.declared \in Nat /\ m.dir \in BOOLEAN /\ m.readable \in BOOLEAN
  BY DEF IsMember
<1>3. IsParse(d) /\ d.inputs = st.inputs /\ d.outputs = st.outputs
  <2> HIDE DEF c
  <2> QED
    BY <1>1, <1>2 DEF IsParse
<1>4. r = IF m.dir THEN st
          ELSE IF c.files > Budgets.files THEN Found(c, "file_count_exceeded")
          ELSE IF ignoredArchivePath(m) THEN Found(c, "file_ignored")
          ELSE IF kind = None THEN Found(c, "file_name_invalid")
          ELSE IF code # None THEN recordArchiveEntry(Found(c, code), kind, m.key, i)
          ELSE readArchiveEntry(d, m, kind, i)
  BY DEF parseMember
<1>5. kind \in {"inputs", "outputs", None}
  BY DEF classifyTestcaseFile
<1> HIDE DEF c, d, kind, code
<1>6. \A x : /\ IsParse(Found(c, x)) /\ Found(c, x).inputs = st.inputs
             /\ Found(c, x).outputs = st.outputs /\ x \in Found(c, x).codes
  BY <1>1, FoundEffect
<1>7. \A x : Found(d, x).inputs = st.inputs /\ Found(d, x).outputs = st.outputs
  BY <1>3, FoundEffect
<1>8. CASE m.dir
  BY <1>4, <1>8 DEF Counts
<1>9. CASE ~m.dir /\ c.files > Budgets.files
  BY <1>4, <1>6, <1>9
<1>10. CASE ~m.dir /\ ~(c.files > Budgets.files) /\ (ignoredArchivePath(m) \/ kind = None)
  <2>1. r = Found(c, "file_ignored") \/ r = Found(c, "file_name_invalid")
    BY <1>4, <1>10
  <2>2. ~Counts(m) \/ kind = None
    BY <1>10 DEF Counts
  <2> QED
    BY <1>6, <2>1, <2>2 DEF kind
<1>11. CASE ~m.dir /\ ~(c.files > Budgets.files) /\ ~ignoredArchivePath(m) /\ kind # None
  <2>1. Counts(m) /\ kind \in {"inputs", "outputs"}
    BY <1>5, <1>11 DEF Counts
  <2>2. CASE code # None
    <3>1. r = recordArchiveEntry(Found(c, code), kind, m.key, i)
      BY <1>4, <1>11, <2>2
    <3> QED
      BY <1>6, <2>1, <3>1 DEF kind
  <2>3. CASE code = None /\ (~m.readable \/ m.declared = 0)
    <3>1. r = Found(d, "zip_invalid") \/ r = Found(d, "entry_empty")
      BY <1>4, <1>11, <2>3 DEF readArchiveEntry
    <3> QED
      BY <1>7, <2>3, <3>1
  <2>4. CASE code = None /\ m.readable /\ m.declared # 0
    <3>1. r = recordArchiveEntry(d, kind, m.key, i)
      BY <1>4, <1>11, <2>4 DEF readArchiveEntry
    <3> QED
      BY <1>3, <2>1, <3>1 DEF kind
  <2> QED
    BY <1>2, <2>2, <2>3, <2>4
<1> QED
  BY <1>2, <1>8, <1>9, <1>10, <1>11

\* The loop reports no missing half.
LEMMA MemberCodes ==
    ASSUME NEW st, IsParse(st), NEW i, NEW m, IsMember(m), NEW r, r = parseMember(st, i, m),
           NEW missing \in {"input_missing", "output_missing"}, missing \in r.codes
    PROVE  missing \in st.codes
<1> DEFINE c == [st EXCEPT !.files = @ + 1]
           d == [c EXCEPT !.declared = @ + m.declared]
           kind == classifyTestcaseFile(m)
           code == brokenBudget(c, m)
<1>1. IsParse(c) /\ c.codes = st.codes
  BY DEF IsParse
<1>2. m.declared \in Nat
  BY DEF IsMember
<1>3. IsParse(d) /\ d.codes = st.codes
  <2> HIDE DEF c
  <2> QED
    BY <1>1, <1>2 DEF IsParse
<1>4. r = IF m.dir THEN st
          ELSE IF c.files > Budgets.files THEN Found(c, "file_count_exceeded")
          ELSE IF ignoredArchivePath(m) THEN Found(c, "file_ignored")
          ELSE IF kind = None THEN Found(c, "file_name_invalid")
          ELSE IF code # None THEN recordArchiveEntry(Found(c, code), kind, m.key, i)
          ELSE readArchiveEntry(d, m, kind, i)
  BY DEF parseMember
<1>5. kind \in {"inputs", "outputs", None}
  BY DEF classifyTestcaseFile
<1>6. code \in {"entry_too_large", "total_size_exceeded", "compression_ratio_exceeded", None}
  BY DEF brokenBudget
<1> HIDE DEF c, d, kind, code
<1>7. ASSUME NEW b, IsParse(b), NEW x, x # missing, missing \in Found(b, x).codes
      PROVE  missing \in b.codes
  BY <1>7, FoundEffect
<1>8. ASSUME NEW b, IsParse(b), kind # None, missing \in recordArchiveEntry(b, kind, m.key, i).codes
      PROVE  missing \in b.codes
  <2>1. PICK q : q = recordArchiveEntry(b, kind, m.key, i)
    OBVIOUS
  <2>2. q = Found(b, "case_duplicate") \/ q.codes = b.codes
    <3>1. CASE m.key \in DOMAIN b[kind]
      BY <2>1, <3>1 DEF recordArchiveEntry
    <3>2. CASE m.key \notin DOMAIN b[kind]
      <4> DEFINE f == Entered(b[kind], m.key, i)
      <4>1. q = [b EXCEPT ![kind] = f]
        BY <2>1, <3>2 DEF recordArchiveEntry
      <4> HIDE DEF f
      <4> QED
        BY <1>5, <1>8, <4>1 DEF IsParse
    <3> QED
      BY <3>1, <3>2
  <2>3. missing # "case_duplicate" /\ missing \in q.codes
    BY <1>8, <2>1
  <2> QED
    BY <1>7, <1>8, <2>2, <2>3
<1>9. CASE r = st
  BY <1>9
<1>10. CASE \E x : x # missing /\ (r = Found(c, x) \/ r = Found(d, x))
  BY <1>1, <1>3, <1>7, <1>10
<1>11. CASE kind # None /\ code # None /\ r = recordArchiveEntry(Found(c, code), kind, m.key, i)
  <2>1. IsParse(Found(c, code))
    BY <1>1, FoundEffect
  <2>2. missing \in Found(c, code).codes
    BY <1>8, <1>11, <2>1
  <2>3. code # missing
    BY <1>6, <1>11
  <2> QED
    BY <1>1, <1>7, <2>2, <2>3
<1>12. CASE kind # None /\ r = recordArchiveEntry(d, kind, m.key, i)
  BY <1>3, <1>8, <1>12
<1>13. \/ r = st \/ r = Found(c, "file_count_exceeded") \/ r = Found(c, "file_ignored")
       \/ r = Found(c, "file_name_invalid")
       \/ kind # None /\ code # None /\ r = recordArchiveEntry(Found(c, code), kind, m.key, i)
       \/ kind # None /\ r = readArchiveEntry(d, m, kind, i)
  BY <1>4
<1>14. \/ readArchiveEntry(d, m, kind, i) = Found(d, "zip_invalid")
       \/ readArchiveEntry(d, m, kind, i) = Found(d, "entry_empty")
       \/ readArchiveEntry(d, m, kind, i) = recordArchiveEntry(d, kind, m.key, i)
  BY DEF readArchiveEntry
<1>15. {"file_count_exceeded", "file_ignored", "file_name_invalid", "zip_invalid", "entry_empty"}
          \cap {missing} = {}
  OBVIOUS
<1> QED
  BY <1>9, <1>10, <1>11, <1>12, <1>13, <1>14, <1>15

LEMMA MappedNothing ==
    ASSUME NEW z
    PROVE  Mapped(z, 0, NoEntries)
<1>1. IsParse(NoEntries) /\ NoEntries.codes = {}
  BY DEF IsParse, NoEntries
<1>2. \A kind : DOMAIN Map(NoEntries, kind) = {} /\ KeysUpTo(z, 0, kind) = {}
  <2>1. DOMAIN << >> = {} /\ 1 .. 0 = {}
    OBVIOUS
  <2> QED
    BY <2>1 DEF Map, NoEntries, KeysUpTo
<1> QED
  BY <1>1, <1>2 DEF Mapped

LEMMA MappedStep ==
    ASSUME NEW z, IsArchive(z), NEW n \in 0 .. Len(z.members), n # Len(z.members),
           NEW st, Mapped(z, n, st), NEW r, r = parseMember(st, n + 1, z.members[n + 1])
    PROVE  Mapped(z, n + 1, r)
<1>1. /\ n \in Nat /\ n + 1 \in 1 .. Len(z.members) /\ 1 .. (n + 1) = (1 .. n) \cup {n + 1}
  BY MembersTyped
<1>2. PICK m : m = z.members[n + 1]
  OBVIOUS
<1>3. IsMember(m) /\ IsParse(st)
  BY <1>1, <1>2, MembersTyped DEF Mapped
<1>4. IsParse(r) /\ st.codes \subseteq r.codes
  <2>1. Parses(st, m, r)
    BY <1>2, <1>3, MemberEffect
  <2> QED
    BY <2>1 DEF Parses
<1>5. \/ /\ r.inputs = st.inputs /\ r.outputs = st.outputs
         /\ \/ "file_count_exceeded" \in r.codes
            \/ ~Counts(m) \/ classifyTestcaseFile(m) = None \/ ~m.readable \/ m.declared = 0
      \/ /\ Counts(m) /\ classifyTestcaseFile(m) \in {"inputs", "outputs"}
         /\ \E b : /\ IsParse(b) /\ b.inputs = st.inputs /\ b.outputs = st.outputs
                   /\ r = recordArchiveEntry(b, classifyTestcaseFile(m), m.key, n + 1)
  BY <1>2, <1>3, MemberMaps
<1>6. /\ \A kind, k : OfUpTo(z, n, kind, k) \subseteq OfUpTo(z, n + 1, kind, k)
      /\ Counts(m) => n + 1 \in OfUpTo(z, n + 1, classifyTestcaseFile(m), m.key)
  BY <1>1, <1>2 DEF OfUpTo
<1>7. Legible(z, n + 1) => Legible(z, n) /\ (Counts(m) => m.readable /\ m.declared > 0)
  <2> SUFFICES ASSUME Legible(z, n + 1)
               PROVE  Legible(z, n) /\ (Counts(m) => m.readable /\ m.declared > 0)
    OBVIOUS
  <2>1. \A i \in 1 .. n + 1 : Counts(z.members[i]) => z.members[i].readable /\ z.members[i].declared > 0
    BY DEF Legible
  <2>2. Counts(m) => m.readable /\ m.declared > 0
    BY <1>1, <1>2, <2>1
  <2>3. Legible(z, n)
    BY <1>1, <2>1 DEF Legible
  <2> QED
    BY <2>2, <2>3
<1>8. \A kind : KeysUpTo(z, n + 1, kind) = KeysUpTo(z, n, kind) \cup KeyAs(m, kind)
  <2>1. n \in Nat /\ m = z.members[n + 1]
    BY <1>1, <1>2
  <2>2. KeysGrowBy(z, n, m)
    BY <2>1, OneMoreKey
  <2> QED
    BY <2>2 DEF KeysGrowBy
<1>9. m.declared \in Nat
  BY <1>3 DEF IsMember
<1>10. ASSUME NEW kind \in {"inputs", "outputs"}
       PROVE  /\ \A k \in DOMAIN Map(r, kind) : Map(r, kind)[k] \in OfUpTo(z, n + 1, kind, k)
              /\ Legible(z, n + 1) /\ "file_count_exceeded" \notin r.codes
                   => KeysUpTo(z, n + 1, kind) \subseteq DOMAIN Map(r, kind)
  <2>1. /\ \A k \in DOMAIN Map(st, kind) : Map(st, kind)[k] \in OfUpTo(z, n, kind, k)
        /\ Legible(z, n) /\ "file_count_exceeded" \notin st.codes
              => KeysUpTo(z, n, kind) \subseteq DOMAIN Map(st, kind)
    BY DEF Mapped
  <2>2. CASE /\ r.inputs = st.inputs /\ r.outputs = st.outputs
             /\ \/ "file_count_exceeded" \in r.codes
                \/ ~Counts(m) \/ classifyTestcaseFile(m) = None \/ ~m.readable \/ m.declared = 0
    <3>1. Map(r, kind) = Map(st, kind)
      BY <2>2 DEF Map
    <3>2. \A k \in DOMAIN Map(r, kind) : Map(r, kind)[k] \in OfUpTo(z, n + 1, kind, k)
      BY <1>6, <2>1, <3>1
    <3>3. ASSUME Legible(z, n + 1), "file_count_exceeded" \notin r.codes
          PROVE  KeysUpTo(z, n + 1, kind) \subseteq DOMAIN Map(r, kind)
      <4>1. ~(Counts(m) /\ classifyTestcaseFile(m) = kind)
        BY <1>7, <1>9, <2>2, <3>3, BudgetTypes
      <4>2. KeysUpTo(z, n + 1, kind) = KeysUpTo(z, n, kind)
        BY <1>8, <4>1 DEF KeyAs
      <4> QED
        BY <1>4, <1>7, <2>1, <3>1, <3>3, <4>2
    <3> QED
      BY <3>2, <3>3
  <2>3. CASE /\ Counts(m) /\ classifyTestcaseFile(m) \in {"inputs", "outputs"}
             /\ \E b : /\ IsParse(b) /\ b.inputs = st.inputs /\ b.outputs = st.outputs
                       /\ r = recordArchiveEntry(b, classifyTestcaseFile(m), m.key, n + 1)
    <3>1. PICK b : /\ IsParse(b) /\ b.inputs = st.inputs /\ b.outputs = st.outputs
                   /\ r = recordArchiveEntry(b, classifyTestcaseFile(m), m.key, n + 1)
      BY <2>3
    <3>2. Map(b, kind) = Map(st, kind)
      BY <3>1 DEF Map
    <3> DEFINE f == Map(st, kind)
               new == kind = classifyTestcaseFile(m) /\ m.key \notin DOMAIN f
    <3>3. Map(r, kind) = IF new THEN Entered(f, m.key, n + 1) ELSE f
      BY <2>3, <3>1, <3>2, RecordMaps
    <3>4. /\ DOMAIN Entered(f, m.key, n + 1) = DOMAIN f \cup {m.key}
          /\ \A k \in DOMAIN f \cup {m.key} :
                Entered(f, m.key, n + 1)[k] = IF k = m.key THEN n + 1 ELSE f[k]
      BY DEF Entered
    <3>5. \A k \in DOMAIN f : f[k] \in OfUpTo(z, n + 1, kind, k)
      BY <1>6, <2>1
    <3>6. ASSUME Legible(z, n + 1), "file_count_exceeded" \notin r.codes
          PROVE  KeysUpTo(z, n, kind) \subseteq DOMAIN f
      BY <1>4, <1>7, <2>1, <3>6
    <3> HIDE DEF f
    <3>7. CASE new
      <4>1. Map(r, kind) = Entered(f, m.key, n + 1) /\ n + 1 \in OfUpTo(z, n + 1, kind, m.key)
        BY <1>6, <2>3, <3>3, <3>7
      <4> QED
        BY <1>8, <3>4, <3>5, <3>6, <4>1 DEF KeyAs
    <3>8. CASE ~new
      <4>1. Map(r, kind) = f /\ (kind = classifyTestcaseFile(m) => m.key \in DOMAIN f)
        BY <3>3, <3>8
      <4> QED
        BY <1>8, <3>5, <3>6, <4>1 DEF KeyAs
    <3> QED
      BY <3>7, <3>8
  <2> QED
    BY <1>5, <2>2, <2>3
<1>11. r.codes \cap {"input_missing", "output_missing"} = {}
  <2>1. st.codes \cap {"input_missing", "output_missing"} = {}
    BY DEF Mapped
  <2> QED
    BY <1>2, <1>3, <2>1, MemberCodes
<1> QED
  BY <1>4, <1>10, <1>11 DEF Mapped

LEMMA MapsInvariant ==
    ASSUME NEW z, IsArchive(z)
    PROVE  Mapped(z, Len(z.members), parseMembers(z)[Len(z.members)])
<1> DEFINE l == Len(z.members)
           T == {n \in Nat : Mapped(z, n, parseMembers(z)[n])}
<1>1. l \in Nat
  BY MembersTyped
<1>2. 0 \in T
  BY MappedNothing, LoopByMember
<1>3. ASSUME NEW n \in 0 .. l, n \in T, n # l
      PROVE  n + 1 \in T
  <2>1. n \in Nat /\ n + 1 \in 1 .. l /\ (n + 1) - 1 = n /\ Mapped(z, n, parseMembers(z)[n])
    BY <1>1, <1>3
  <2>2. parseMembers(z)[n + 1] = parseMember(parseMembers(z)[n], n + 1, z.members[n + 1])
    BY <2>1, LoopByMember
  <2>3. Mapped(z, n + 1, parseMembers(z)[n + 1])
    BY <1>3, <2>1, <2>2, MappedStep
  <2> QED
    BY <2>1, <2>3
<1>4. 0 .. l \subseteq T
  <2> HIDE DEF T
  <2> QED
    BY <1>1, <1>2, <1>3, UpTo
<1>5. l \in T
  BY <1>1, <1>4
<1> QED
  BY <1>5

-----------------------------------------------------------------------------
(* The cases of an archive the parser accepts.                             *)

Half(z, kind) == {i \in Considered(z) : classifyTestcaseFile(z.members[i]) = kind}

\* No two members of a kind share a stem: a kind has as many members as stems.
LEMMA HalfCounted ==
    ASSUME NEW z, IsArchive(z), PrefixGood(z, Len(z.members)), NEW kind,
           NEW K, K = KeysUpTo(z, Len(z.members), kind)
    PROVE  /\ IsFiniteSet(K) /\ IsFiniteSet(Half(z, kind))
           /\ Cardinality(Half(z, kind)) = Cardinality(K)
<1> DEFINE n == Len(z.members)
           H == Half(z, kind)
           f == [i \in H |-> z.members[i].key]
<1>1. n \in Nat /\ \A i \in H : i \in 1 .. n /\ Counts(z.members[i])
                                /\ classifyTestcaseFile(z.members[i]) = kind
  BY MembersTyped, MembersOf DEF Half
<1>2. IsFiniteSet(H)
  <2>1. IsFiniteSet(1 .. n)
    BY <1>1, FS_Interval
  <2>2. H \in SUBSET (1 .. n)
    BY <1>1
  <2> HIDE DEF H
  <2> QED
    BY <2>1, <2>2, FS_Subset
<1>3. \A k : k \in K <=> \E i \in H : z.members[i].key = k
  BY MembersOf DEF KeysUpTo, Half
<1>4. \A i, j \in H : z.members[i].key = z.members[j].key => i = j
  <2>1. \A i, j \in 1 .. n : Twins(z.members[i], z.members[j]) => i = j
    BY DEF PrefixGood
  <2> QED
    BY <1>1, <2>1 DEF Twins
<1> HIDE DEF H
<1>5. f \in [H -> K] /\ \A i \in H : f[i] = z.members[i].key
  BY <1>3
<1> HIDE DEF f
<1>6. f \in Surjection(H, K)
  BY <1>3, <1>5 DEF Surjection
<1>7. f \in Injection(H, K)
  BY <1>4, <1>5 DEF Injection, IsInjective
<1> QED
  BY <1>2, <1>6, <1>7, FS_Surjection DEF H

\* Every member that counts is one half or the other.
LEMMA HalvesTogether ==
    ASSUME NEW z, IsArchive(z), PrefixGood(z, Len(z.members)),
           NEW K, K = KeysUpTo(z, Len(z.members), "inputs"), K = KeysUpTo(z, Len(z.members), "outputs")
    PROVE  IsFiniteSet(K) /\ Cardinality(Considered(z)) = 2 * Cardinality(K)
<1> DEFINE I == Half(z, "inputs")
           O == Half(z, "outputs")
<1>1. /\ IsFiniteSet(K) /\ IsFiniteSet(I) /\ IsFiniteSet(O)
      /\ Cardinality(I) = Cardinality(K) /\ Cardinality(O) = Cardinality(K)
  BY HalfCounted
<1>2. \A i \in Considered(z) : classifyTestcaseFile(z.members[i]) \in {"inputs", "outputs"}
  <2> TAKE i \in Considered(z)
  <2>1. Sound(z.members[i])
    BY MembersOf DEF PrefixGood
  <2> QED
    BY <2>1 DEF Sound, classifyTestcaseFile
<1>3. Considered(z) = I \cup O /\ I \cap O = {}
  BY <1>2 DEF Half
<1> HIDE DEF I, O
<1>4. Cardinality(I \cup O) = Cardinality(I) + Cardinality(O) - Cardinality(I \cap O)
  BY <1>1, FS_Union
<1>5. Cardinality(I \cap O) = 0 /\ Cardinality(K) \in Nat
  BY <1>1, <1>3, FS_EmptySet, FS_CardinalityType
<1> QED
  BY <1>1, <1>3, <1>4, <1>5

\* The stems of an archive are token sequences.
LEMMA StemsTyped ==
    ASSUME NEW z, IsArchive(z), NEW kind
    PROVE  KeysUpTo(z, Len(z.members), kind) \in SUBSET Seq(Tokens)
BY MembersTyped DEF KeysUpTo, IsMember

\* After the early returns: what parseArchive answers.
LEMMA Parsed ==
    ASSUME NEW z, IsArchive(z), z.size \in 1 .. Budgets.bytes, z.zip,
           NEW st, st = parseMembers(z)[Len(z.members)],
           NEW stems, stems = DOMAIN st.inputs \cap DOMAIN st.outputs
    PROVE  /\ ValidateArchive(z).codes =
                 st.codes \cup missingPairs(st) \cup (IF stems = {} THEN {"archive_empty"} ELSE {})
           /\ ValidateArchive(z).cases =
                 [n \in DOMAIN sortTestcaseKeys(stems) |->
                     [input |-> st.inputs[sortTestcaseKeys(stems)[n]],
                      output |-> st.outputs[sortTestcaseKeys(stems)[n]]]]
<1>1. ~(z.size <= 0) /\ ~(z.size > Budgets.bytes)
  BY BudgetTypes
<1> QED
  BY <1>1 DEF ValidateArchive, parseArchive

\* Accepted: each member that counts is in one case, the cases in natural order.
LEMMA AcceptedInOrder ==
    ASSUME NEW z, IsArchive(z), Paired(z)
    PROVE  PairedInOrder(z, ValidateArchive(z))
<1> DEFINE l == Len(z.members)
<1>1. PICK st : st = parseMembers(z)[l]
  OBVIOUS
<1>2. PICK K : K = KeysUpTo(z, l, "inputs")
  OBVIOUS
<1>3. /\ K = KeysUpTo(z, l, "outputs") /\ PrefixGood(z, l)
      /\ z.size \in 1 .. Budgets.bytes /\ z.zip
  BY <1>2 DEF Paired
<1>4. Scanned(z, l, st) /\ Mapped(z, l, st)
  BY <1>1, LoopInvariant, MapsInvariant
<1>5. DOMAIN st.inputs = K /\ DOMAIN st.outputs = K
  BY <1>2, <1>3, <1>4 DEF Scanned, Stems
<1>6. PICK s : s = sortTestcaseKeys(K)
  OBVIOUS
<1>7. PICK r : r = ValidateArchive(z)
  OBVIOUS
<1>8. r.cases = [n \in DOMAIN s |-> [input |-> st.inputs[s[n]], output |-> st.outputs[s[n]]]]
  <2>1. K = DOMAIN st.inputs \cap DOMAIN st.outputs
    BY <1>5
  <2> HIDE DEF l
  <2> QED
    BY <1>1, <1>3, <1>6, <1>7, <2>1, Parsed DEF l
<1>9. IsFiniteSet(K) /\ Cardinality(Considered(z)) = 2 * Cardinality(K) /\ K \in SUBSET Seq(Tokens)
  BY <1>2, <1>3, HalvesTogether, StemsTyped
<1>10. PICK c : c = Cardinality(K) /\ c \in Nat
  BY <1>9, FS_CardinalityType
<1>11. /\ s \in [1 .. c -> K] /\ DOMAIN s = 1 .. c
       /\ \A i, j \in 1 .. c : i < j => naturalLess(s[i], s[j]) /\ ~naturalLess(s[j], s[i])
  BY <1>6, <1>9, <1>10, SortedStems
<1>12. ASSUME NEW n \in 1 .. c
       PROVE  /\ r.cases[n].input \in Of(z, "inputs", s[n])
              /\ r.cases[n].output \in Of(z, "outputs", s[n])
  <2>1. s[n] \in K
    BY <1>11
  <2>2. /\ st.inputs[s[n]] \in OfUpTo(z, l, "inputs", s[n])
        /\ st.outputs[s[n]] \in OfUpTo(z, l, "outputs", s[n])
    BY <1>4, <1>5, <2>1 DEF Mapped, Map
  <2>3. r.cases[n].input = st.inputs[s[n]] /\ r.cases[n].output = st.outputs[s[n]]
    BY <1>8, <1>11
  <2>4. \A kind, key : OfUpTo(z, l, kind, key) \subseteq Of(z, kind, key)
    BY MembersOf DEF OfUpTo
  <2> QED
    BY <2>2, <2>3, <2>4
<1>13. \A n \in 1 .. c : /\ z.members[r.cases[n].input].key = s[n]
                         /\ z.members[r.cases[n].output].key = s[n]
  BY <1>12, MembersOf
<1>14. Len(r.cases) = c /\ DOMAIN r.cases = 1 .. c
  <2> DEFINE e == [n \in 1 .. c |-> [input |-> st.inputs[s[n]], output |-> st.outputs[s[n]]]]
             T == {e[n] : n \in 1 .. c}
  <2>1. r.cases = e
    BY <1>8, <1>11
  <2>2. e \in [1 .. c -> T] /\ DOMAIN e = 1 .. c
    OBVIOUS
  <2> HIDE DEF e, T
  <2>3. e \in Seq(T)
    BY <1>10, <2>2, SeqDef
  <2>4. Len(e) \in Nat /\ DOMAIN e = 1 .. Len(e)
    BY <2>3, LenProperties
  <2>5. Len(e) = c
    BY <1>10, <2>2, <2>4
  <2> QED
    BY <2>1, <2>2, <2>5
<1>15. 2 * Len(r.cases) = Cardinality(Considered(z))
  BY <1>9, <1>10, <1>14
<1> QED
  BY <1>7, <1>11, <1>12, <1>13, <1>14, <1>15, SMTT(40) DEF PairedInOrder

\* A half over its budget still counts as there.
LEMMA OverBudgetIsThere ==
    ASSUME NEW z, IsArchive(z), Complete(z), "file_count_exceeded" \notin ValidateArchive(z).codes
    PROVE  ValidateArchive(z).codes \cap {"input_missing", "output_missing"} = {}
<1> DEFINE l == Len(z.members)
<1>0. z.size \in Int /\ z.zip \in BOOLEAN /\ Budgets.bytes \in Nat
  BY BudgetTypes DEF IsArchive
<1>1. CASE z.size <= 0 \/ z.size > Budgets.bytes \/ ~z.zip
  <2>1. \/ ValidateArchive(z) = Rejected("zip_invalid")
        \/ ValidateArchive(z) = Rejected("archive_too_large")
    BY <1>0, <1>1 DEF ValidateArchive, parseArchive
  <2> QED
    BY <2>1 DEF Rejected
<1>2. CASE z.size \in 1 .. Budgets.bytes /\ z.zip
  <2>1. PICK st : st = parseMembers(z)[l]
    OBVIOUS
  <2>2. Mapped(z, l, st)
    BY <2>1, MapsInvariant
  <2>a. PICK stems : stems = DOMAIN st.inputs \cap DOMAIN st.outputs
    OBVIOUS
  <2>3. ValidateArchive(z).codes =
            st.codes \cup missingPairs(st) \cup (IF stems = {} THEN {"archive_empty"} ELSE {})
    BY <1>2, <2>1, <2>a, Parsed, ZenonT(40)
  <2>4. st.codes \subseteq ValidateArchive(z).codes /\ "file_count_exceeded" \notin st.codes
    BY <2>3
  <2>5. Legible(z, l)
    BY MembersOf DEF Complete, Legible
  <2>6. ASSUME NEW kind \in {"inputs", "outputs"}
        PROVE  DOMAIN Map(st, kind) = KeysUpTo(z, l, kind)
    <3>1. KeysUpTo(z, l, kind) \subseteq DOMAIN Map(st, kind)
      BY <2>2, <2>4, <2>5 DEF Mapped
    <3>2. \A k \in DOMAIN Map(st, kind) : OfUpTo(z, l, kind, k) # {}
      BY <2>2 DEF Mapped
    <3>3. \A k : OfUpTo(z, l, kind, k) # {} => k \in KeysUpTo(z, l, kind)
      BY DEF OfUpTo, KeysUpTo
    <3> QED
      BY <3>1, <3>2, <3>3
  <2>7. \A kind, other \in {"inputs", "outputs"} : \A k :
           k \in KeysUpTo(z, l, kind) => k \in KeysUpTo(z, l, other)
    <3> SUFFICES ASSUME NEW kind \in {"inputs", "outputs"}, NEW other \in {"inputs", "outputs"},
                        NEW k \in KeysUpTo(z, l, kind)
                 PROVE  k \in KeysUpTo(z, l, other)
      OBVIOUS
    <3>1. PICK i : i \in Considered(z) /\ z.members[i].key = k
      BY MembersOf DEF KeysUpTo
    <3>2. Of(z, other, k) # {}
      BY <3>1 DEF Complete
    <3> QED
      BY <3>2, MembersOf
  <2>8. DOMAIN st.inputs = DOMAIN st.outputs
    <3>1. KeysUpTo(z, l, "inputs") = KeysUpTo(z, l, "outputs")
      BY <2>7
    <3> QED
      BY <2>6, <3>1 DEF Map
  <2>9. missingPairs(st) = {}
    BY <2>8 DEF missingPairs
  <2>10. st.codes \cap {"input_missing", "output_missing"} = {}
    BY <2>2 DEF Mapped
  <2> QED
    BY <2>3, <2>9, <2>10
<1> QED
  BY <1>0, <1>1, <1>2

\* The comparison sortTestcaseKeys sorts by is a strict total order of stems, as the
\* comments on sortTestcaseKeys and naturalLess say: the cases have one order.
THEOREM NaturalOrderIsTotal ==
    \A a, b, c \in Seq(Tokens) :
      /\ ~naturalLess(a, a)
      /\ a # b => naturalLess(a, b) \/ naturalLess(b, a)
      /\ naturalLess(a, b) /\ naturalLess(b, c) => naturalLess(a, c)
BY NaturalIrreflexive, NaturalTotal, NaturalTransitive

\* parseArchive, for an archive of any members in any order: it is accepted exactly
\* when each member that counts is half of one pair within the budgets, its cases
\* are then those pairs in natural order, and a half over its budget is not
\* reported missing as well.
THEOREM ParserIsExact == \A z : IsArchive(z) => ParsedExactly(z)
<1> SUFFICES ASSUME NEW z, IsArchive(z)
             PROVE  ParsedExactly(z)
  OBVIOUS
<1>1. Accepted(ValidateArchive(z)) <=> WellPaired(z)
  BY AcceptedIsPaired, PairedIsWellPaired
<1>2. Accepted(ValidateArchive(z)) => PairedInOrder(z, ValidateArchive(z))
  BY AcceptedIsPaired, AcceptedInOrder
<1>3. Complete(z) /\ "file_count_exceeded" \notin ValidateArchive(z).codes
         => ValidateArchive(z).codes \cap {"input_missing", "output_missing"} = {}
  BY OverBudgetIsThere
<1> QED
  BY <1>1, <1>2, <1>3 DEF ParsedExactly

-----------------------------------------------------------------------------
(* Storage holds archives the parser accepted, and no others.              *)

ObjectsAccepted == \A o \in objects : Acceptable(o.archive)

\* Only an upload that was accepted puts an object.
LEMMA ObjectsStep ==
    ASSUME TypeInv, ArchiveInv, ObjectsAccepted, [Next]_vars
    PROVE  ObjectsAccepted'
<1>1. CASE RowStep \/ UNCHANGED vars
  <2>1. UNCHANGED objects
    BY <1>1, RowStepWrites DEF vars
  <2> QED
    BY <2>1 DEF ObjectsAccepted, Acceptable
<1>2. ASSUME NEW q \in Requests, ReadStep(q)
      PROVE  ObjectsAccepted'
  <2>1. UNCHANGED objects
    BY <1>2, ReadStepWrites
  <2> QED
    BY <2>1 DEF ObjectsAccepted, Acceptable
<1>3. ASSUME NEW q \in Requests, WriteStep(q)
      PROVE  ObjectsAccepted'
  <2>1. \/ UNCHANGED objects
        \/ objects' = Without(req[q].key)
        \/ /\ req[q].pc = "put"
           /\ objects' = Without(req[q].key) \cup {[key |-> req[q].key, archive |-> req[q].archive]}
    BY <1>3 DEF WriteStep, CreateProblemStatement, PutArchive, CreateTestcaseSet, DeleteArchive,
                CompleteProblemCheckRun, transition
  <2>2. CASE UNCHANGED objects \/ objects' = Without(req[q].key)
    <3>1. objects' \subseteq objects
      BY <2>2 DEF Without
    <3> QED
      BY <3>1 DEF ObjectsAccepted, Acceptable
  <2>3. CASE /\ req[q].pc = "put"
             /\ objects' = Without(req[q].key) \cup {[key |-> req[q].key, archive |-> req[q].archive]}
    <3>1. Acceptable(req[q].archive)
      BY <2>3 DEF ArchiveInv, Uploaded
    <3>2. \A o \in objects' : o \in objects \/ o.archive = req[q].archive
      BY <2>3 DEF Without
    <3> QED
      BY <3>1, <3>2 DEF ObjectsAccepted, Acceptable
  <2> QED
    BY <2>1, <2>2, <2>3
<1> QED
  BY <1>1, <1>2, <1>3 DEF Next, RowStep, ReadStep, WriteStep

\* UploadTestcaseArchive, parseArchive: for any uploads, any number of requests and
\* any failures, storage never holds an archive other than one in which each member
\* that counts is half of one pair within the budgets, and the parser takes exactly
\* those, for any archives it is checked on.
THEOREM OnlyPairedArchivesStored == Spec => []ParserPairsExactly
<1>1. Misparsed = {}
  BY ParserIsExact, ArchiveAssumption DEF Misparsed
<1>2. TypeInv /\ ObjectsAccepted => ParserPairsExactly
  <2> SUFFICES ASSUME TypeInv, ObjectsAccepted, NEW o \in objects
               PROVE  o.archive \in WellPairedUploads
    BY <1>1 DEF ParserPairsExactly
  <2>1. PICK z : z = o.archive
    OBVIOUS
  <2>2. z \in DOMAIN Uploads
    BY <2>1 DEF TypeInv, TablesInv, StorageTyped
  <2>3. IsArchive(Uploads[z])
    BY <2>2, WorkflowAssumption
  <2>4. Acceptable(z)
    BY <2>1 DEF ObjectsAccepted
  <2>5. Manifests[z] = ValidateArchive(Uploads[z])
    BY <2>2 DEF Manifests
  <2>6. WellPaired(Uploads[z])
    BY <2>3, <2>4, <2>5, ParserIsExact DEF Acceptable, Accepted, ParsedExactly
  <2> QED
    BY <2>1, <2>2, <2>6 DEF WellPairedUploads
<1>3. Init => ObjectsAccepted
  BY DEF Init, ObjectsAccepted
<1> QED
  BY TypeInitially, ArchiveInitially, TypeStep, ArchiveStep, ObjectsStep, <1>2, <1>3, PTL DEF Spec

=============================================================================
