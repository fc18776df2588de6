--------------------------- MODULE SelfRunsProofs ---------------------------
(***************************************************************************)
(* Proofs about SelfRuns for any sets of runs, users and processes and any *)
(* faults: types, the per-user cap, the finality of a finished run, the    *)
(* return of inline slots, the end of a replica and what retention leaves. *)
(***************************************************************************)
EXTENDS SelfRuns, FiniteSetTheorems, SequenceTheorems, TLAPS

\* The statements an action is made of are read as what they write.
USE DEF CreateArtifactRow, StartedRun, Reusable, StaleRun, ListExpiredRuns, DeletedRun

\* Where the row of a run does not exist yet: the request has not inserted it.
BeforeInsert == {"idle", "put", "row", "lock", "count", "insert"}

Shape ==
    /\ run = [r \in Runs |-> run[r]]
    /\ lock \in [Users -> Runs \cup {None}]
    /\ req \in [Runs -> [pc : RequestStates, user : Users \cup {None}, api : Apis \cup {None}]]

NotInserted == \A r \in Runs : req[r].pc \in BeforeInsert => run[r] \in {"none", "deleted"}

\* A request has a user once it has begun, and no process before.
HasUser ==
    \A r \in Runs :
        /\ req[r].pc # "idle" => req[r].user \in Users
        /\ req[r].pc = "idle" => req[r].api = None

\* Between counting and inserting a request holds the row of its user.
HoldsLock == \A r \in Runs : req[r].pc \in {"count", "insert"} => lock[req[r].user] = r

\* What a request counted is still true when it inserts.
HasRoom ==
    \A r \in Runs : req[r].pc = "insert" => Cardinality(ActiveOf(req[r].user)) < MaxActive

AdmissionInv == Shape /\ NotInserted /\ HasUser /\ HoldsLock /\ HasRoom /\ CapRespected

-----------------------------------------------------------------------------
LEMMA ActiveOfFinite == \A u : IsFiniteSet(ActiveOf(u)) /\ IsFiniteSet(ActiveOf(u)')
BY RunsAssumption, FS_Subset DEF ActiveOf

\* Cardinalities of the active runs of a user compare as the sets do.
LEMMA FewerActive ==
    ASSUME NEW u, ActiveOf(u)' \subseteq ActiveOf(u)
    PROVE  /\ Cardinality(ActiveOf(u))' \in Nat
           /\ Cardinality(ActiveOf(u)) \in Nat
           /\ Cardinality(ActiveOf(u))' <= Cardinality(ActiveOf(u))
BY ActiveOfFinite, FS_Subset, FS_CardinalityType

LEMMA OneMoreActive ==
    ASSUME NEW u, NEW r, ActiveOf(u)' \subseteq ActiveOf(u) \cup {r}
    PROVE  /\ Cardinality(ActiveOf(u))' \in Nat
           /\ Cardinality(ActiveOf(u)) \in Nat
           /\ Cardinality(ActiveOf(u))' <= Cardinality(ActiveOf(u)) + 1
<1>1. IsFiniteSet(ActiveOf(u)) /\ IsFiniteSet(ActiveOf(u)')
  BY ActiveOfFinite
<1>2. Cardinality(ActiveOf(u)') \in Nat /\ Cardinality(ActiveOf(u)) \in Nat
  BY <1>1, FS_CardinalityType
<1>3. IsFiniteSet(ActiveOf(u) \cup {r})
      /\ Cardinality(ActiveOf(u) \cup {r}) <= Cardinality(ActiveOf(u)) + 1
  BY <1>1, <1>2, FS_AddElement
<1>4. Cardinality(ActiveOf(u)') <= Cardinality(ActiveOf(u) \cup {r})
  BY <1>3, FS_Subset
<1>5. Cardinality(ActiveOf(u) \cup {r}) \in Nat
  BY <1>3, FS_CardinalityType
<1> QED
  BY <1>2, <1>3, <1>4, <1>5

\* The shape of a step of an executor, a worker or a sweep: no request moves,
\* and a run changes only while it is active, or is deleted.
RunStep ==
    /\ UNCHANGED <<req, lock>>
    /\ run' = [r \in Runs |-> run'[r]]
    /\ \A r \in Runs : run'[r] = run[r] \/ Active(r) \/ run'[r] = "deleted"

OtherNext ==
    \/ \E r \in Runs : CompleteRunAsync(r) \/ MarkStaleRun(r)
    \/ \E a \in Apis : BeginShutdown(a) \/ CloseDone(a)
    \/ \E w \in Workers : DispatchStep(w) \/ ResultStep(w) \/ SweepStep(w) \/ WorkerCrash(w)
    \/ AgentHandle

LEMMA OtherStepsAreRunSteps ==
    ASSUME Shape, OtherNext
    PROVE  RunStep
<1> USE DEF Shape, RunStep, requestVars
<1>1. ASSUME NEW r \in Runs, CompleteRunAsync(r)
      PROVE  RunStep
  BY <1>1 DEF CompleteRunAsync, UpdateRunStatus
<1>2. ASSUME NEW r \in Runs, MarkStaleRun(r)
      PROVE  RunStep
  BY <1>2 DEF MarkStaleRun
<1>3. ASSUME NEW a \in Apis, BeginShutdown(a) \/ CloseDone(a)
      PROVE  RunStep
  BY <1>3 DEF BeginShutdown, CloseDone
<1>4. ASSUME NEW w \in Workers, DispatchStep(w)
      PROVE  RunStep
  <2>1. CASE MarkRunRunning(w)
    BY <2>1 DEF MarkRunRunning, Active
  <2>2. CASE ~MarkRunRunning(w)
    BY <1>4, <2>2 DEF DispatchStep, ClaimPendingRunTasks, ReadRun, EnsureJudgeAttempt, Publish,
                      RetryJudgeTask, MarkJudgeTaskDispatched
  <2> QED
    BY <2>1, <2>2
<1>5. ASSUME NEW w \in Workers, ResultStep(w)
      PROVE  RunStep
  <2>1. CASE ResultConsume(w)
    BY <2>1 DEF ResultConsume
  <2>2. CASE CompleteResult(w)
    BY <2>2 DEF CompleteResult, UpdateRunStatus
  <2> QED
    BY <1>5, <2>1, <2>2 DEF ResultStep
<1>6. ASSUME NEW w \in Workers, SweepStep(w)
      PROVE  RunStep
  BY <1>6 DEF SweepStep, SweepRun, SweepObject, SweepRow, SweepOrphan, SweepOrphanObject,
              SweepOrphanRow, SweepFails
<1>7. ASSUME NEW w \in Workers, WorkerCrash(w)
      PROVE  RunStep
  BY <1>7 DEF WorkerCrash
<1>8. CASE AgentHandle
  BY <1>8 DEF AgentHandle, AgentEnds
<1> QED
  BY <1>1, <1>2, <1>3, <1>4, <1>5, <1>6, <1>7, <1>8 DEF OtherNext

LEMMA RunStepKeepsAdmission ==
    ASSUME AdmissionInv, RunStep
    PROVE  AdmissionInv'
<1> USE DEF AdmissionInv
<1>1. Shape'
  BY DEF Shape, RunStep
<1>2. NotInserted'
  BY RunsAssumption DEF NotInserted, RunStep, Active
<1>3. HasUser' /\ HoldsLock'
  BY DEF HasUser, HoldsLock, RunStep
<1>4. \A u : ActiveOf(u)' \subseteq ActiveOf(u)
  BY DEF ActiveOf, RunStep, Active
<1>5. HasRoom'
  BY <1>4, FewerActive, RunsAssumption DEF HasRoom, RunStep
<1>6. CapRespected'
  BY <1>4, FewerActive, RunsAssumption DEF CapRespected
<1> QED
  BY <1>1, <1>2, <1>3, <1>5, <1>6

-----------------------------------------------------------------------------
(* Steps of requests                                                       *)

\* A step that inserts no run and in which every request keeps its user, or
\* had none: each request stays, goes on to a place where it needs no lock, or
\* takes one of the two steps of admission.
RequestMove ==
    /\ run' = run
    /\ \A r \in Runs :
          /\ req'[r].user = req[r].user \/ req[r].pc = "idle"
          /\ req'[r].pc \in BeforeInsert => req[r].pc \in BeforeInsert
          /\ req'[r].pc # "idle" => req'[r].user \in Users
          /\ req'[r].pc = "idle" => req[r].pc = "idle" /\ req'[r].api = req[r].api
          /\ req'[r].pc \in {"count", "insert"} =>
                /\ lock'[req'[r].user] = r
                /\ req[r].user = req'[r].user
          /\ req'[r].pc = "insert" =>
                \/ req[r].pc = "insert"
                \/ Cardinality(ActiveOf(req[r].user)) < MaxActive

LEMMA RequestMoveKeepsAdmission ==
    ASSUME AdmissionInv, RequestMove, Shape'
    PROVE  AdmissionInv'
<1> USE DEF AdmissionInv
<1>1. NotInserted' /\ HasUser' /\ HoldsLock'
  BY DEF NotInserted, HasUser, HoldsLock, RequestMove
<1>2. \A u : ActiveOf(u)' \subseteq ActiveOf(u)
  BY DEF ActiveOf, RequestMove, Active, NotInserted, BeforeInsert
<1>3. HasRoom'
  <2> SUFFICES ASSUME NEW r \in Runs, req'[r].pc = "insert", NEW u, u = req'[r].user
               PROVE  Cardinality(ActiveOf(u)') < MaxActive
    BY DEF HasRoom
  <2>1. u = req[r].user
    BY DEF RequestMove
  <2>2. Cardinality(ActiveOf(u)) < MaxActive
    BY <2>1 DEF RequestMove, HasRoom
  <2> QED
    BY <1>2, <2>2, FewerActive, RunsAssumption
<1>4. CapRespected'
  BY <1>2, FewerActive, RunsAssumption DEF CapRespected
<1> QED
  BY <1>1, <1>3, <1>4

\* The requests that move without inserting.
MoveNext ==
    \/ \E r \in Runs, u \in Users, a \in Apis : BeginRun(r, u, a)
    \/ \E r \in Runs :
          \/ PutSource(r) \/ CreateArtifact(r) \/ DiscardObject(r) \/ DiscardRow(r)
          \/ LockUserForRunAdmission(r) \/ CountActiveRunsByUser(r)
    \/ \E a \in Apis : ApiCrash(a)

LEMMA CrashIsRequestMove ==
    ASSUME AdmissionInv, NEW a \in Apis, ApiCrash(a)
    PROVE  RequestMove /\ Shape'
<1> DEFINE dead == {r \in Runs : req[r].api = a}
<1>1. /\ run' = run
      /\ req' = [r \in Runs |-> IF r \in dead THEN [req[r] EXCEPT !.pc = "end"] ELSE req[r]]
      /\ lock' = [u \in Users |-> IF lock[u] \in dead THEN None ELSE lock[u]]
  BY DEF ApiCrash
<1>2. Shape
  BY DEF AdmissionInv
<1>3. \A q \in Runs : req[q].pc = "idle" => q \notin dead
  BY RunsAssumption DEF AdmissionInv, HasUser
<1>4. \A q \in Runs : req[q].pc # "idle" => req[q].user \in Users
  BY DEF AdmissionInv, HasUser
<1>5. \A q \in Runs : req[q].pc \in {"count", "insert"} => lock[req[q].user] = q
  BY DEF AdmissionInv, HoldsLock
<1> HIDE DEF dead
<1>6. Shape'
  BY <1>1, <1>2 DEF Shape, RequestStates
<1>7. \A q \in Runs : /\ req'[q].user = req[q].user
                      /\ q \in dead => req'[q].pc = "end"
                      /\ q \notin dead => req'[q] = req[q]
  BY <1>1, <1>2 DEF Shape
<1>8. \A q \in Runs : req'[q].pc # "idle" => req'[q].user \in Users
  BY <1>3, <1>4, <1>7
<1>9. ASSUME NEW q \in Runs, req'[q].pc \in {"count", "insert"}
      PROVE  lock'[req'[q].user] = q
  <2>1. q \notin dead /\ req'[q].user = req[q].user /\ req[q].pc \in {"count", "insert"}
    BY <1>7, <1>9
  <2>2. req[q].user \in Users /\ lock[req[q].user] = q
    BY <1>4, <1>5, <2>1
  <2> QED
    BY <1>1, <2>1, <2>2
<1> QED
  BY <1>1, <1>6, <1>7, <1>8, <1>9 DEF RequestMove, BeforeInsert

LEMMA MovesAreRequestMoves ==
    ASSUME AdmissionInv, MoveNext
    PROVE  RequestMove /\ Shape'
<1> USE RunsAssumption DEF AdmissionInv, Shape, HasUser, HoldsLock, HasRoom, NotInserted,
                          RequestMove, BeforeInsert, RequestStates
<1>1. ASSUME NEW r \in Runs, NEW u \in Users, NEW a \in Apis, BeginRun(r, u, a)
      PROVE  RequestMove /\ Shape'
  BY <1>1 DEF BeginRun
<1>2. ASSUME NEW r \in Runs, PutSource(r) \/ CreateArtifact(r) \/ DiscardObject(r) \/ DiscardRow(r)
      PROVE  RequestMove /\ Shape'
  BY <1>2 DEF PutSource, CreateArtifact, DiscardObject, DiscardRow, Goto, End
<1>3. ASSUME NEW r \in Runs, LockUserForRunAdmission(r)
      PROVE  RequestMove /\ Shape'
  BY <1>3 DEF LockUserForRunAdmission, LockFree, Goto
<1>4. ASSUME NEW r \in Runs, CountActiveRunsByUser(r)
      PROVE  RequestMove /\ Shape'
  <2>1. Cardinality(ActiveOf(req[r].user)) \in Nat
    BY ActiveOfFinite, FS_CardinalityType
  <2>2. CASE Cardinality(ActiveOf(req[r].user)) >= MaxActive
    <3>1. /\ run' = run
          /\ req' = [req EXCEPT ![r].pc = "undoObject"]
          /\ lock' = [u \in Users |-> IF lock[u] = r THEN None ELSE lock[u]]
      BY <1>4, <2>2 DEF CountActiveRunsByUser, Goto, Unlock
    <3>2. Shape'
      BY <3>1
    <3>3. \A q \in Runs : /\ req'[q].user = req[q].user
                          /\ q # r => req'[q].pc = req[q].pc
                          /\ req'[r].pc = "undoObject"
      BY <3>1
    <3>4. \A q \in Runs : req'[q].pc \in {"count", "insert"} => lock'[req'[q].user] = q
      BY <3>1, <3>3
    <3> HIDE DEF Shape, HoldsLock
    <3> QED
      BY <1>4, <3>1, <3>2, <3>3, <3>4 DEF CountActiveRunsByUser
  <2>3. CASE Cardinality(ActiveOf(req[r].user)) < MaxActive
    <3>1. /\ run' = run
          /\ req[r].pc = "count"
          /\ req' = [req EXCEPT ![r].pc = "insert"]
          /\ lock' = lock
      BY <1>4, <2>1, <2>3 DEF CountActiveRunsByUser, Goto
    <3> QED
      BY <2>3, <3>1
  <2> QED
    BY <2>1, <2>2, <2>3
<1>5. ASSUME NEW a \in Apis, ApiCrash(a)
      PROVE  RequestMove /\ Shape'
  BY <1>5, CrashIsRequestMove
<1> QED
  BY <1>1, <1>2, <1>3, <1>4, <1>5 DEF MoveNext

\* Inserting a run: only the holder of the user's row does, so the count of
\* that user is the one it made, and no other request of the user relies on it.
LEMMA InsertKeepsAdmission ==
    ASSUME AdmissionInv, NEW r \in Runs, CreateRun(r) \/ AdmitFails(r)
    PROVE  AdmissionInv'
<1> USE RunsAssumption DEF AdmissionInv
<1>1. /\ req[r].pc \in {"lock", "count", "insert"}
      /\ req' = [req EXCEPT ![r].pc = req'[r].pc]
      /\ req'[r].pc \in {"end", "undoObject"}
      /\ lock' = Unlock(r)
      /\ run' = run \/ (req[r].pc = "insert" /\ run' = InsertedRun(r))
  BY DEF CreateRun, AdmitFails, Goto, Shape
<1>2. Shape'
  BY <1>1 DEF Shape, Unlock, RequestStates, InsertedRun
<1>3. NotInserted' /\ HasUser'
  <2>1. \A q \in Runs : q # r => req'[q] = req[q]
    BY <1>1 DEF Shape
  <2>2. req'[r].user = req[r].user
    BY <1>1 DEF Shape
  <2>3. NotInserted'
    BY <1>1, <2>1 DEF NotInserted, BeforeInsert, InsertedRun, Shape
  <2>4. HasUser'
    BY <1>1, <2>1, <2>2 DEF HasUser
  <2> QED
    BY <2>3, <2>4
<1>4. HoldsLock'
  BY <1>1 DEF HoldsLock, Shape, Unlock, HasUser
<1> DEFINE user == req[r].user
<1>5. \A u : u # user \/ run' = run => ActiveOf(u)' \subseteq ActiveOf(u)
  BY <1>1 DEF ActiveOf, Active, Shape, InsertedRun
<1>6. \A u : ActiveOf(u)' \subseteq ActiveOf(u) \cup {r}
  BY <1>1 DEF ActiveOf, Active, Shape, InsertedRun
<1>7. run' # run => Cardinality(ActiveOf(user)) < MaxActive
  BY <1>1 DEF HasRoom
<1>8. HasRoom'
  <2> SUFFICES ASSUME NEW q \in Runs, req'[q].pc = "insert", NEW u, u = req'[q].user
               PROVE  Cardinality(ActiveOf(u)') < MaxActive
    BY DEF HasRoom
  <2>1. q # r /\ req[q].pc = "insert" /\ u = req[q].user
    BY <1>1 DEF Shape
  <2>2. u # user \/ run' = run
    BY <1>1, <2>1 DEF HoldsLock
  <2>3. Cardinality(ActiveOf(u)) < MaxActive
    BY <2>1 DEF HasRoom
  <2> QED
    BY <1>5, <2>2, <2>3, FewerActive
<1>9. CapRespected'
  <2> SUFFICES ASSUME NEW u \in Users
               PROVE  Cardinality(ActiveOf(u)') <= MaxActive
    BY DEF CapRespected
  <2>1. CASE u # user \/ run' = run
    BY <1>5, <2>1, FewerActive DEF CapRespected
  <2>2. CASE u = user /\ run' # run
    <3>1. Cardinality(ActiveOf(u)) < MaxActive
      BY <1>7, <2>2
    <3> QED
      BY <1>6, <3>1, OneMoreActive
  <2> QED
    BY <2>1, <2>2
<1> QED
  BY <1>2, <1>3, <1>4, <1>8, <1>9

-----------------------------------------------------------------------------
LEMMA AdmissionInitially == Init => AdmissionInv
<1> SUFFICES ASSUME Init
             PROVE  AdmissionInv
  OBVIOUS
<1>1. Shape /\ NotInserted /\ HasUser /\ HoldsLock /\ HasRoom
  BY DEF Init, Shape, NotInserted, HasUser, HoldsLock, HasRoom, NoRequest, RequestStates
<1>2. \A u : ActiveOf(u) = {}
  BY DEF Init, ActiveOf, Active
<1>3. CapRespected
  BY <1>2, FS_EmptySet, RunsAssumption DEF CapRespected
<1> QED
  BY <1>1, <1>3 DEF AdmissionInv

LEMMA NextByKind ==
    Next => OtherNext \/ MoveNext \/ \E r \in Runs : CreateRun(r) \/ AdmitFails(r)
BY DEF Next, RequestStep, OtherNext, MoveNext

LEMMA AdmissionStep == AdmissionInv /\ [Next]_vars => AdmissionInv'
<1> SUFFICES ASSUME AdmissionInv, [Next]_vars
             PROVE  AdmissionInv'
  OBVIOUS
<1>1. CASE OtherNext
  BY <1>1, OtherStepsAreRunSteps, RunStepKeepsAdmission DEF AdmissionInv
<1>2. CASE MoveNext
  BY <1>2, MovesAreRequestMoves, RequestMoveKeepsAdmission
<1>3. CASE \E r \in Runs : CreateRun(r) \/ AdmitFails(r)
  BY <1>3, InsertKeepsAdmission
<1>4. CASE UNCHANGED vars
  BY <1>4 DEF vars, AdmissionInv, Shape, NotInserted, HasUser, HoldsLock, HasRoom, CapRespected,
              ActiveOf, Active
<1> QED
  BY <1>1, <1>2, <1>3, <1>4, NextByKind

\* No user ever has more than MaxActive active runs, whichever API replicas
\* admit them and whatever fails: AdmitRun counts and inserts under the lock on
\* the user row, and everything else only takes runs out of the count.
THEOREM CapHolds == Spec => []CapRespected
<1>1. AdmissionInv => CapRespected
  BY DEF AdmissionInv
<1> QED
  BY <1>1, AdmissionInitially, AdmissionStep, PTL DEF Spec

\* A terminal run is never given another status, only deleted: executors, late
\* results and the stale sweep write active runs only, and a request inserts
\* its run once.
THEOREM RunVerdictsFinal == Spec => RunVerdictFinal
<1>1. ASSUME AdmissionInv, [Next]_vars, NEW r \in Runs, terminalStatus(run[r])
      PROVE  run'[r] \in {run[r], "deleted"}
  <2>1. ~Active(r) /\ run[r] \notin {"none", "deleted"}
    BY <1>1, RunsAssumption DEF terminalStatus, Active
  <2>2. CASE OtherNext
    BY <1>1, <2>1, <2>2, OtherStepsAreRunSteps DEF AdmissionInv, RunStep
  <2>3. CASE MoveNext
    BY <1>1, <2>3, MovesAreRequestMoves DEF RequestMove
  <2>4. CASE \E q \in Runs : CreateRun(q) \/ AdmitFails(q)
    <3>1. PICK q \in Runs : CreateRun(q) \/ AdmitFails(q)
      BY <2>4
    <3>2. run' = run \/ (req[q].pc = "insert" /\ run' = InsertedRun(q))
      BY <3>1 DEF CreateRun, AdmitFails
    <3>3. req[q].pc = "insert" => q # r
      BY <1>1, <2>1 DEF AdmissionInv, NotInserted, BeforeInsert
    <3> QED
      BY <1>1, <3>2, <3>3 DEF InsertedRun, AdmissionInv, Shape
  <2>5. CASE UNCHANGED vars
    BY <2>5 DEF vars
  <2> QED
    BY <1>1, <2>2, <2>3, <2>4, <2>5, NextByKind
<1>2. AdmissionInv /\ [Next]_vars =>
        [\A r \in Runs : terminalStatus(run[r]) => run'[r] \in {run[r], "deleted"}]_vars
  BY <1>1
<1> QED
  BY <1>2, AdmissionInitially, AdmissionStep, PTL DEF Spec, RunVerdictFinal

-----------------------------------------------------------------------------
(* Types                                                                   *)

RequestEntry == [run : Runs, no : Nat, state : {"new", "acked", "dead", "orphan"}]
ResultEntry == [run : Runs, no : Nat, verdict : Verdicts,
                state : {"new", "held", "acked", "orphan"}, by : Workers \cup {None}]
Dispatcher == [pc : DispatchStates, cur : Runs \cup {None}, no : Nat]
Sweeper == [pc : SweepStates, cur : Runs \cup {None}]
Attempts == {"created"} \cup Verdicts

\* A dispatcher or a sweep that is at work names a run.
CursorsRefer ==
    \A w \in Workers : /\ disp[w].pc # "idle" => disp[w].cur \in Runs
                       /\ sweep[w].pc # "idle" => sweep[w].cur \in Runs

\* The rows, and the requests with their locks and slots.
RowTypes ==
    /\ run \in [Runs -> RunStatuses]
    /\ artifact \in [Runs -> BOOLEAN]
    /\ object \in [Runs -> BOOLEAN]
    /\ task \in [Runs -> {"none", "pending", "dispatching", "dispatched", "done"}]
    /\ faults \in Nat
RequestTypes ==
    /\ lock \in [Users -> Runs \cup {None}]
    /\ req \in [Runs -> [pc : RequestStates, user : Users \cup {None}, api : Apis \cup {None}]]
    /\ slot \in [Runs -> {"none", "request", "execution"}]
    /\ api \in [Apis -> {"open", "closing", "closed"}]
\* The attempts, the streams and the loops of the workers.
StreamTypes ==
    /\ att \in [Runs -> Seq(Attempts)]
    /\ reqs \in Seq(RequestEntry)
    /\ ress \in Seq(ResultEntry)
    /\ disp \in [Workers -> Dispatcher]
    /\ sweep \in [Workers -> Sweeper]
    /\ CursorsRefer

TypeInv == RowTypes /\ RequestTypes /\ StreamTypes

LEMMA TypeInvTypes == TypeInv => TypeOK
BY DEF TypeInv, RowTypes, RequestTypes, StreamTypes, TypeOK, RequestEntry, ResultEntry, Dispatcher,
       Sweeper, Attempts

LEMMA TypeInitially == Init => TypeInv
<1> SUFFICES ASSUME Init
             PROVE  TypeInv
  OBVIOUS
<1>1. RowTypes /\ RequestTypes
  BY DEF Init, RowTypes, RequestTypes, RunStatuses, NoRequest, RequestStates
<1>2. StreamTypes
  BY DEF Init, StreamTypes, CursorsRefer, Idle, NoSweep, Dispatcher, Sweeper, DispatchStates, SweepStates
<1> QED
  BY <1>1, <1>2 DEF TypeInv

\* Rewriting entries of a stream in place.
LEMMA RewrittenStream ==
    ASSUME NEW S, NEW s \in Seq(S), NEW f, f = [i \in DOMAIN s |-> f[i]],
           \A i \in DOMAIN s : f[i] \in S
    PROVE  f \in Seq(S) /\ DOMAIN f = DOMAIN s
<1>1. Len(s) \in Nat /\ DOMAIN s = 1 .. Len(s)
  BY LenProperties
<1>2. f \in [1 .. Len(s) -> S]
  BY <1>1
<1> QED
  BY <1>1, <1>2, SeqDef

LEMMA EntriesTyped ==
    ASSUME StreamTypes
    PROVE  /\ \A i \in DOMAIN reqs : reqs[i] \in RequestEntry
           /\ \A i \in DOMAIN ress : ress[i] \in ResultEntry
BY ElementOfSeq DEF StreamTypes

\* A worker that ends keeps the streams and the loops typed.
LEMMA ExitTyped ==
    ASSUME StreamTypes, NEW w \in Workers, Exit(w)
    PROVE  /\ ress' \in Seq(ResultEntry)
           /\ disp' \in [Workers -> Dispatcher]
           /\ sweep' \in [Workers -> Sweeper]
           /\ CursorsRefer'
<1>1. \A i \in DOMAIN ress : ress'[i] \in ResultEntry
  BY EntriesTyped DEF Exit, ResultEntry
<1>2. ress' \in Seq(ResultEntry)
  <2>1. ress' = [i \in DOMAIN ress |-> ress'[i]] /\ ress \in Seq(ResultEntry)
    BY DEF Exit, StreamTypes
  <2> QED
    BY <1>1, <2>1, RewrittenStream
<1>3. Idle \in Dispatcher /\ NoSweep \in Sweeper /\ Idle.pc = "idle" /\ NoSweep.pc = "idle"
  BY DEF Idle, NoSweep, Dispatcher, Sweeper, DispatchStates, SweepStates
<1> QED
  BY <1>2, <1>3 DEF Exit, StreamTypes, CursorsRefer

\* A request that moves on, or ends and gives its slot back, stays typed.
LEMMA GotoTyped ==
    ASSUME RequestTypes, NEW r \in Runs, NEW pc \in RequestStates, Goto(r, pc)
    PROVE  req' \in [Runs -> [pc : RequestStates, user : Users \cup {None}, api : Apis \cup {None}]]
BY DEF RequestTypes, Goto

LEMMA EndTyped ==
    ASSUME RequestTypes, NEW r \in Runs, End(r), UNCHANGED <<lock, api>>
    PROVE  RequestTypes'
<1>1. req' \in [Runs -> [pc : RequestStates, user : Users \cup {None}, api : Apis \cup {None}]]
  BY GotoTyped DEF End, RequestStates
<1>2. slot' \in [Runs -> {"none", "request", "execution"}]
  BY DEF End, RequestTypes
<1> QED
  BY <1>1, <1>2 DEF RequestTypes

LEMMA MoveTyped ==
    ASSUME RequestTypes, NEW r \in Runs, NEW pc \in RequestStates, Goto(r, pc),
           UNCHANGED <<slot, api>>, lock' = lock \/ lock' = Unlock(r)
    PROVE  RequestTypes'
<1>1. req' \in [Runs -> [pc : RequestStates, user : Users \cup {None}, api : Apis \cup {None}]]
  BY GotoTyped
<1>2. lock' \in [Users -> Runs \cup {None}]
  BY DEF RequestTypes, Unlock
<1> QED
  BY <1>1, <1>2 DEF RequestTypes

\* A flag of one run is written: the artifact row or the stored object.
LEMMA FlagTyped ==
    ASSUME NEW f \in [Runs -> BOOLEAN], NEW r \in Runs, NEW b \in BOOLEAN
    PROVE  [f EXCEPT ![r] = b] \in [Runs -> BOOLEAN]
OBVIOUS

LEMMA DeletedArtifactTyped ==
    ASSUME RowTypes, NEW r \in Runs
    PROVE  DeleteArtifact(r) \in [Runs -> BOOLEAN]
<1>1. (artifact[r] /\ Exists(r)) \in BOOLEAN
  BY Zenon
<1>2. DeleteArtifact(r) = [artifact EXCEPT ![r] = artifact[r] /\ Exists(r)]
  BY DEF DeleteArtifact
<1> QED
  BY <1>1, <1>2, FlagTyped DEF RowTypes

LEMMA FaultCounted ==
    ASSUME RowTypes, NEW kind, Fault(kind)
    PROVE  faults' \in Nat
BY DEF RowTypes, Fault

LEMMA RequestStepTypes ==
    ASSUME TypeInv, NEW r \in Runs,
           RequestStep(r) \/ AdmitFails(r) \/ CompleteRunAsync(r) \/ MarkStaleRun(r)
           \/ \E u \in Users, a \in Apis : BeginRun(r, u, a)
    PROVE  TypeInv'
<1>1. UNCHANGED <<att, reqs, ress, disp, sweep>>
  BY DEF RequestStep, PutSource, CreateArtifact, LockUserForRunAdmission, CountActiveRunsByUser,
         CreateRun, DiscardObject, DiscardRow, AdmitFails, CompleteRunAsync, MarkStaleRun, BeginRun,
         queueVars, workerVars
<1>2. StreamTypes'
  BY <1>1 DEF TypeInv, StreamTypes, CursorsRefer
<1>3. RowTypes /\ RequestTypes
  BY DEF TypeInv
<1>4. ASSUME NEW u \in Users, NEW a \in Apis, BeginRun(r, u, a)
      PROVE  RowTypes' /\ RequestTypes'
  <2>1. RowTypes'
    BY <1>3, <1>4 DEF BeginRun, RowTypes, sourceVars
  <2>2. PICK pc \in {"put", "end"} : req' = [req EXCEPT ![r] = [pc |-> pc, user |-> u, api |-> a]]
    BY <1>4 DEF BeginRun
  <2>3. [pc |-> pc, user |-> u, api |-> a]
          \in [pc : RequestStates, user : Users \cup {None}, api : Apis \cup {None}]
    BY DEF RequestStates
  <2>4. req' \in [Runs -> [pc : RequestStates, user : Users \cup {None}, api : Apis \cup {None}]]
    BY <1>3, <2>2, <2>3 DEF RequestTypes
  <2>5. slot' \in [Runs -> {"none", "request", "execution"}]
    BY <1>3, <1>4 DEF BeginRun, RequestTypes
  <2>6. UNCHANGED <<lock, api>>
    BY <1>4 DEF BeginRun
  <2> QED
    BY <1>3, <2>1, <2>4, <2>5, <2>6 DEF RequestTypes
<1>5. ASSUME PutSource(r)
      PROVE  RowTypes' /\ RequestTypes'
  <2>1. RequestTypes'
    <3>1. UNCHANGED <<lock, api>>
      BY <1>5 DEF PutSource
    <3>2. CASE End(r)
      BY <1>3, <3>1, <3>2, EndTyped
    <3>3. CASE Goto(r, "row") /\ slot' = slot
      BY <1>3, <3>1, <3>3, MoveTyped DEF RequestStates
    <3> QED
      BY <1>5, <3>2, <3>3 DEF PutSource
  <2>2. PICK b \in BOOLEAN : object' = [object EXCEPT ![r] = b]
    BY <1>5 DEF PutSource
  <2>3. faults' \in Nat /\ UNCHANGED <<run, artifact, task>>
    BY <1>3, <1>5, FaultCounted DEF PutSource, RowTypes
  <2> QED
    BY <1>3, <2>1, <2>2, <2>3, FlagTyped DEF RowTypes
<1>6. ASSUME CreateArtifact(r)
      PROVE  RowTypes' /\ RequestTypes'
  <2>1. RequestTypes'
    <3>1. UNCHANGED <<lock, api>>
      BY <1>6 DEF CreateArtifact
    <3>2. CASE End(r)
      BY <1>3, <3>1, <3>2, EndTyped
    <3>3. CASE Goto(r, "lock") /\ slot' = slot
      BY <1>3, <3>1, <3>3, MoveTyped DEF RequestStates
    <3> QED
      BY <1>6, <3>2, <3>3 DEF CreateArtifact
  <2>2. artifact' = [artifact EXCEPT ![r] = TRUE] \/ artifact' = artifact
    BY <1>6 DEF CreateArtifact
  <2>3. faults' \in Nat /\ UNCHANGED <<run, object, task>>
    BY <1>3, <1>6, FaultCounted DEF CreateArtifact, RowTypes
  <2> QED
    BY <1>3, <2>1, <2>2, <2>3, FlagTyped DEF RowTypes
<1>7. ASSUME DiscardObject(r)
      PROVE  RowTypes' /\ RequestTypes'
  <2>1. RequestTypes'
    BY <1>3, <1>7, MoveTyped DEF DiscardObject, RequestStates
  <2>2. object' = [object EXCEPT ![r] = FALSE] \/ object' = object
    BY <1>7 DEF DiscardObject
  <2>3. faults' \in Nat /\ UNCHANGED <<run, artifact, task>>
    BY <1>3, <1>7, FaultCounted DEF DiscardObject, RowTypes
  <2> QED
    BY <1>3, <2>1, <2>2, <2>3, FlagTyped DEF RowTypes
<1>8. ASSUME DiscardRow(r)
      PROVE  RowTypes' /\ RequestTypes'
  <2>1. RequestTypes'
    BY <1>3, <1>8, EndTyped DEF DiscardRow
  <2>2. artifact' = DeleteArtifact(r) \/ artifact' = artifact
    BY <1>8 DEF DiscardRow
  <2>3. faults' \in Nat /\ UNCHANGED <<run, object, task>>
    BY <1>3, <1>8, FaultCounted DEF DiscardRow, RowTypes
  <2> QED
    BY <1>3, <2>1, <2>2, <2>3, DeletedArtifactTyped DEF RowTypes
<1>9. ASSUME LockUserForRunAdmission(r)
      PROVE  RowTypes' /\ RequestTypes'
  <2>1. RowTypes' /\ UNCHANGED <<slot, api>> /\ Goto(r, "count")
    BY <1>3, <1>9 DEF LockUserForRunAdmission, RowTypes, sourceVars
  <2>2. lock' \in [Users -> Runs \cup {None}]
    BY <1>3, <1>9 DEF LockUserForRunAdmission, RequestTypes
  <2> QED
    BY <1>3, <2>1, <2>2, GotoTyped DEF RequestTypes, RequestStates
<1>10. ASSUME CountActiveRunsByUser(r)
       PROVE  RowTypes' /\ RequestTypes'
  <2>1. RowTypes' /\ UNCHANGED <<slot, api>>
    BY <1>3, <1>10 DEF CountActiveRunsByUser, RowTypes, sourceVars
  <2>2. PICK pc \in {"undoObject", "insert"} : Goto(r, pc) /\ (lock' = lock \/ lock' = Unlock(r))
    BY <1>10 DEF CountActiveRunsByUser
  <2> QED
    BY <1>3, <2>1, <2>2, MoveTyped DEF RequestStates
<1>11. ASSUME CreateRun(r) \/ AdmitFails(r)
       PROVE  RowTypes' /\ RequestTypes'
  <2>1. /\ run' = run \/ run' = InsertedRun(r)
        /\ task' = task \/ task' = InsertedTask(r)
        /\ UNCHANGED <<artifact, object, api>> /\ lock' = Unlock(r)
    BY <1>11 DEF CreateRun, AdmitFails, sourceVars
  <2>2. PICK pc \in {"end", "undoObject"} : Goto(r, pc)
    BY <1>11 DEF CreateRun, AdmitFails
  <2>3. slot' \in [Runs -> {"none", "request", "execution"}]
    BY <1>3, <1>11 DEF CreateRun, AdmitFails, RequestTypes
  <2>4. faults' \in Nat
    BY <1>3, <1>11, FaultCounted DEF CreateRun, AdmitFails, RowTypes
  <2>5. run' \in [Runs -> RunStatuses]
    BY <1>3, <2>1 DEF RowTypes, InsertedRun, RunStatuses
  <2>6. task' \in [Runs -> {"none", "pending", "dispatching", "dispatched", "done"}]
    BY <1>3, <2>1 DEF RowTypes, InsertedTask
  <2>7. lock' \in [Users -> Runs \cup {None}]
    BY <1>3, <2>1 DEF RequestTypes, Unlock
  <2>8. req' \in [Runs -> [pc : RequestStates, user : Users \cup {None}, api : Apis \cup {None}]]
    BY <1>3, <2>2, GotoTyped DEF RequestStates
  <2>9. RowTypes'
    BY <1>3, <2>1, <2>4, <2>5, <2>6 DEF RowTypes
  <2> QED
    BY <1>3, <2>1, <2>3, <2>7, <2>8, <2>9 DEF RequestTypes
<1>12. ASSUME CompleteRunAsync(r) \/ MarkStaleRun(r)
       PROVE  RowTypes' /\ RequestTypes'
  <2>1. run' = run \/ \E v \in Verdicts : run' = [run EXCEPT ![r] = v]
    BY <1>12, RunsAssumption DEF CompleteRunAsync, MarkStaleRun, UpdateRunStatus
  <2>2. run' \in [Runs -> RunStatuses]
    BY <1>3, <2>1 DEF RowTypes, RunStatuses
  <2>3. faults' \in Nat
    BY <1>3, <1>12, FaultCounted DEF CompleteRunAsync, MarkStaleRun, RowTypes
  <2>4. slot' \in [Runs -> {"none", "request", "execution"}]
    BY <1>3, <1>12 DEF CompleteRunAsync, MarkStaleRun, RequestTypes, requestVars
  <2>5. UNCHANGED <<artifact, object, task, lock, req, api>>
    BY <1>12 DEF CompleteRunAsync, MarkStaleRun, sourceVars, requestVars
  <2> QED
    BY <1>3, <2>2, <2>3, <2>4, <2>5 DEF RowTypes, RequestTypes
<1> QED
  BY <1>2, <1>4, <1>5, <1>6, <1>7, <1>8, <1>9, <1>10, <1>11, <1>12 DEF RequestStep, TypeInv

LEMMA ApiStepTypes ==
    ASSUME TypeInv, NEW a \in Apis, BeginShutdown(a) \/ CloseDone(a) \/ ApiCrash(a)
    PROVE  TypeInv'
<1>1. UNCHANGED <<att, reqs, ress, disp, sweep>> /\ UNCHANGED <<run, artifact, object, task>>
  BY DEF BeginShutdown, CloseDone, ApiCrash, queueVars, workerVars, sourceVars
<1>2. RowTypes /\ RequestTypes /\ StreamTypes
  BY DEF TypeInv
<1>3. StreamTypes'
  BY <1>1, <1>2 DEF StreamTypes, CursorsRefer
<1>4. faults' \in Nat
  BY <1>2, FaultCounted DEF BeginShutdown, CloseDone, ApiCrash, RowTypes
<1>5. RowTypes'
  BY <1>1, <1>2, <1>4 DEF RowTypes
<1>6. ASSUME BeginShutdown(a) \/ CloseDone(a)
      PROVE  RequestTypes'
  BY <1>2, <1>6 DEF BeginShutdown, CloseDone, RequestTypes
<1>7. ASSUME ApiCrash(a)
      PROVE  RequestTypes'
  <2>1. api' \in [Apis -> {"open", "closing", "closed"}]
    BY <1>2, <1>7 DEF ApiCrash, RequestTypes
  <2>2. req' \in [Runs -> [pc : RequestStates, user : Users \cup {None}, api : Apis \cup {None}]]
    BY <1>2, <1>7 DEF ApiCrash, RequestTypes, RequestStates
  <2>3. slot' \in [Runs -> {"none", "request", "execution"}]
    BY <1>2, <1>7 DEF ApiCrash, RequestTypes
  <2>4. lock' \in [Users -> Runs \cup {None}]
    BY <1>2, <1>7 DEF ApiCrash, RequestTypes
  <2> QED
    BY <2>1, <2>2, <2>3, <2>4 DEF RequestTypes
<1> QED
  BY <1>3, <1>5, <1>6, <1>7 DEF TypeInv

\* What a dispatcher writes: its own place, a run it starts, an attempt, a task
\* and a request.
LEMMA DispatchStepTypes ==
    ASSUME TypeInv, NEW w \in Workers, DispatchStep(w)
    PROVE  TypeInv'
<1>1. RowTypes /\ RequestTypes /\ StreamTypes
  BY DEF TypeInv
<1>2. RequestTypes'
  <2>1. UNCHANGED requestVars
    BY DEF DispatchStep, ClaimPendingRunTasks, ReadRun, MarkRunRunning, EnsureJudgeAttempt, Publish,
           RetryJudgeTask, MarkJudgeTaskDispatched
  <2> QED
    BY <1>1, <2>1 DEF RequestTypes, requestVars
<1>3. UNCHANGED <<artifact, object>>
  BY DEF DispatchStep, ClaimPendingRunTasks, ReadRun, MarkRunRunning, EnsureJudgeAttempt, Publish,
         RetryJudgeTask, MarkJudgeTaskDispatched, sourceVars
<1>4. faults' \in Nat
  BY <1>1, FaultCounted
  DEF DispatchStep, ClaimPendingRunTasks, ReadRun, MarkRunRunning, EnsureJudgeAttempt, Publish,
      RetryJudgeTask, MarkJudgeTaskDispatched, RowTypes
<1>5. run' \in [Runs -> RunStatuses]
  <2>1. run' = run \/ run' = StartedRun(disp[w].cur)
    BY DEF DispatchStep, ClaimPendingRunTasks, ReadRun, MarkRunRunning, EnsureJudgeAttempt, Publish,
           RetryJudgeTask, MarkJudgeTaskDispatched
  <2> QED
    BY <1>1, <2>1 DEF RowTypes, StartedRun, RunStatuses
<1>6. task' \in [Runs -> {"none", "pending", "dispatching", "dispatched", "done"}]
  <2>1. \/ task' = task
        \/ \E r \in Runs : task' = [task EXCEPT ![r] = "dispatching"]
        \/ task' = [task EXCEPT ![disp[w].cur] = IF @ \in {"dispatching", "dispatched"} THEN "pending" ELSE @]
        \/ task' = [task EXCEPT ![disp[w].cur] = IF @ = "done" THEN @ ELSE "dispatched"]
    BY DEF DispatchStep, ClaimPendingRunTasks, ReadRun, MarkRunRunning, EnsureJudgeAttempt, Publish,
           RetryJudgeTask, MarkJudgeTaskDispatched
  <2> QED
    BY <1>1, <2>1 DEF RowTypes
<1>7. RowTypes'
  BY <1>1, <1>3, <1>4, <1>5, <1>6 DEF RowTypes
<1>8. disp[w] \in Dispatcher /\ (disp[w].pc # "idle" => disp[w].cur \in Runs)
  BY <1>1 DEF StreamTypes, CursorsRefer
<1>9. att' \in [Runs -> Seq(Attempts)]
  <2>1. \/ att' = att
        \/ /\ disp[w].pc = "ensure"
           /\ att' = [att EXCEPT ![disp[w].cur] = Append(@, "created")]
    BY DEF DispatchStep, ClaimPendingRunTasks, ReadRun, MarkRunRunning, EnsureJudgeAttempt, Publish,
           RetryJudgeTask, MarkJudgeTaskDispatched
  <2>2. \A r \in Runs : Append(att[r], "created") \in Seq(Attempts)
    BY <1>1, AppendProperties DEF StreamTypes, Attempts
  <2> QED
    BY <1>1, <1>8, <2>1, <2>2 DEF StreamTypes
<1>10. reqs' \in Seq(RequestEntry)
  <2>1. reqs' = reqs \/ (disp[w].pc = "publish" /\ reqs' = Append(reqs, Request(w)))
    BY DEF DispatchStep, ClaimPendingRunTasks, ReadRun, MarkRunRunning, EnsureJudgeAttempt, Publish,
           RetryJudgeTask, MarkJudgeTaskDispatched, queueVars
  <2>2. CASE reqs' = reqs
    BY <1>1, <2>2 DEF StreamTypes
  <2>3. CASE disp[w].pc = "publish" /\ reqs' = Append(reqs, Request(w))
    <3>1. Request(w) \in RequestEntry
      BY <1>8, <2>3 DEF Request, RequestEntry, Dispatcher
    <3>2. reqs \in Seq(RequestEntry)
      BY <1>1 DEF StreamTypes
    <3> QED
      BY <2>3, <3>1, <3>2, AppendProperties
  <2> QED
    BY <2>1, <2>2, <2>3
<1>11. \/ Exit(w)
       \/ /\ UNCHANGED <<ress, sweep>>
          /\ \/ \E r \in Runs : disp' = [disp EXCEPT ![w] = [pc |-> "read", cur |-> r, no |-> 0]]
             \/ disp' = [disp EXCEPT ![w] = Idle]
             \/ /\ disp[w].pc # "idle"
                /\ \E pc \in DispatchStates : disp' = [disp EXCEPT ![w].pc = pc]
             \/ /\ disp[w].pc = "ensure"
                /\ \E n \in {Len(att[disp[w].cur]), Len(att[disp[w].cur]) + 1} :
                      disp' = [disp EXCEPT ![w].pc = "publish", ![w].no = n]
  <2>1. CASE ClaimPendingRunTasks(w)
    BY <2>1 DEF ClaimPendingRunTasks, queueVars
  <2>2. CASE ReadRun(w)
    BY <2>2 DEF ReadRun, DispatchStates
  <2>3. CASE MarkRunRunning(w)
    BY <2>3 DEF MarkRunRunning, DispatchStates
  <2>4. CASE EnsureJudgeAttempt(w)
    BY <2>4 DEF EnsureJudgeAttempt
  <2>5. CASE Publish(w)
    BY <2>5 DEF Publish, DispatchStates
  <2>6. CASE RetryJudgeTask(w)
    BY <2>6 DEF RetryJudgeTask
  <2>7. CASE MarkJudgeTaskDispatched(w)
    BY <2>7 DEF MarkJudgeTaskDispatched
  <2> QED
    BY <2>1, <2>2, <2>3, <2>4, <2>5, <2>6, <2>7 DEF DispatchStep
<1>12. StreamTypes'
  <2>1. CASE Exit(w)
    BY <1>1, <1>9, <1>10, <2>1, ExitTyped DEF StreamTypes
  <2>2. CASE ~Exit(w)
    <3>1. disp' \in [Workers -> Dispatcher]
      <4>1. \A r \in Runs : [pc |-> "read", cur |-> r, no |-> 0] \in Dispatcher
        BY DEF Dispatcher, DispatchStates
      <4>2. Idle \in Dispatcher
        BY DEF Dispatcher, DispatchStates, Idle
      <4>3. \A pc \in DispatchStates : [disp[w] EXCEPT !.pc = pc] \in Dispatcher
        BY <1>8 DEF Dispatcher
      <4>4. disp[w].pc = "ensure" =>
               \A n \in {Len(att[disp[w].cur]), Len(att[disp[w].cur]) + 1} :
                  [disp[w] EXCEPT !.pc = "publish", !.no = n] \in Dispatcher
        <5>1. ASSUME disp[w].pc = "ensure"
              PROVE  Len(att[disp[w].cur]) \in Nat
          BY <1>1, <1>8, <5>1, LenProperties DEF StreamTypes
        <5>2. \A n \in Nat : [disp[w] EXCEPT !.pc = "publish", !.no = n] \in Dispatcher
          BY <1>8 DEF Dispatcher, DispatchStates
        <5> DEFINE last == Len(att[disp[w].cur])
        <5>3. disp[w].pc = "ensure" => {last, last + 1} \subseteq Nat
          BY <5>1
        <5> HIDE DEF last
        <5>4. disp[w].pc = "ensure" =>
                 \A n \in {last, last + 1} : [disp[w] EXCEPT !.pc = "publish", !.no = n] \in Dispatcher
          BY <5>2, <5>3
        <5> QED
          BY <5>4 DEF last
      <4> QED
        BY <1>1, <1>11, <2>2, <4>1, <4>2, <4>3, <4>4 DEF StreamTypes
    <3>2. disp'[w].pc # "idle" => disp'[w].cur \in Runs
      <4>1. ASSUME NEW r \in Runs, disp' = [disp EXCEPT ![w] = [pc |-> "read", cur |-> r, no |-> 0]]
            PROVE  disp'[w].cur \in Runs
        BY <1>1, <4>1 DEF StreamTypes
      <4>2. ASSUME disp' = [disp EXCEPT ![w] = Idle]
            PROVE  disp'[w].pc = "idle"
        BY <1>1, <4>2 DEF StreamTypes, Idle
      <4>3. ASSUME NEW pc, disp' = [disp EXCEPT ![w].pc = pc]
            PROVE  disp'[w].cur = disp[w].cur
        BY <1>1, <1>8, <4>3 DEF StreamTypes, Dispatcher
      <4>4. ASSUME NEW n, disp' = [disp EXCEPT ![w].pc = "publish", ![w].no = n]
            PROVE  disp'[w].cur = disp[w].cur
        BY <1>1, <1>8, <4>4 DEF StreamTypes, Dispatcher
      <4> QED
        BY <1>8, <1>11, <2>2, <4>1, <4>2, <4>3, <4>4
    <3>3. /\ \A v \in Workers : v # w => disp'[v] = disp[v]
          /\ UNCHANGED <<ress, sweep>>
      BY <1>1, <1>11, <2>2 DEF StreamTypes
    <3> QED
      BY <1>1, <1>9, <1>10, <3>1, <3>2, <3>3 DEF StreamTypes, CursorsRefer
  <2> QED
    BY <2>1, <2>2
<1> QED
  BY <1>2, <1>7, <1>12 DEF TypeInv

LEMMA SweepStepTypes ==
    ASSUME TypeInv, NEW w \in Workers, SweepStep(w)
    PROVE  TypeInv'
<1>1. RowTypes /\ RequestTypes /\ StreamTypes
  BY DEF TypeInv
<1>2. UNCHANGED <<requestVars, queueVars, disp, faults>>
  BY DEF SweepStep, SweepRun, SweepObject, SweepRow, SweepOrphan, SweepOrphanObject, SweepOrphanRow,
         SweepFails
<1>3. RequestTypes'
  BY <1>1, <1>2 DEF RequestTypes, requestVars
<1>4. sweep[w] \in Sweeper /\ (sweep[w].pc # "idle" => sweep[w].cur \in Runs)
  BY <1>1 DEF StreamTypes, CursorsRefer
<1> DEFINE r == sweep[w].cur
<1>5. /\ run' = run \/ run' = [run EXCEPT ![r] = "deleted"]
      /\ task' = task \/ task' = [task EXCEPT ![r] = "none"]
      /\ att' = att \/ att' = [att EXCEPT ![r] = << >>]
      /\ object' = object \/ object' = [object EXCEPT ![r] = FALSE]
  BY DEF SweepStep, SweepRun, SweepObject, SweepRow, SweepOrphan, SweepOrphanObject, SweepOrphanRow,
         SweepFails, sourceVars
<1>6. \/ artifact' = artifact \/ artifact' = [artifact EXCEPT ![r] = FALSE]
      \/ artifact' = DeleteArtifact(r) /\ r \in Runs
  BY <1>4 DEF SweepStep, SweepRun, SweepObject, SweepRow, SweepOrphan, SweepOrphanObject,
              SweepOrphanRow, SweepFails, sourceVars
<1>7. artifact' \in [Runs -> BOOLEAN]
  BY <1>1, <1>6, DeletedArtifactTyped DEF RowTypes
<1>8. /\ run' \in [Runs -> RunStatuses]
      /\ task' \in [Runs -> {"none", "pending", "dispatching", "dispatched", "done"}]
      /\ object' \in [Runs -> BOOLEAN]
  BY <1>1, <1>5 DEF RowTypes, RunStatuses
<1>9. RowTypes'
  BY <1>1, <1>2, <1>7, <1>8 DEF RowTypes
<1>10. att' \in [Runs -> Seq(Attempts)]
  <2>1. att \in [Runs -> Seq(Attempts)] /\ << >> \in Seq(Attempts)
    BY <1>1, EmptySeq DEF StreamTypes
  <2> HIDE DEF r
  <2> QED
    BY <1>5, <2>1
<1>11. \/ \E q \in Runs, pc \in {"object", "orphanObject"} :
               sweep' = [sweep EXCEPT ![w] = [pc |-> pc, cur |-> q]]
       \/ sweep' = [sweep EXCEPT ![w] = NoSweep]
       \/ /\ sweep[w].pc # "idle"
          /\ \E pc \in {"row", "orphanRow"} : sweep' = [sweep EXCEPT ![w].pc = pc]
  BY DEF SweepStep, SweepRun, SweepObject, SweepRow, SweepOrphan, SweepOrphanObject, SweepOrphanRow,
         SweepFails
<1>12. /\ sweep' \in [Workers -> Sweeper]
       /\ sweep'[w].pc # "idle" => sweep'[w].cur \in Runs
       /\ \A v \in Workers : v # w => sweep'[v] = sweep[v]
  <2>1. ASSUME NEW q \in Runs, NEW pc \in {"object", "orphanObject"}
        PROVE  [pc |-> pc, cur |-> q] \in Sweeper
    BY DEF Sweeper, SweepStates
  <2>2. NoSweep \in Sweeper /\ NoSweep.pc = "idle"
    BY DEF NoSweep, Sweeper, SweepStates
  <2>3. ASSUME NEW pc \in {"row", "orphanRow"}
        PROVE  /\ [sweep[w] EXCEPT !.pc = pc] \in Sweeper
               /\ [sweep[w] EXCEPT !.pc = pc].cur = sweep[w].cur
    BY <1>4 DEF Sweeper, SweepStates
  <2>4. PICK s \in Sweeper : /\ sweep' = [sweep EXCEPT ![w] = s]
                             /\ s.pc # "idle" => s.cur \in Runs
    <3>1. ASSUME NEW q \in Runs, NEW pc \in {"object", "orphanObject"},
                 sweep' = [sweep EXCEPT ![w] = [pc |-> pc, cur |-> q]]
          PROVE  \E s \in Sweeper : /\ sweep' = [sweep EXCEPT ![w] = s]
                                    /\ s.pc # "idle" => s.cur \in Runs
      BY <2>1, <3>1
    <3>2. ASSUME NEW pc \in {"row", "orphanRow"}, sweep[w].pc # "idle",
                 sweep' = [sweep EXCEPT ![w] = [sweep[w] EXCEPT !.pc = pc]]
          PROVE  \E s \in Sweeper : /\ sweep' = [sweep EXCEPT ![w] = s]
                                    /\ s.pc # "idle" => s.cur \in Runs
      BY <1>4, <2>3, <3>2
    <3> QED
      BY <1>11, <2>2, <3>1, <3>2
  <2> QED
    BY <1>1, <2>4 DEF StreamTypes
<1>13. StreamTypes'
  BY <1>1, <1>2, <1>10, <1>12 DEF StreamTypes, CursorsRefer, queueVars
<1> QED
  BY <1>3, <1>9, <1>13 DEF TypeInv

\* A result is taken by a worker, written or swallowed.
LEMMA ResultStepTypes ==
    ASSUME TypeInv, NEW w \in Workers, ResultStep(w)
    PROVE  TypeInv'
<1>1. RowTypes /\ RequestTypes /\ StreamTypes
  BY DEF TypeInv
<1>2. UNCHANGED <<artifact, object>> /\ UNCHANGED <<requestVars, reqs, faults>>
  BY DEF ResultStep, ResultConsume, CompleteResult, sourceVars
<1>3. RequestTypes'
  BY <1>1, <1>2 DEF RequestTypes, requestVars
<1>4. CASE ResultConsume(w)
  <2>1. PICK i \in DOMAIN ress : ress' = [ress EXCEPT ![i].state = "held", ![i].by = w]
    BY <1>4 DEF ResultConsume
  <2>2. [ress[i] EXCEPT !.state = "held", !.by = w] \in ResultEntry
    BY <1>1, EntriesTyped DEF ResultEntry
  <2>3. /\ ress' = [j \in DOMAIN ress |-> ress'[j]]
        /\ \A j \in DOMAIN ress : ress'[j] \in ResultEntry
        /\ ress \in Seq(ResultEntry)
    BY <1>1, <2>1, <2>2, EntriesTyped DEF StreamTypes
  <2>4. ress' \in Seq(ResultEntry)
    BY <2>3, RewrittenStream
  <2>5. RowTypes' /\ UNCHANGED <<att, disp, sweep>>
    BY <1>1, <1>2, <1>4 DEF ResultConsume, RowTypes, workerVars
  <2> QED
    BY <1>1, <1>2, <1>3, <2>4, <2>5 DEF TypeInv, StreamTypes, CursorsRefer
<1>5. CASE CompleteResult(w)
  <2>1. PICK i \in DOMAIN ress :
           /\ \/ Exit(w)
              \/ /\ ress' = [ress EXCEPT ![i].state = "acked", ![i].by = None]
                 /\ UNCHANGED workerVars
           /\ \/ UNCHANGED <<run, task, att>>
              \/ /\ run' = UpdateRunStatus(ress[i].run, ress[i].verdict)
                 /\ ress[i].no \in DOMAIN att[ress[i].run]
                 /\ att' = [att EXCEPT ![ress[i].run][ress[i].no] = ress[i].verdict]
                 /\ task' = [task EXCEPT ![ress[i].run] =
                               IF @ \in {"dispatching", "dispatched"} THEN "done" ELSE @]
    BY <1>5 DEF CompleteResult
  <2>2. ress[i] \in ResultEntry /\ ress[i].run \in Runs /\ ress[i].verdict \in Verdicts
    BY <1>1, EntriesTyped DEF ResultEntry
  <2>3. /\ run' \in [Runs -> RunStatuses]
        /\ task' \in [Runs -> {"none", "pending", "dispatching", "dispatched", "done"}]
    BY <1>1, <2>1, <2>2 DEF RowTypes, RunStatuses, UpdateRunStatus
  <2>4. att' \in [Runs -> Seq(Attempts)]
    <3> DEFINE r == ress[i].run
               n == ress[i].no
               a == [att[r] EXCEPT ![n] = ress[i].verdict]
    <3>1. att[r] \in Seq(Attempts)
      BY <1>1, <2>2 DEF StreamTypes
    <3>2. n \in DOMAIN att[r] => a \in Seq(Attempts)
      <4>1. \A j \in DOMAIN att[r] : att[r][j] \in Attempts
        BY <3>1, ElementOfSeq
      <4>2. a = [j \in DOMAIN att[r] |-> a[j]] /\ \A j \in DOMAIN att[r] : a[j] \in Attempts
        BY <2>2, <4>1 DEF Attempts
      <4> HIDE DEF a
      <4> QED
        BY <3>1, <4>2, RewrittenStream
    <3>3. att' = att \/ (n \in DOMAIN att[r] /\ att' = [att EXCEPT ![r] = a])
      BY <2>1
    <3> HIDE DEF r, a, n
    <3>4. r \in Runs
      BY <2>2 DEF r
    <3> QED
      BY <1>1, <3>2, <3>3, <3>4 DEF StreamTypes
  <2>5. RowTypes'
    BY <1>1, <1>2, <2>3 DEF RowTypes
  <2>6. CASE Exit(w)
    BY <1>1, <1>2, <1>3, <2>4, <2>5, <2>6, ExitTyped DEF TypeInv, StreamTypes
  <2>7. CASE ress' = [ress EXCEPT ![i].state = "acked", ![i].by = None] /\ UNCHANGED workerVars
    <3>1. [ress[i] EXCEPT !.state = "acked", !.by = None] \in ResultEntry
      BY <2>2 DEF ResultEntry
    <3>2. /\ ress' = [j \in DOMAIN ress |-> ress'[j]]
          /\ \A j \in DOMAIN ress : ress'[j] \in ResultEntry
          /\ ress \in Seq(ResultEntry)
      BY <1>1, <2>7, <3>1, EntriesTyped DEF StreamTypes
    <3>3. ress' \in Seq(ResultEntry)
      BY <3>2, RewrittenStream
    <3> QED
      BY <1>1, <1>2, <1>3, <2>4, <2>5, <2>7, <3>3 DEF TypeInv, StreamTypes, CursorsRefer, workerVars
  <2> QED
    BY <2>1, <2>6, <2>7
<1> QED
  BY <1>4, <1>5 DEF ResultStep

LEMMA AgentStepTypes ==
    ASSUME TypeInv, AgentHandle
    PROVE  TypeInv'
<1>1. RowTypes /\ RequestTypes /\ StreamTypes
  BY DEF TypeInv
<1>2. /\ UNCHANGED <<run, artifact, object, task, att>> /\ UNCHANGED requestVars
      /\ UNCHANGED <<disp, sweep>>
  BY DEF AgentHandle, AgentEnds, sourceVars, workerVars
<1>3. faults' \in Nat
  BY <1>1, FaultCounted DEF AgentHandle, AgentEnds, RowTypes
<1>4. PICK i \in DOMAIN reqs, state \in {"acked", "dead", "orphan"} :
         /\ reqs' = [reqs EXCEPT ![i].state = state]
         /\ \/ ress' = ress
            \/ \E v \in Verdicts :
                  ress' = Append(ress, [run |-> reqs[i].run, no |-> reqs[i].no, verdict |-> v,
                                        state |-> "new", by |-> None])
  BY DEF AgentHandle, AgentEnds
<1>5. reqs[i] \in RequestEntry /\ [reqs[i] EXCEPT !.state = state] \in RequestEntry
  BY <1>1, EntriesTyped DEF RequestEntry
<1>6. /\ reqs' = [j \in DOMAIN reqs |-> reqs'[j]]
      /\ \A j \in DOMAIN reqs : reqs'[j] \in RequestEntry
      /\ reqs \in Seq(RequestEntry)
  BY <1>1, <1>4, <1>5, EntriesTyped DEF StreamTypes
<1>7. reqs' \in Seq(RequestEntry)
  BY <1>6, RewrittenStream
<1>8. \A v \in Verdicts : [run |-> reqs[i].run, no |-> reqs[i].no, verdict |-> v,
                            state |-> "new", by |-> None] \in ResultEntry
  BY <1>5 DEF RequestEntry, ResultEntry
<1>9. ress' \in Seq(ResultEntry)
  <2>1. \A e \in ResultEntry : Append(ress, e) \in Seq(ResultEntry)
    BY <1>1, AppendProperties DEF StreamTypes
  <2> QED
    BY <1>1, <1>4, <1>8, <2>1 DEF StreamTypes
<1> QED
  BY <1>1, <1>2, <1>3, <1>7, <1>9
  DEF TypeInv, RowTypes, RequestTypes, StreamTypes, CursorsRefer, requestVars

LEMMA TypeStep == TypeInv /\ [Next]_vars => TypeInv'
<1> SUFFICES ASSUME TypeInv, [Next]_vars
             PROVE  TypeInv'
  OBVIOUS
<1>1. CASE UNCHANGED vars
  BY <1>1 DEF vars, TypeInv, RowTypes, RequestTypes, StreamTypes, CursorsRefer
<1>2. ASSUME NEW w \in Workers, WorkerCrash(w)
      PROVE  TypeInv'
  <2>1. RowTypes /\ RequestTypes /\ StreamTypes
    BY DEF TypeInv
  <2>2. UNCHANGED <<run, artifact, object, task, att, reqs>> /\ UNCHANGED requestVars
        /\ faults' \in Nat
    BY <1>2, <2>1, FaultCounted DEF WorkerCrash, sourceVars
  <2>3. RowTypes' /\ RequestTypes'
    BY <2>1, <2>2 DEF RowTypes, RequestTypes, requestVars
  <2> QED
    BY <1>2, <2>1, <2>2, <2>3, ExitTyped DEF WorkerCrash, TypeInv, StreamTypes
<1> QED
  BY <1>1, <1>2, RequestStepTypes, ApiStepTypes, DispatchStepTypes, ResultStepTypes, SweepStepTypes,
     AgentStepTypes DEF Next

\* Runs, tasks, sources, streams and requests keep their types, whatever fails:
\* no statement writes a status outside the life cycle of its row.
THEOREM TypeCorrect == Spec => []TypeOK
BY TypeInvTypes, TypeInitially, TypeStep, PTL DEF Spec

-----------------------------------------------------------------------------
(* Execution slots                                                         *)

\* An inline request has its slot from its first step to its last, and an
\* execution has one only once its request is over.
SlotOwned ==
    \A r \in Runs :
        /\ req[r].pc = "idle" => slot[r] = "none" /\ req[r].api = None
        /\ req[r].pc = "end" => slot[r] # "request"
        /\ req[r].pc \notin {"idle", "end"} => slot[r] = IF Inline(r) THEN "request" ELSE "none"

\* Nothing of a process that has closed holds a slot.
ClosedIsEmpty == \A a \in Apis, r \in Runs : api[a] = "closed" /\ req[r].api = a => slot[r] = "none"

SlotInv == SlotOwned /\ ClosedIsEmpty

LEMMA SlotInvSays == ASSUME SlotInv
                     PROVE  EndedRequestHoldsNoSlot /\ NothingRunsAfterClose
<1>1. EndedRequestHoldsNoSlot
  BY DEF SlotInv, SlotOwned, EndedRequestHoldsNoSlot
<1>2. ASSUME NEW a \in Apis, api[a] = "closed"
      PROVE  SlotsUsed(a) = 0
  <2>1. {r \in Runs : req[r].api = a /\ slot[r] # "none"} = {}
    BY <1>2 DEF SlotInv, ClosedIsEmpty
  <2> QED
    BY <2>1, FS_EmptySet DEF SlotsUsed
<1> QED
  BY <1>1, <1>2 DEF NothingRunsAfterClose

LEMMA SlotInitially == Init => SlotInv
BY DEF Init, SlotInv, SlotOwned, ClosedIsEmpty, NoRequest

\* A process whose count of slots is zero has none in use.
LEMMA NoSlotUsed ==
    ASSUME NEW a, SlotsUsed(a) = 0, NEW r \in Runs, req[r].api = a
    PROVE  slot[r] = "none"
<1> DEFINE S == {q \in Runs : req[q].api = a /\ slot[q] # "none"}
<1>1. IsFiniteSet(S)
  BY RunsAssumption, FS_Subset
<1>2. S = {}
  BY <1>1, FS_EmptySet DEF SlotsUsed
<1> QED
  BY <1>2

\* A request that goes on within the same process, with its slot.
LEMMA SlotKeptOnTheWay ==
    ASSUME RequestTypes, SlotInv, NEW r \in Runs, NEW pc, Goto(r, pc), pc \notin {"idle", "end"},
           req[r].pc \notin {"idle", "end"}, UNCHANGED <<slot, api>>
    PROVE  SlotInv'
<1>1. \A q \in Runs : req'[q].api = req[q].api /\ (q # r => req'[q] = req[q])
  BY DEF RequestTypes, Goto
<1>2. req'[r].pc = pc
  BY DEF RequestTypes, Goto
<1>3. SlotOwned'
  BY <1>1, <1>2 DEF SlotInv, SlotOwned, Inline
<1>4. ClosedIsEmpty'
  BY <1>1 DEF SlotInv, ClosedIsEmpty
<1> QED
  BY <1>3, <1>4 DEF SlotInv

\* A request that is over: its slot is free, or was the request's and is now
\* the execution's.
LEMMA SlotAtTheEnd ==
    ASSUME RequestTypes, SlotInv, NEW r \in Runs, Goto(r, "end"), req[r].pc \notin {"idle", "end"},
           NEW s \in {"none", "execution"}, slot' = [slot EXCEPT ![r] = s],
           s = "execution" => slot[r] = "request", UNCHANGED api
    PROVE  SlotInv'
<1>1. \A q \in Runs : req'[q].api = req[q].api /\ (q # r => req'[q] = req[q] /\ slot'[q] = slot[q])
  BY DEF RequestTypes, Goto
<1>2. req'[r].pc = "end" /\ slot'[r] = s
  BY DEF RequestTypes, Goto
<1>3. SlotOwned'
  BY <1>1, <1>2 DEF SlotInv, SlotOwned, Inline
<1>4. ClosedIsEmpty'
  BY <1>1, <1>2 DEF SlotInv, ClosedIsEmpty
<1> QED
  BY <1>3, <1>4 DEF SlotInv

LEMMA EndFreesSlot ==
    ASSUME RequestTypes, SlotInv, NEW r \in Runs, End(r), req[r].pc \notin {"idle", "end"}, UNCHANGED api
    PROVE  SlotInv'
<1>1. slot[r] \in {"none", "request"}
  BY DEF SlotInv, SlotOwned
<1>2. slot' = [slot EXCEPT ![r] = "none"]
  BY <1>1 DEF End, RequestTypes
<1> QED
  BY <1>2, SlotAtTheEnd DEF End

LEMMA SlotRequestStep ==
    ASSUME TypeInv, SlotInv, NEW r \in Runs, RequestStep(r) \/ AdmitFails(r)
    PROVE  SlotInv'
<1>1. RequestTypes
  BY DEF TypeInv
<1>2. ASSUME PutSource(r) \/ CreateArtifact(r) \/ DiscardRow(r)
      PROVE  SlotInv'
  <2>1. UNCHANGED api /\ req[r].pc \notin {"idle", "end"}
    BY <1>2 DEF PutSource, CreateArtifact, DiscardRow
  <2>2. CASE End(r)
    BY <1>1, <2>1, <2>2, EndFreesSlot
  <2>3. ASSUME NEW pc \in {"row", "lock"}, Goto(r, pc), slot' = slot
        PROVE  SlotInv'
    BY <1>1, <2>1, <2>3, SlotKeptOnTheWay
  <2> QED
    BY <1>2, <2>2, <2>3 DEF PutSource, CreateArtifact, DiscardRow
<1>3. ASSUME LockUserForRunAdmission(r) \/ CountActiveRunsByUser(r) \/ DiscardObject(r) \/ AdmitFails(r)
      PROVE  SlotInv'
  <2>1. UNCHANGED <<slot, api>> /\ req[r].pc \notin {"idle", "end"}
    BY <1>3 DEF LockUserForRunAdmission, CountActiveRunsByUser, DiscardObject, AdmitFails
  <2>2. PICK pc \in {"count", "insert", "undoObject", "undoRow"} : Goto(r, pc)
    BY <1>3 DEF LockUserForRunAdmission, CountActiveRunsByUser, DiscardObject, AdmitFails
  <2> QED
    BY <1>1, <2>1, <2>2, SlotKeptOnTheWay
<1>4. ASSUME CreateRun(r)
      PROVE  SlotInv'
  <2>1. req[r].pc = "insert" /\ Goto(r, "end") /\ UNCHANGED api
        /\ slot' = [slot EXCEPT ![r] = IF Inline(r) THEN "execution" ELSE slot[r]]
    BY <1>4 DEF CreateRun
  <2>2. slot[r] = IF Inline(r) THEN "request" ELSE "none"
    BY <2>1 DEF SlotInv, SlotOwned
  <2>3. CASE Inline(r)
    BY <1>1, <2>1, <2>2, <2>3, SlotAtTheEnd
  <2>4. CASE ~Inline(r)
    BY <1>1, <2>1, <2>2, <2>4, SlotAtTheEnd
  <2> QED
    BY <2>3, <2>4
<1> QED
  BY <1>2, <1>3, <1>4 DEF RequestStep

LEMMA SlotStep == TypeInv /\ SlotInv /\ [Next]_vars => SlotInv'
<1> SUFFICES ASSUME TypeInv, SlotInv, [Next]_vars
             PROVE  SlotInv'
  OBVIOUS
<1>1. RequestTypes
  BY DEF TypeInv
<1>2. ASSUME NEW r \in Runs, NEW u \in Users, NEW a \in Apis, BeginRun(r, u, a)
      PROVE  SlotInv'
  <2>1. /\ req[r].pc = "idle" /\ slot[r] = "none" /\ UNCHANGED api
        /\ \A q \in Runs : q # r => req'[q] = req[q] /\ slot'[q] = slot[q]
    BY <1>1, <1>2 DEF BeginRun, RequestTypes, SlotInv, SlotOwned
  <2>2. /\ req'[r].api = a
        /\ \/ /\ req'[r].pc = "put" /\ slot'[r] = IF a \in InlineApis THEN "request" ELSE "none"
              /\ a \in InlineApis => api[a] = "open"
           \/ /\ req'[r].pc = "end" /\ slot'[r] = "none"
    BY <1>1, <1>2, <2>1 DEF BeginRun, RequestTypes, CanReserve
  <2>3. SlotOwned'
    BY <2>1, <2>2 DEF SlotInv, SlotOwned, Inline
  <2>4. ClosedIsEmpty'
    BY <2>1, <2>2 DEF SlotInv, ClosedIsEmpty
  <2> QED
    BY <2>3, <2>4 DEF SlotInv
<1>3. ASSUME NEW r \in Runs, CompleteRunAsync(r)
      PROVE  SlotInv'
  <2>1. slot[r] = "execution" /\ slot' = [slot EXCEPT ![r] = "none"] /\ UNCHANGED <<req, api>>
    BY <1>3 DEF CompleteRunAsync
  <2>2. req[r].pc = "end"
    BY <2>1 DEF SlotInv, SlotOwned
  <2> QED
    BY <1>1, <2>1, <2>2 DEF RequestTypes, SlotInv, SlotOwned, ClosedIsEmpty, Inline
<1>4. ASSUME NEW a \in Apis, BeginShutdown(a) \/ CloseDone(a)
      PROVE  SlotInv'
  <2>1. /\ UNCHANGED <<req, slot>>
        /\ \A b \in Apis : api'[b] = "closed" => api[b] = "closed" \/ (b = a /\ SlotsUsed(a) = 0)
    BY <1>1, <1>4 DEF BeginShutdown, CloseDone, RequestTypes
  <2> QED
    BY <2>1, NoSlotUsed DEF SlotInv, SlotOwned, ClosedIsEmpty, Inline
<1>5. ASSUME NEW a \in Apis, ApiCrash(a)
      PROVE  SlotInv'
  <2>1. \A r \in Runs : IF req[r].api = a
                         THEN slot'[r] = "none" /\ req'[r].pc = "end" /\ req'[r].api = a
                         ELSE slot'[r] = slot[r] /\ req'[r] = req[r]
    BY <1>1, <1>5 DEF ApiCrash, RequestTypes
  <2>2. \A b \in Apis : api'[b] = "closed" => api[b] = "closed"
    BY <1>1, <1>5 DEF ApiCrash, RequestTypes
  <2> QED
    BY <2>1, <2>2 DEF SlotInv, SlotOwned, ClosedIsEmpty, Inline
<1>6. ASSUME UNCHANGED <<req, slot, api>>
      PROVE  SlotInv'
  BY <1>6 DEF SlotInv, SlotOwned, ClosedIsEmpty, Inline
<1>7. ASSUME NEW r \in Runs, MarkStaleRun(r)
      PROVE  UNCHANGED <<req, slot, api>>
  BY <1>7 DEF MarkStaleRun, requestVars
<1>8. ASSUME NEW w \in Workers, DispatchStep(w) \/ ResultStep(w) \/ SweepStep(w) \/ WorkerCrash(w)
      PROVE  UNCHANGED <<req, slot, api>>
  BY <1>8 DEF DispatchStep, ClaimPendingRunTasks, ReadRun, MarkRunRunning, EnsureJudgeAttempt, Publish,
              RetryJudgeTask, MarkJudgeTaskDispatched, ResultStep, ResultConsume, CompleteResult,
              SweepStep, SweepRun, SweepObject, SweepRow, SweepOrphan, SweepOrphanObject,
              SweepOrphanRow, SweepFails, WorkerCrash, requestVars
<1>9. ASSUME AgentHandle \/ UNCHANGED vars
      PROVE  UNCHANGED <<req, slot, api>>
  BY <1>9 DEF AgentHandle, AgentEnds, vars, requestVars
<1> QED
  BY <1>2, <1>3, <1>4, <1>5, <1>6, <1>7, <1>8, <1>9, SlotRequestStep DEF Next

\* However CreateRun ends, in success, refusal, error or the death of its
\* process, the slot it reserved was given back or handed to the execution.
THEOREM SlotsReturned == Spec => []EndedRequestHoldsNoSlot
<1>1. Init => TypeInv /\ SlotInv
  BY TypeInitially, SlotInitially
<1>2. TypeInv /\ SlotInv /\ [Next]_vars => (TypeInv /\ SlotInv)'
  BY TypeStep, SlotStep
<1>3. SlotInv => EndedRequestHoldsNoSlot
  BY SlotInvSays
<1> QED
  BY <1>1, <1>2, <1>3, PTL DEF Spec

\* When Close has returned, no request and no execution of that process holds a
\* slot, and none will: reserveExecution refuses once shutdown has begun, and an
\* execution starts only with the slot its request already had.
THEOREM CloseIsFinal == Spec => []NothingRunsAfterClose
<1>1. Init => TypeInv /\ SlotInv
  BY TypeInitially, SlotInitially
<1>2. TypeInv /\ SlotInv /\ [Next]_vars => (TypeInv /\ SlotInv)'
  BY TypeStep, SlotStep
<1>3. SlotInv => NothingRunsAfterClose
  BY SlotInvSays
<1> QED
  BY <1>1, <1>2, <1>3, PTL DEF Spec

-----------------------------------------------------------------------------
(* Sources                                                                 *)

\* What a sweep is about to delete belongs to a run nobody waits on, and whose
\* request will not insert it any more.
SweptIsOver ==
    \A w \in Workers : sweep[w].pc # "idle" =>
        ~Active(sweep[w].cur) /\ req[sweep[w].cur].pc \notin BeforeInsert

\* A run that is over, and whose request has inserted it or given up, stays so.
LEMMA OverStaysOver ==
    ASSUME AdmissionInv, TypeInv, [Next]_vars, NEW r \in Runs, ~Active(r), req[r].pc \notin BeforeInsert
    PROVE  ~Active(r)' /\ req'[r].pc \notin BeforeInsert
<1>1. CASE OtherNext
  BY <1>1, OtherStepsAreRunSteps DEF AdmissionInv, RunStep, Active
<1>2. CASE MoveNext
  BY <1>2, MovesAreRequestMoves DEF RequestMove, Active
<1>3. CASE \E q \in Runs : CreateRun(q) \/ AdmitFails(q)
  <2>1. PICK q \in Runs : CreateRun(q) \/ AdmitFails(q)
    BY <1>3
  <2>2. q # r
    BY <2>1 DEF CreateRun, AdmitFails, BeforeInsert
  <2>3. run'[r] = run[r] /\ req'[r] = req[r]
    BY <2>1, <2>2 DEF CreateRun, AdmitFails, InsertedRun, Goto, TypeInv, RowTypes, RequestTypes
  <2> QED
    BY <2>3 DEF Active
<1>4. CASE UNCHANGED vars
  BY <1>4 DEF vars, Active
<1> QED
  BY <1>1, <1>2, <1>3, <1>4, NextByKind

\* A sweep goes on with the run it has, stops, or picks one that is over.
LEMMA SweepMoves ==
    ASSUME AdmissionInv, TypeInv, [Next]_vars, NEW v \in Workers, sweep'[v].pc # "idle"
    PROVE  \/ sweep[v].pc # "idle" /\ sweep'[v].cur = sweep[v].cur
           \/ /\ sweep'[v].cur \in Runs /\ ~Active(sweep'[v].cur)
              /\ req[sweep'[v].cur].pc \notin BeforeInsert
<1>1. sweep \in [Workers -> Sweeper]
  BY DEF TypeInv, StreamTypes
<1>2. ASSUME NEW w \in Workers, Exit(w)
      PROVE  sweep'[v] = sweep[v]
  BY <1>1, <1>2 DEF Exit, NoSweep
<1>3. ASSUME NEW w \in Workers, DispatchStep(w) \/ ResultStep(w) \/ WorkerCrash(w)
      PROVE  sweep'[v] = sweep[v]
  <2>1. Exit(w) \/ UNCHANGED sweep
    BY <1>3 DEF DispatchStep, ClaimPendingRunTasks, ReadRun, MarkRunRunning, EnsureJudgeAttempt,
                Publish, RetryJudgeTask, MarkJudgeTaskDispatched, ResultStep, ResultConsume,
                CompleteResult, WorkerCrash, workerVars
  <2> QED
    BY <1>2, <2>1
<1>4. ASSUME NEW w \in Workers, SweepRun(w) \/ SweepOrphan(w)
      PROVE  \/ sweep'[v] = sweep[v]
             \/ /\ sweep'[v].cur \in Runs /\ ~Active(sweep'[v].cur)
                /\ req[sweep'[v].cur].pc \notin BeforeInsert
  <2>1. PICK r, pc : /\ r \in Runs
                     /\ sweep' = [sweep EXCEPT ![w] = [pc |-> pc, cur |-> r]]
                     /\ r \in ListExpiredRuns \/ (Orphaned(r) /\ req[r].pc = "end")
    BY <1>4 DEF SweepRun, SweepOrphan
  <2>2. ~Active(r) /\ req[r].pc \notin BeforeInsert
    BY <2>1, RunsAssumption
    DEF ListExpiredRuns, terminalStatus, Orphaned, Exists, Active, AdmissionInv, NotInserted, BeforeInsert
  <2> QED
    BY <1>1, <2>1, <2>2
<1>5. ASSUME NEW w \in Workers, SweepStep(w), ~(SweepRun(w) \/ SweepOrphan(w))
      PROVE  sweep[v].pc # "idle" /\ sweep'[v].cur = sweep[v].cur
  <2>1. /\ sweep[w].pc # "idle"
        /\ \/ sweep' = [sweep EXCEPT ![w] = NoSweep]
           \/ \E pc : sweep' = [sweep EXCEPT ![w].pc = pc]
    BY <1>5 DEF SweepStep, SweepObject, SweepRow, SweepOrphanObject, SweepOrphanRow, SweepFails
  <2> QED
    BY <1>1, <2>1 DEF NoSweep, Sweeper
<1>6. ASSUME NEW r \in Runs, RequestStep(r) \/ AdmitFails(r) \/ CompleteRunAsync(r) \/ MarkStaleRun(r)
             \/ \E u \in Users, a \in Apis : BeginRun(r, u, a)
      PROVE  UNCHANGED sweep
  BY <1>6 DEF RequestStep, PutSource, CreateArtifact, LockUserForRunAdmission, CountActiveRunsByUser,
              CreateRun, DiscardObject, DiscardRow, AdmitFails, CompleteRunAsync, MarkStaleRun, BeginRun,
              workerVars
<1>7. ASSUME NEW a \in Apis, BeginShutdown(a) \/ CloseDone(a) \/ ApiCrash(a)
      PROVE  UNCHANGED sweep
  BY <1>7 DEF BeginShutdown, CloseDone, ApiCrash, workerVars
<1>8. ASSUME AgentHandle \/ UNCHANGED vars
      PROVE  UNCHANGED sweep
  BY <1>8 DEF AgentHandle, AgentEnds, vars, workerVars
<1> QED
  BY <1>3, <1>4, <1>5, <1>6, <1>7, <1>8 DEF Next

LEMMA SweptStep ==
    AdmissionInv /\ TypeInv /\ SweptIsOver /\ [Next]_vars => SweptIsOver'
<1> SUFFICES ASSUME AdmissionInv, TypeInv, SweptIsOver, [Next]_vars, NEW v \in Workers,
                    sweep'[v].pc # "idle"
             PROVE  ~Active(sweep[v].cur)' /\ req'[sweep'[v].cur].pc \notin BeforeInsert
  BY DEF SweptIsOver
<1> DEFINE r == sweep'[v].cur
<1>1. r \in Runs
  BY TypeStep DEF TypeInv, StreamTypes, CursorsRefer
<1>2. ~Active(r) /\ req[r].pc \notin BeforeInsert
  BY SweepMoves DEF SweptIsOver
<1>3. \A q \in Runs : ~Active(q) /\ req[q].pc \notin BeforeInsert =>
                         ~(run'[q] \in {"queued", "running"}) /\ req'[q].pc \notin BeforeInsert
  BY OverStaysOver DEF Active
<1> QED
  BY <1>1, <1>2, <1>3 DEF Active

\* The steps that delete an object.
LEMMA WhoTakesTheSource ==
    ASSUME TypeInv, [Next]_vars, NEW r \in Runs, object[r], ~object'[r]
    PROVE  \/ req[r].pc \in {"put", "undoObject"}
           \/ \E w \in Workers : sweep[w].pc \in {"object", "orphanObject"} /\ sweep[w].cur = r
<1>1. object \in [Runs -> BOOLEAN]
  BY DEF TypeInv, RowTypes
<1>2. ASSUME NEW q \in Runs, RequestStep(q)
      PROVE  object' = object \/ (req[q].pc \in {"put", "undoObject"} /\ \E b : object' = [object EXCEPT ![q] = b])
  BY <1>2 DEF RequestStep, PutSource, CreateArtifact, LockUserForRunAdmission, CountActiveRunsByUser,
              CreateRun, DiscardObject, DiscardRow, sourceVars
<1>3. ASSUME NEW q \in Runs, AdmitFails(q) \/ CompleteRunAsync(q) \/ MarkStaleRun(q)
             \/ \E u \in Users, a \in Apis : BeginRun(q, u, a)
      PROVE  object' = object
  BY <1>3 DEF AdmitFails, CompleteRunAsync, MarkStaleRun, BeginRun, sourceVars
<1>4. ASSUME NEW a \in Apis, BeginShutdown(a) \/ CloseDone(a) \/ ApiCrash(a)
      PROVE  object' = object
  BY <1>4 DEF BeginShutdown, CloseDone, ApiCrash, sourceVars
<1>5. ASSUME NEW w \in Workers, DispatchStep(w) \/ ResultStep(w) \/ WorkerCrash(w)
      PROVE  object' = object
  BY <1>5 DEF DispatchStep, ClaimPendingRunTasks, ReadRun, MarkRunRunning, EnsureJudgeAttempt, Publish,
              RetryJudgeTask, MarkJudgeTaskDispatched, ResultStep, ResultConsume, CompleteResult,
              WorkerCrash, sourceVars
<1>6. ASSUME NEW w \in Workers, SweepStep(w)
      PROVE  object' = object \/ (/\ sweep[w].pc \in {"object", "orphanObject"}
                                 /\ object' = [object EXCEPT ![sweep[w].cur] = FALSE])
  BY <1>6 DEF SweepStep, SweepRun, SweepObject, SweepRow, SweepOrphan, SweepOrphanObject,
              SweepOrphanRow, SweepFails, sourceVars
<1>7. ASSUME AgentHandle \/ UNCHANGED vars
      PROVE  object' = object
  BY <1>7 DEF AgentHandle, AgentEnds, vars, sourceVars
<1>8. ASSUME NEW q, NEW b, object' = [object EXCEPT ![q] = b]
      PROVE  q = r
  <2>1. CASE q # r
    <3>1. [object EXCEPT ![q] = b][r] = object[r]
      BY <1>1, <2>1, Zenon
    <3> QED
      BY <1>8, <3>1, Zenon
  <2> QED
    BY <2>1
<1>9. object' # object
  BY Zenon
<1>10. ASSUME NEW q \in Runs, RequestStep(q)
       PROVE  req[r].pc \in {"put", "undoObject"}
  <2>1. PICK b : req[q].pc \in {"put", "undoObject"} /\ object' = [object EXCEPT ![q] = b]
    BY <1>2, <1>9, <1>10
  <2> QED
    BY <1>8, <2>1
<1>11. ASSUME NEW w \in Workers, SweepStep(w)
       PROVE  sweep[w].pc \in {"object", "orphanObject"} /\ sweep[w].cur = r
  <2>1. /\ sweep[w].pc \in {"object", "orphanObject"}
        /\ object' = [object EXCEPT ![sweep[w].cur] = FALSE]
    BY <1>6, <1>9, <1>11
  <2> QED
    BY <1>8, <2>1
<1> QED
  BY <1>3, <1>4, <1>5, <1>7, <1>9, <1>10, <1>11 DEF Next

\* Retention never takes the source of a run somebody waits on: what a sweep
\* picked was over when it was picked and stays over, whatever happens between
\* its listing and its deletion.
THEOREM SourcesKept == Spec => SourceTakenOnlyByUndo
<1> DEFINE I == AdmissionInv /\ TypeInv /\ SweptIsOver
<1>1. Init => I
  BY AdmissionInitially, TypeInitially DEF Init, SweptIsOver, NoSweep
<1>2. I /\ [Next]_vars => I'
  BY AdmissionStep, TypeStep, SweptStep
<1>3. ASSUME I, [Next]_vars, NEW r \in Runs, Active(r), object[r], ~object'[r]
      PROVE  req[r].pc = "undoObject"
  <2>1. req[r].pc # "put"
    BY <1>3 DEF AdmissionInv, NotInserted, BeforeInsert, Active
  <2>2. \A w \in Workers : sweep[w].pc # "idle" => sweep[w].cur # r
    BY <1>3 DEF SweptIsOver
  <2> QED
    BY <1>3, <2>1, <2>2, WhoTakesTheSource
<1>4. I /\ [Next]_vars =>
        [\A r \in Runs : Active(r) /\ object[r] /\ ~object'[r] => req[r].pc = "undoObject"]_vars
  BY <1>3
<1> QED
  BY <1>1, <1>2, <1>4, PTL DEF Spec, SourceTakenOnlyByUndo
=============================================================================
