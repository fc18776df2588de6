--------------------------- MODULE ContestsProofs ---------------------------
(***************************************************************************)
(* Proofs about Contests for any users, problems, transactions, snapshot   *)
(* generators and inputs: the types of its tables, that a registration's   *)
(* score is the sum over its cells, that a cell is what a rebuild from its *)
(* submissions gives, that a final snapshot of the present revision is     *)
(* exact, that a frozen board stops at the freeze, and that the pages of   *)
(* the board and of the listings meet every row once, at its rank.         *)
(***************************************************************************)
EXTENDS Contests, FiniteSetTheorems, SequenceTheorems, WellFoundedInduction, NaturalsInduction, TLAPS

\* The statements an action is made of are read as what they write.
USE DEF updatedSubs, ListContestProblems, ListContestProblemResultsForUsers

NoCells == [p \in Problems |-> NoCell]

-----------------------------------------------------------------------------
(* Transactions.                                                           *)

\* A user whose registration transaction t does not hold is not in its writes; for one
\* it holds, it carries the sum over the cells as it sees them.
Untouched(t, u) == u \notin DOMAIN t.score /\ \A p \in Problems : <<u, p>> \notin DOMAIN t.cells
Added(t, u) == /\ Registered(u) /\ u \in DOMAIN t.score
               /\ t.score[u] = ScoreOf(SeenRow(t, u))
Scored(t) == \A u \in Users : IF u \in t.held THEN Added(t, u) ELSE Untouched(t, u)

\* A rebuilt cell is followed by an increment of the revision before the commit.
Counted(t) ==
    /\ t.bumps \in Nat
    /\ DOMAIN t.cells # {} => t.bumps > 0 \/ (t.pc = "increment" /\ t.todo # {})

Good(t) == DOMAIN t = DOMAIN NoTx /\ Scored(t) /\ Counted(t)

\* No other transaction holds what t holds.
Apart(w, t) == \A x \in Workers \ {w}, u \in Users : ~(u \in t.held /\ u \in tx[x].held)

\* The tables are functions of their keys; a user who is not registered has no cell.
Tables ==
    /\ DOMAIN tx = Workers
    /\ results = [u \in Users |-> [p \in Problems |-> results[u][p]]]
    /\ \A u \in Users : ~Registered(u) => results[u] = NoCells

ScoreInv ==
    /\ Tables
    /\ \A w \in Workers : Good(tx[w]) /\ Apart(w, tx[w])
    /\ ScoreIsSum

-----------------------------------------------------------------------------
(* Scores.                                                                 *)

\* An empty sum: Register writes what a user without cells has.
LEMMA NoPenalty ==
    ASSUME NEW row
    PROVE  Penalty(row, {}) = 0
<1> DEFINE iter[s \in SUBSET {}] ==
        IF s = {} THEN 0
        ELSE LET x == CHOOSE y \in s : TRUE
             IN  row[x].penalty + iter[s \ {x}]
<1>1. Penalty(row, {}) = iter[{}]
  BY DEF Penalty, MapThenSumSet, MapThenFoldSet
<1>2. iter = [s \in {{}} |-> 0]
  OBVIOUS
<1> QED
  BY <1>1, <1>2

LEMMA EmptyScore == ScoreOf(NoCells) = [accepted |-> 0, penalty |-> 0]
<1>1. Accepted(NoCells) = {}
  BY DEF Accepted, NoCell, NoCells
<1> QED
  BY <1>1, NoPenalty, FS_EmptySet DEF ScoreOf

LEMMA IdleIsGood == Good(NoTx) /\ NoTx.held = {} /\ NoTx.todo = {}
BY DEF Good, NoTx, Scored, Untouched, Counted

\* What a transaction carries stays right while the cells of the users it holds stay.
LEMMA KeepsGood ==
    ASSUME NEW w \in Workers, Good(tx[w]), tx'[w] = tx[w],
           \A u \in Users : u \in tx[w].held => results'[u] = results[u] /\ Registered(u)'
    PROVE  Good(tx[w])'
<1>1. Counted(tx[w])' /\ DOMAIN tx'[w] = DOMAIN NoTx
  BY DEF Good, Counted
<1>2. ASSUME NEW u \in Users
      PROVE  (IF u \in tx[w].held THEN Added(tx[w], u) ELSE Untouched(tx[w], u))'
  <2>1. CASE u \in tx[w].held
    BY <2>1 DEF Good, Scored, Added, SeenRow
  <2>2. CASE u \notin tx[w].held
    BY <2>2 DEF Good, Scored, Untouched
  <2> QED
    BY <2>1, <2>2
<1> QED
  BY <1>1, <1>2 DEF Good, Scored

\* A step that moves transaction w to t and leaves the tables alone.
LEMMA MoveKeepsScores ==
    ASSUME ScoreInv, NEW w \in Workers, NEW t, Good(t), Apart(w, t),
           tx' = [tx EXCEPT ![w] = t], UNCHANGED <<reg, results>>
    PROVE  ScoreInv'
<1>1. /\ DOMAIN tx' = Workers /\ tx'[w] = t
      /\ \A x \in Workers \ {w} : tx'[x] = tx[x]
  BY DEF ScoreInv, Tables
<1>2. Tables' /\ ScoreIsSum'
  BY <1>1 DEF ScoreInv, Tables, ScoreIsSum, Registered
<1>3. Good(tx[w])'
  BY <1>1 DEF Good, Scored, Added, Untouched, SeenRow, Counted, Registered
<1>4. ASSUME NEW x \in Workers \ {w}
      PROVE  Good(tx[x])'
  <2>1. Good(tx[x]) /\ tx'[x] = tx[x]
    BY <1>1 DEF ScoreInv
  <2>2. \A u \in Users : u \in tx[x].held => Registered(u)
    BY <2>1 DEF Good, Scored, Added
  <2> QED
    BY <2>1, <2>2, KeepsGood DEF Registered
<1>5. ASSUME NEW x \in Workers
      PROVE  Apart(x, tx[x])'
  <2> SUFFICES ASSUME NEW y \in Workers \ {x}, NEW u \in Users, u \in tx'[x].held, u \in tx'[y].held
               PROVE  FALSE
    BY DEF Apart
  <2>1. CASE x = w
    BY <1>1, <2>1 DEF Apart
  <2>2. CASE y = w
    BY <1>1, <2>2 DEF Apart
  <2>3. CASE x # w /\ y # w
    BY <1>1, <2>3 DEF ScoreInv, Apart
  <2> QED
    BY <2>1, <2>2, <2>3
<1> QED
  BY <1>2, <1>3, <1>4, <1>5 DEF ScoreInv

\* The commit writes the sum of every user it holds together with the cells of that
\* user, and nothing of anybody else.
LEMMA CommitKeepsScores ==
    ASSUME ScoreInv, NEW w \in Workers, NEW t, Good(t), Apart(w, t),
           tx' = [tx EXCEPT ![w] = NoTx], Commit(t)
    PROVE  ScoreInv'
<1>1. /\ DOMAIN tx' = Workers /\ tx'[w] = NoTx
      /\ \A x \in Workers \ {w} : tx'[x] = tx[x]
  BY DEF ScoreInv, Tables
<1>2. /\ DOMAIN reg' = DOMAIN reg
      /\ results' = [u \in Users |-> SeenRow(t, u)]
      /\ \A u \in Users : results'[u] = SeenRow(t, u)
      /\ \A u \in DOMAIN reg : reg'[u] = IF u \in DOMAIN t.score THEN t.score[u] ELSE reg[u]
  BY DEF Commit
<1>3. ASSUME NEW u \in Users, u \notin t.held
      PROVE  results'[u] = results[u] /\ (Registered(u) => reg'[u] = reg[u])
  <2>1. Untouched(t, u)
    BY <1>3 DEF Good, Scored
  <2>2. SeenRow(t, u) = [p \in Problems |-> results[u][p]]
    BY <2>1 DEF SeenRow, Untouched
  <2>3. results[u] = [p \in Problems |-> results[u][p]]
    BY DEF ScoreInv, Tables
  <2> QED
    BY <1>2, <2>1, <2>2, <2>3 DEF Untouched, Registered
<1>4. ASSUME NEW u \in Users, u \in t.held
      PROVE  Registered(u) /\ reg'[u] = ScoreOf(results'[u])
  <2>1. Added(t, u)
    BY <1>4 DEF Good, Scored
  <2> QED
    BY <1>2, <2>1 DEF Added, Registered
<1>5. ScoreIsSum'
  <2> SUFFICES ASSUME NEW u \in Users, Registered(u)'
               PROVE  reg'[u] = ScoreOf(results'[u])
    BY DEF ScoreIsSum
  <2>1. Registered(u)
    BY <1>2 DEF Registered
  <2> QED
    BY <1>3, <1>4, <2>1 DEF ScoreInv, ScoreIsSum
<1>6. Tables'
  <2>1. results' = [u \in Users |-> [p \in Problems |-> results'[u][p]]]
    BY <1>2 DEF SeenRow
  <2>2. ASSUME NEW u \in Users, ~Registered(u)'
        PROVE  results'[u] = NoCells
    <3>1. ~Registered(u)
      BY <1>2, <2>2 DEF Registered
    <3>2. u \notin t.held
      BY <1>4, <3>1
    <3> QED
      BY <1>3, <3>1, <3>2 DEF ScoreInv, Tables
  <2> QED
    BY <1>1, <2>1, <2>2 DEF Tables, NoCells, NoCell
<1>7. Good(tx[w])'
  BY <1>1 DEF Good, NoTx, Scored, Untouched, Counted
<1>8. ASSUME NEW x \in Workers \ {w}
      PROVE  Good(tx[x])'
  <2>1. Good(tx[x]) /\ tx'[x] = tx[x]
    BY <1>1 DEF ScoreInv
  <2>2. \A u \in Users : u \in tx[x].held => u \notin t.held /\ Registered(u)
    BY <2>1 DEF Apart, Good, Scored, Added
  <2> QED
    BY <1>2, <1>3, <2>1, <2>2, KeepsGood DEF Registered
<1>9. ASSUME NEW x \in Workers
      PROVE  Apart(x, tx[x])'
  <2> SUFFICES ASSUME NEW y \in Workers \ {x}, NEW u \in Users, u \in tx'[x].held, u \in tx'[y].held
               PROVE  FALSE
    BY DEF Apart
  <2>1. x # w /\ y # w
    BY <1>1 DEF NoTx
  <2> QED
    BY <1>1, <2>1 DEF ScoreInv, Apart
<1> QED
  BY <1>5, <1>6, <1>7, <1>8, <1>9 DEF ScoreInv

LEMMA ProceedKeepsScores ==
    ASSUME ScoreInv, NEW w \in Workers, NEW t, Good(t), Apart(w, t), Proceed(w, t)
    PROVE  ScoreInv'
<1>1. CASE t.todo = {}
  BY <1>1, CommitKeepsScores DEF Proceed
<1>2. CASE t.todo # {}
  BY <1>2, MoveKeepsScores DEF Proceed
<1> QED
  BY <1>1, <1>2

-----------------------------------------------------------------------------
(* A transaction at one of its targets.                                    *)

\* The transaction after lockContestProblemProjection and rebuildContestProblemResult.
WithCell(t, u, p, cell) == [t EXCEPT !.cells = UpsertContestProblemResult(t, u, p, cell)]
Rebuilt(t, u, p, cell) ==
    [WithCell(t, u, p, cell) EXCEPT !.pc = "increment", !.held = @ \cup {u},
        !.score = UpdateContestRegistrationScore(WithCell(t, u, p, cell), u)]

\* The columns of a transaction a rebuild reads or writes.
LEMMA RebuiltColumns ==
    ASSUME NEW t, DOMAIN t = DOMAIN NoTx, NEW u, NEW p, NEW cell
    PROVE  /\ DOMAIN Rebuilt(t, u, p, cell) = DOMAIN NoTx
           /\ Rebuilt(t, u, p, cell).cells = UpsertContestProblemResult(t, u, p, cell)
           /\ Rebuilt(t, u, p, cell).score =
                  UpdateContestRegistrationScore(WithCell(t, u, p, cell), u)
           /\ Rebuilt(t, u, p, cell).held = t.held \cup {u}
           /\ Rebuilt(t, u, p, cell).pc = "increment"
           /\ Rebuilt(t, u, p, cell).todo = t.todo
           /\ Rebuilt(t, u, p, cell).bumps = t.bumps
           /\ Rebuilt(t, u, p, cell).writes = t.writes
           /\ Rebuilt(t, u, p, cell).skipped = t.skipped
           /\ WithCell(t, u, p, cell).cells = UpsertContestProblemResult(t, u, p, cell)
           /\ WithCell(t, u, p, cell).score = t.score
<1> DEFINE c == UpsertContestProblemResult(t, u, p, cell)
           v == [t EXCEPT !.cells = c]
           s == UpdateContestRegistrationScore(v, u)
<1> HIDE DEF c
<1>1. /\ DOMAIN v = DOMAIN NoTx /\ v.cells = c /\ v.score = t.score /\ v.held = t.held
      /\ v.todo = t.todo /\ v.bumps = t.bumps /\ v.writes = t.writes /\ v.skipped = t.skipped
  BY DEF NoTx
<1> HIDE DEF v, s
<1>2. LET r == [v EXCEPT !.pc = "increment", !.held = @ \cup {u}, !.score = s]
      IN  /\ DOMAIN r = DOMAIN NoTx /\ r.cells = c /\ r.score = s /\ r.held = v.held \cup {u}
          /\ r.pc = "increment" /\ r.todo = v.todo /\ r.bumps = v.bumps
          /\ r.writes = v.writes /\ r.skipped = v.skipped
  BY <1>1 DEF NoTx
<1> QED
  BY <1>1, <1>2 DEF Rebuilt, WithCell, c, v, s

LEMMA RebuiltIsGood ==
    ASSUME NEW t, Good(t), t.todo # {}, NEW u, Registered(u), NEW p, NEW cell
    PROVE  Good(Rebuilt(t, u, p, cell))
<1> DEFINE v == WithCell(t, u, p, cell)
           r == Rebuilt(t, u, p, cell)
           key == <<u, p>>
<1>1. /\ DOMAIN r = DOMAIN NoTx /\ r.held = t.held \cup {u} /\ r.pc = "increment"
      /\ r.todo = t.todo /\ r.bumps = t.bumps
      /\ r.cells = [x \in DOMAIN t.cells \cup {key} |-> IF x = key THEN cell ELSE t.cells[x]]
      /\ r.score = [x \in DOMAIN t.score \cup {u} |-> IF x = u THEN ScoreOf(SeenRow(v, u)) ELSE t.score[x]]
      /\ v.cells = r.cells
  <2>1. /\ DOMAIN r = DOMAIN NoTx /\ r.held = t.held \cup {u} /\ r.pc = "increment"
        /\ r.todo = t.todo /\ r.bumps = t.bumps
        /\ r.cells = UpsertContestProblemResult(t, u, p, cell) /\ v.cells = r.cells
        /\ r.score = UpdateContestRegistrationScore(v, u) /\ v.score = t.score
    BY RebuiltColumns DEF Good
  <2> HIDE DEF r, v
  <2> QED
    BY <2>1 DEF UpsertContestProblemResult, UpdateContestRegistrationScore
<1>2. Counted(r)
  BY <1>1 DEF Good, Counted
<1> HIDE DEF r, v
<1>3. Added(r, u)
  <2>1. SeenRow(r, u) = SeenRow(v, u)
    BY <1>1 DEF SeenRow
  <2> QED
    BY <1>1, <2>1 DEF Added
<1>4. ASSUME NEW x \in Users, x # u
      PROVE  /\ x \in r.held <=> x \in t.held
             /\ x \in DOMAIN r.score <=> x \in DOMAIN t.score
             /\ x \in DOMAIN t.score => r.score[x] = t.score[x]
             /\ \A q \in Problems : <<x, q>> \in DOMAIN r.cells <=> <<x, q>> \in DOMAIN t.cells
             /\ SeenRow(r, x) = SeenRow(t, x)
  <2>1. \A q \in Problems : <<x, q>> # key
    BY <1>4
  <2>2. \A q \in Problems : /\ <<x, q>> \in DOMAIN r.cells <=> <<x, q>> \in DOMAIN t.cells
                            /\ <<x, q>> \in DOMAIN t.cells => r.cells[<<x, q>>] = t.cells[<<x, q>>]
    <3> HIDE DEF key
    <3> QED
      BY <1>1, <2>1
  <2>3. SeenRow(r, x) = SeenRow(t, x)
    BY <2>2 DEF SeenRow
  <2> QED
    BY <1>1, <1>4, <2>2, <2>3
<1>5. ASSUME NEW x \in Users
      PROVE  IF x \in r.held THEN Added(r, x) ELSE Untouched(r, x)
  <2>1. CASE x = u
    BY <1>1, <1>3, <2>1
  <2>2. CASE x # u /\ x \in t.held
    <3>1. Added(t, x)
      BY <2>2 DEF Good, Scored
    <3> QED
      BY <1>4, <2>2, <3>1 DEF Added
  <2>3. CASE x # u /\ x \notin t.held
    <3>1. Untouched(t, x)
      BY <2>3 DEF Good, Scored
    <3> QED
      BY <1>4, <2>3, <3>1 DEF Untouched
  <2> QED
    BY <2>1, <2>2, <2>3
<1>6. Good(r)
  BY <1>1, <1>2, <1>5 DEF Good, Scored
<1> QED
  BY <1>6 DEF r

\* The transaction after a target it skips.
Skipped(t) == [t EXCEPT !.todo = @ \ {Target(t)}, !.skipped = @ \cup {Target(t)}]

LEMMA SkippedIsGood ==
    ASSUME NEW t, Good(t), t.pc = "lock"
    PROVE  Good(Skipped(t)) /\ Skipped(t).held = t.held
<1> DEFINE r == Skipped(t)
<1>1. /\ DOMAIN r = DOMAIN NoTx /\ r.held = t.held /\ r.cells = t.cells /\ r.score = t.score
      /\ r.bumps = t.bumps
  BY DEF Good, Skipped, NoTx
<1> HIDE DEF r
<1>2. Counted(r)
  BY <1>1 DEF Good, Counted
<1>3. Scored(r)
  BY <1>1 DEF Good, Scored, Added, Untouched, SeenRow
<1> QED
  BY <1>1, <1>2, <1>3 DEF Good, r

\* What a visit does, read off its two outcomes.
LEMMA VisitEffect ==
    ASSUME NEW w \in Workers, NEW t, Visit(w, t)
    PROVE  \/ Proceed(w, Skipped(t))
           \/ \E u, p, cell : /\ Registered(u) /\ \A x \in Workers \ {w} : u \notin tx[x].held
                              /\ u = subs[Target(t)].user /\ p = subs[Target(t)].problem
                              /\ cell = buildContestProblemProjection(contest.start,
                                    ListContestProblemSubmissionsForProjection(SeenSubs(t), u, p))
                              /\ cell.penalty >= 0
                              /\ Proceed(w, Rebuilt(t, u, p, cell))
<1>1. CASE SkipProjection(w, t)
  BY <1>1 DEF SkipProjection, Skipped
<1>2. CASE rebuildContestProblemResult(w, t)
  <2> DEFINE u == subs[Target(t)].user
             p == subs[Target(t)].problem
             cell == buildContestProblemProjection(contest.start,
                         ListContestProblemSubmissionsForProjection(updatedSubs(t), u, p))
  <2>1. /\ lockContestProblemProjection(w, subs[Target(t)])
        /\ cell.penalty >= 0
        /\ Proceed(w, Rebuilt(t, u, p, cell))
    BY <1>2 DEF rebuildContestProblemResult, Rebuilt, WithCell
  <2>2. Registered(u) /\ \A x \in Workers \ {w} : u \notin tx[x].held
    BY <2>1 DEF lockContestProblemProjection, LockContestRegistration, Projected
  <2>3. /\ u = subs[Target(t)].user /\ p = subs[Target(t)].problem
        /\ cell = buildContestProblemProjection(contest.start,
              ListContestProblemSubmissionsForProjection(SeenSubs(t), u, p))
    OBVIOUS
  <2> HIDE DEF u, p, cell
  <2> QED
    BY <2>1, <2>2, <2>3
<1> QED
  BY <1>1, <1>2 DEF Visit

\* Every step of an open transaction leaves it in a good state that holds nothing
\* another one holds.
Proceeds(w) == \E t : Good(t) /\ Apart(w, t) /\ Proceed(w, t)

\* Under the lock on the registration a transaction rebuilds a cell of a user that
\* nobody else holds.
LEMMA VisitProceeds ==
    ASSUME NEW w \in Workers, NEW t, Good(t), Apart(w, t), t.pc = "lock", t.todo # {}, Visit(w, t)
    PROVE  Proceeds(w)
<1>1. CASE Proceed(w, Skipped(t))
  <2>1. Good(Skipped(t)) /\ Apart(w, Skipped(t))
    BY SkippedIsGood DEF Apart
  <2> QED
    BY <1>1, <2>1 DEF Proceeds
<1>2. ASSUME NEW u, NEW p, NEW cell, Registered(u), \A x \in Workers \ {w} : u \notin tx[x].held,
             Proceed(w, Rebuilt(t, u, p, cell))
      PROVE  Proceeds(w)
  <2>1. Good(Rebuilt(t, u, p, cell))
    BY <1>2, RebuiltIsGood
  <2>2. Rebuilt(t, u, p, cell).held = t.held \cup {u}
    BY RebuiltColumns DEF Good
  <2>3. Apart(w, Rebuilt(t, u, p, cell))
    BY <1>2, <2>2 DEF Apart
  <2> QED
    BY <1>2, <2>1, <2>3 DEF Proceeds
<1> QED
  BY <1>1, <1>2, VisitEffect

\* A transaction opens with its submission rows, holding no registration.
Opened(writes, onBatch) == [NoTx EXCEPT !.todo = DOMAIN writes, !.writes = writes, !.batch = onBatch]

LEMMA OpenedIsGood ==
    ASSUME NEW writes, NEW onBatch, NEW w \in Workers
    PROVE  /\ Good(Opened(writes, onBatch)) /\ Apart(w, Opened(writes, onBatch))
           /\ Opened(writes, onBatch).todo = DOMAIN writes
           /\ Opened(writes, onBatch).writes = writes
           /\ Opened(writes, onBatch).cells = <<>>
           /\ Opened(writes, onBatch).skipped = {}
           /\ Opened(writes, onBatch).pc = "lock"
<1> DEFINE S == DOMAIN writes
           t == [NoTx EXCEPT !.todo = S, !.writes = writes, !.batch = onBatch]
<1> HIDE DEF S
<1>1. /\ DOMAIN t = DOMAIN NoTx /\ t.todo = S /\ t.held = {} /\ t.cells = <<>>
      /\ t.score = <<>> /\ t.bumps = 0 /\ t.pc = "lock" /\ t.writes = writes /\ t.skipped = {}
  BY DEF NoTx
<1>2. Opened(writes, onBatch) = t
  BY DEF Opened, S
<1> HIDE DEF t
<1>3. Good(t) /\ Apart(w, t)
  BY <1>1 DEF Good, Scored, Untouched, Counted, Apart
<1> QED
  BY <1>1, <1>2, <1>3 DEF S

LEMMA BeginProceeds ==
    ASSUME NEW w \in Workers, NEW writes, DOMAIN writes # {}, NEW onBatch,
           Begin(w, writes, onBatch)
    PROVE  Proceeds(w)
<1>1. Visit(w, Opened(writes, onBatch))
  BY DEF Begin, Opened
<1> QED
  BY <1>1, OpenedIsGood, VisitProceeds

LEMMA NextTargetProceeds ==
    ASSUME ScoreInv, NEW w \in Workers, NextTarget(w)
    PROVE  Proceeds(w)
BY VisitProceeds DEF ScoreInv, NextTarget

\* The increment leaves the cells and the sums of the transaction alone.
Incremented(t) == [t EXCEPT !.pc = "lock", !.row = TRUE, !.bumps = @ + 1, !.todo = @ \ {Target(t)}]

LEMMA IncrementedIsGood ==
    ASSUME NEW t, Good(t), NEW w \in Workers, Apart(w, t)
    PROVE  /\ Good(Incremented(t)) /\ Apart(w, Incremented(t))
           /\ Incremented(t).todo = t.todo \ {Target(t)}
           /\ Incremented(t).writes = t.writes
           /\ Incremented(t).cells = t.cells
           /\ Incremented(t).skipped = t.skipped
           /\ Incremented(t).pc = "lock"
<1> DEFINE T == Target(t)
           r == [t EXCEPT !.pc = "lock", !.row = TRUE, !.bumps = @ + 1, !.todo = @ \ {T}]
<1> HIDE DEF T
<1>1. /\ DOMAIN r = DOMAIN NoTx /\ r.held = t.held /\ r.cells = t.cells /\ r.score = t.score
      /\ r.bumps = t.bumps + 1 /\ r.writes = t.writes /\ r.skipped = t.skipped
      /\ r.todo = t.todo \ {T} /\ r.pc = "lock"
  BY DEF Good, NoTx
<1>2. Incremented(t) = r
  BY DEF Incremented, T
<1> HIDE DEF r
<1>3. Counted(r)
  BY <1>1 DEF Good, Counted
<1>4. Scored(r)
  BY <1>1 DEF Good, Scored, Added, Untouched, SeenRow
<1>5. Good(r) /\ Apart(w, r)
  BY <1>1, <1>3, <1>4 DEF Good, Apart
<1> QED
  BY <1>1, <1>2, <1>5 DEF T

LEMMA IncrementProceeds ==
    ASSUME ScoreInv, NEW w \in Workers, IncrementContestScoreRevision(w)
    PROVE  Proceeds(w)
<1>1. Good(tx[w]) /\ Apart(w, tx[w]) /\ Proceed(w, Incremented(tx[w]))
  BY DEF ScoreInv, IncrementContestScoreRevision, Incremented
<1> QED
  BY <1>1, IncrementedIsGood DEF Proceeds

LEMMA TransactionProceeds ==
    ASSUME ScoreInv, NEW w \in Workers, Transaction(w)
    PROVE  Proceeds(w) \/ Rollback(w)
<1>1. ASSUME NEW s \in DOMAIN subs, NEW v \in Verdicts, NEW judged \in 0 .. MaxNow,
             completeSubmissionAttempt(w, s, v, judged)
      PROVE  Proceeds(w)
  BY <1>1, BeginProceeds DEF completeSubmissionAttempt
<1>2. ASSUME NEW s \in DOMAIN subs, markSubmissionSystemError(w, s)
      PROVE  Proceeds(w)
  BY <1>2, BeginProceeds DEF markSubmissionSystemError
<1>3. ASSUME NEW s \in DOMAIN subs, RecoverDeadJudgeTask(w, s)
      PROVE  Proceeds(w)
  BY <1>3, BeginProceeds DEF RecoverDeadJudgeTask
<1>4. CASE HandleCreateRejudgeBatch(w)
  BY <1>4, BeginProceeds DEF HandleCreateRejudgeBatch, CreateBatch, CreateRejudgeBatch
<1>5. CASE HandleCancelRejudgeBatch(w)
  BY <1>5, BeginProceeds DEF HandleCancelRejudgeBatch, CancelBatch, CancelRejudgeBatch
<1> QED
  BY <1>1, <1>2, <1>3, <1>4, <1>5, IncrementProceeds, NextTargetProceeds DEF Transaction

-----------------------------------------------------------------------------
(* The scores through every step.                                          *)

LEMMA RollbackKeepsScores ==
    ASSUME ScoreInv, NEW w \in Workers, Rollback(w)
    PROVE  ScoreInv'
<1>1. Apart(w, NoTx)
  BY IdleIsGood DEF Apart
<1> QED
  BY <1>1, IdleIsGood, MoveKeepsScores DEF Rollback

\* A new registration starts from no cells, because nobody rebuilds a cell of a user
\* who is not registered, and its score is that of no cells.
LEMMA RegisterKeepsScores ==
    ASSUME ScoreInv, NEW u \in Users, NEW code, Register(u, code)
    PROVE  ScoreInv'
<1>1. /\ results' = results /\ tx' = tx /\ ~Registered(u)
      /\ DOMAIN reg' = DOMAIN reg \cup {u}
      /\ reg'[u] = [accepted |-> 0, penalty |-> 0]
      /\ \A v \in DOMAIN reg : reg'[v] = reg[v]
  BY DEF Register, CreateContestRegistration, Registered
<1>2. results[u] = NoCells
  BY <1>1 DEF ScoreInv, Tables
<1>3. ScoreIsSum'
  BY <1>1, <1>2, EmptyScore DEF ScoreInv, ScoreIsSum, Registered
<1>4. Tables'
  BY <1>1 DEF ScoreInv, Tables, Registered
<1>5. ASSUME NEW w \in Workers
      PROVE  Good(tx[w])' /\ Apart(w, tx[w])'
  <2>1. Good(tx[w]) /\ Apart(w, tx[w])
    BY DEF ScoreInv
  <2>2. \A v \in Users : v \in tx[w].held => Registered(v)
    BY <2>1 DEF Good, Scored, Added
  <2>3. Good(tx[w])'
    BY <1>1, <2>1, <2>2, KeepsGood DEF Registered
  <2> QED
    BY <1>1, <2>1, <2>3 DEF Apart
<1> QED
  BY <1>3, <1>4, <1>5 DEF ScoreInv

LEMMA QuietKeepsScores ==
    ASSUME ScoreInv, UNCHANGED <<reg, results, tx>>
    PROVE  ScoreInv'
<1>1. Tables' /\ ScoreIsSum'
  BY DEF ScoreInv, Tables, ScoreIsSum, Registered
<1>2. ASSUME NEW w \in Workers
      PROVE  Good(tx[w])' /\ Apart(w, tx[w])'
  <2>1. Good(tx[w]) /\ Apart(w, tx[w])
    BY DEF ScoreInv
  <2>2. \A v \in Users : v \in tx[w].held => Registered(v)
    BY <2>1 DEF Good, Scored, Added
  <2>3. Good(tx[w])'
    BY <2>1, <2>2, KeepsGood DEF Registered
  <2> QED
    BY <2>1, <2>3 DEF Apart
<1> QED
  BY <1>1, <1>2 DEF ScoreInv

LEMMA ScoreInit == Init => ScoreInv
<1> SUFFICES ASSUME Init PROVE ScoreInv
  OBVIOUS
<1>1. Tables /\ ScoreIsSum
  BY DEF Init, Tables, ScoreIsSum, Registered, NoCells
<1>2. \A w \in Workers : tx[w] = NoTx
  BY DEF Init
<1> QED
  BY <1>1, <1>2, IdleIsGood DEF ScoreInv, Apart

LEMMA TransactionKeepsScores ==
    ASSUME ScoreInv, NEW w \in Workers, Transaction(w)
    PROVE  ScoreInv'
BY TransactionProceeds, ProceedKeepsScores, RollbackKeepsScores DEF Proceeds

LEMMA ScoreStep ==
    ASSUME ScoreInv, [Next]_vars
    PROVE  ScoreInv'
<1>1. ASSUME NEW u \in Users, Authoring(u)
      PROVE  ScoreInv'
  BY <1>1, QuietKeepsScores DEF Authoring, HandleCreateContest, CreateContest, HandleUpdateContest,
     UpdateContest, HandleDeleteContest, DeleteContest, HandleGrantRole, GrantContestRole,
     HandleRevokeRole, RevokeContestRole
<1>2. CASE Contestant
  <2>1. ASSUME NEW u \in Registrants, HandleRegister(u)
        PROVE  ScoreInv'
    BY <2>1, RegisterKeepsScores, ContestAssumption DEF HandleRegister
  <2>2. ASSUME NEW in \in SubmitInputs, ValidateSubmission(in[1], in[2]) \/ CreateSubmission(in[1], in[2])
        PROVE  ScoreInv'
    BY <2>2, QuietKeepsScores DEF ValidateSubmission, CreateSubmission
  <2> QED
    BY <1>2, <2>1, <2>2 DEF Contestant, HandleCreateSubmission
<1>3. ASSUME NEW w \in Workers, Transaction(w)
      PROVE  ScoreInv'
  BY <1>3, TransactionKeepsScores
<1>4. ASSUME NEW g \in Generators, Generator(g)
      PROVE  ScoreInv'
  BY <1>4, QuietKeepsScores DEF Generator, GenerateDueScoreSnapshots, ReadRows, ReadSubmissions,
     ReadResults, CreateScoreSnapshot, GenTo
<1>5. CASE Tick \/ UNCHANGED vars
  BY <1>5, QuietKeepsScores DEF Tick, vars
<1> QED
  BY <1>1, <1>2, <1>3, <1>4, <1>5 DEF Next

\* The two score columns of a registration are always the number of its accepted cells
\* and the sum of their penalties, whatever verdicts, failures, recoveries, rejudges and
\* cancellations of the same user run side by side: UpdateContestRegistrationScore reads
\* the cells under the registration's lock, which lasts to the commit.
THEOREM ScoresAddUp == Spec => []ScoreIsSum
<1>1. ScoreInv => ScoreIsSum
  BY DEF ScoreInv
<1> QED
  BY <1>1, ScoreInit, ScoreStep, PTL DEF Spec

-----------------------------------------------------------------------------
(* Final snapshots.                                                        *)

Exact(board) ==
    \A u \in DOMAIN board : \A p \in DOMAIN board[u].cells :
        board[u].cells[p] = applyResultToCell(results[u][p])

\* A generator carries a revision the contest has had.  A final board is read from the
\* results, and is what the results say as long as the revision stands.
Reading(r) ==
    /\ DOMAIN r = DOMAIN NoGen
    /\ r.todo # <<>> =>
          /\ r.contest.revision \in Nat /\ r.contest.revision <= contest.revision
          /\ r.pc = "submissions" => Head(r.todo) = "frozen"
          /\ r.pc = "create" /\ Head(r.todo) = "final" /\ r.contest.revision = contest.revision =>
                Exact(r.board)

\* Nothing is generated before the contest exists.
Row ==
    /\ {"status", "revision"} \subseteq DOMAIN contest /\ contest.revision \in Nat
    /\ ~Created => snapshots = <<>> /\ \A g \in Generators : gen[g] = NoGen

Stored ==
    /\ \E S : snapshots \in Seq(S)
    /\ \A i \in DOMAIN snapshots :
          snapshots[i].revision \in Nat /\ snapshots[i].revision <= contest.revision

Readings == DOMAIN gen = Generators /\ \A g \in Generators : Reading(gen[g])

FinalInv == Row /\ Stored /\ Readings /\ FinalSnapshotExact

LEMMA IdleIsReading == Reading(NoGen)
BY DEF Reading, NoGen

\* A final board built from the results shows them.
LEMMA FinalBoardIsExact ==
    ASSUME NEW freeze, NEW rows
    PROVE  Exact(buildBoardFromResults("final", freeze, rows, results))
BY DEF Exact, buildBoardFromResults, BoardOf

\* The results change only together with the revision.
LEMMA CommitCounts ==
    ASSUME ScoreInv, Row, NEW t, Good(t), t.todo = {}, Commit(t)
    PROVE  /\ contest'.revision \in Nat /\ contest'.revision >= contest.revision
           /\ contest'.revision = contest.revision => results' = results
           /\ contest'.status = contest.status /\ DOMAIN contest' = DOMAIN contest
<1>1. /\ contest'.revision = contest.revision + t.bumps
      /\ contest'.status = contest.status /\ DOMAIN contest' = DOMAIN contest
  BY DEF Row, Commit
<1>2. t.bumps \in Nat /\ (DOMAIN t.cells # {} => t.bumps > 0)
  BY DEF Good, Counted
<1>3. ASSUME DOMAIN t.cells = {}
      PROVE  results' = results
  <2>1. \A u \in Users : SeenRow(t, u) = [p \in Problems |-> results[u][p]]
    BY <1>3 DEF SeenRow
  <2>2. results' = [u \in Users |-> [p \in Problems |-> results[u][p]]]
    BY <2>1 DEF Commit
  <2> QED
    BY <2>2 DEF ScoreInv, Tables
<1> QED
  BY <1>1, <1>2, <1>3 DEF Row

\* A step on the contest and the results that counts what it changes.
LEMMA CountedKeepsFinal ==
    ASSUME FinalInv, UNCHANGED <<gen, snapshots>>,
           {"status", "revision"} \subseteq DOMAIN contest', contest'.revision \in Nat,
           Created => /\ contest'.revision >= contest.revision
                      /\ contest'.revision = contest.revision => results' = results
                      /\ Created'
    PROVE  FinalInv'
<1>1. CASE ~Created
  <2>1. snapshots' = <<>> /\ \A g \in Generators : gen'[g] = NoGen
    BY <1>1 DEF FinalInv, Row
  <2>2. Stored' /\ FinalSnapshotExact'
    <3>1. snapshots' \in Seq({}) /\ DOMAIN snapshots' = {}
      BY <2>1
    <3> QED
      BY <3>1 DEF Stored, FinalSnapshotExact, Snapshots
  <2>3. Readings'
    BY <2>1 DEF FinalInv, Readings, Reading, NoGen
  <2> QED
    BY <2>1, <2>2, <2>3 DEF FinalInv, Row
<1>2. CASE Created
  <2>1. Row' /\ Stored'
    BY <1>2 DEF FinalInv, Row, Stored
  <2>2. ASSUME NEW g \in Generators
        PROVE  Reading(gen[g])'
    <3>1. Reading(gen[g])
      BY DEF FinalInv, Readings
    <3>2. contest.revision \in Nat
      BY DEF FinalInv, Row
    <3> QED
      BY <1>2, <3>1, <3>2 DEF Reading, Exact
  <2>3. FinalSnapshotExact'
    <3> SUFFICES ASSUME NEW i \in Snapshots("final"), snapshots[i].revision = contest'.revision
                 PROVE  Exact(snapshots[i].board)'
      BY DEF FinalSnapshotExact, Snapshots, Exact
    <3>1. snapshots[i].revision \in Nat /\ snapshots[i].revision <= contest.revision
      BY DEF FinalInv, Stored, Snapshots
    <3>2. contest'.revision = contest.revision /\ results' = results
      BY <1>2, <3>1 DEF FinalInv, Row
    <3> QED
      BY <3>2 DEF FinalInv, FinalSnapshotExact, Exact
  <2> QED
    BY <2>1, <2>2, <2>3 DEF FinalInv, Readings
<1> QED
  BY <1>1, <1>2

LEMMA AuthoringKeepsFinal ==
    ASSUME FinalInv, NEW u \in Users, Authoring(u)
    PROVE  FinalInv'
<1>1. UNCHANGED <<results, gen, snapshots>>
  BY DEF Authoring, HandleCreateContest, CreateContest, HandleUpdateContest, UpdateContest,
     HandleDeleteContest, DeleteContest, HandleGrantRole, GrantContestRole, HandleRevokeRole,
     RevokeContestRole
<1>2. CASE HandleCreateContest(u)
  <2>1. ~Created /\ contest'.revision = 0 /\ {"status", "revision"} \subseteq DOMAIN contest'
    BY <1>2 DEF HandleCreateContest, CreateContest, InsertContest, Columns
  <2> QED
    BY <1>1, <2>1, CountedKeepsFinal
<1>3. CASE HandleUpdateContest(u)
  <2>1. PICK in \in UpdateInputs : UpdateContest(u, in)
    BY <1>3 DEF HandleUpdateContest
  <2>2. "revision" \notin DOMAIN in
    BY ContestAssumption DEF Columns
  <2>3. DOMAIN contest' = DOMAIN contest /\ contest'.revision = contest.revision
    BY <2>1, <2>2 DEF UpdateContest, UpdatedContest, FinalInv, Row
  <2>4. contest'.status \in Statuses
    BY <2>1 DEF UpdateContest, validateContestInput
  <2> QED
    BY <1>1, <2>3, <2>4, CountedKeepsFinal, ContestAssumption DEF Created, FinalInv, Row
<1>4. CASE HandleDeleteContest(u)
  <2>1. /\ DOMAIN contest' = DOMAIN contest /\ contest'.revision = contest.revision
        /\ contest'.status = "archived"
    BY <1>4 DEF HandleDeleteContest, DeleteContest, ArchivedContest, FinalInv, Row
  <2> QED
    BY <1>1, <2>1, CountedKeepsFinal, ContestAssumption DEF Created, FinalInv, Row, Statuses
<1>5. CASE HandleGrantRole(u) \/ HandleRevokeRole(u)
  <2>1. contest' = contest
    BY <1>5 DEF HandleGrantRole, GrantContestRole, HandleRevokeRole, RevokeContestRole
  <2> QED
    BY <1>1, <2>1, CountedKeepsFinal DEF Created, FinalInv, Row
<1> QED
  BY <1>2, <1>3, <1>4, <1>5 DEF Authoring

LEMMA QuietKeepsFinal ==
    ASSUME FinalInv, UNCHANGED <<contest, results, gen, snapshots>>
    PROVE  FinalInv'
BY CountedKeepsFinal DEF Created, FinalInv, Row

LEMMA TransactionKeepsFinal ==
    ASSUME ScoreInv, FinalInv, NEW w \in Workers, Transaction(w)
    PROVE  FinalInv'
<1>1. CASE Rollback(w)
  BY <1>1, QuietKeepsFinal DEF Rollback
<1>2. ASSUME NEW t, Good(t), Proceed(w, t)
      PROVE  FinalInv'
  <2>1. CASE t.todo = {}
    <3>1. Commit(t) /\ UNCHANGED <<gen, snapshots>>
      BY <1>2, <2>1 DEF Proceed
    <3> QED
      BY <1>2, <2>1, <3>1, CommitCounts, CountedKeepsFinal DEF FinalInv, Created, Row
  <2>2. CASE t.todo # {}
    BY <1>2, <2>2, QuietKeepsFinal DEF Proceed
  <2> QED
    BY <2>1, <2>2
<1> QED
  BY <1>1, <1>2, TransactionProceeds DEF Proceeds

\* A generator's step that leaves the snapshots alone, in a contest that exists.
LEMMA ReadKeepsFinal ==
    ASSUME FinalInv, Created, NEW g \in Generators, NEW r, Reading(r), GenTo(g, r),
           UNCHANGED snapshots
    PROVE  FinalInv'
<1>1. /\ DOMAIN gen' = Generators /\ gen'[g] = r
      /\ \A x \in Generators \ {g} : gen'[x] = gen[x]
      /\ UNCHANGED <<contest, results>>
  BY DEF FinalInv, Readings, GenTo
<1>2. \A x \in Generators : Reading(gen[x])'
  <2>1. \A x \in Generators \ {g} : Reading(gen[x])
    BY DEF FinalInv, Readings
  <2> QED
    BY <1>1, <2>1 DEF Reading, Exact
<1>3. Row' /\ Stored' /\ FinalSnapshotExact'
  BY <1>1 DEF FinalInv, Row, Stored, FinalSnapshotExact, Snapshots, Created
<1> QED
  BY <1>1, <1>2, <1>3 DEF FinalInv, Readings

\* What an active generator knows.
LEMMA ActiveGenerator ==
    ASSUME FinalInv, NEW g \in Generators, NEW pc, AtGen(g, pc)
    PROVE  /\ Created /\ gen[g].todo # <<>> /\ gen[g].pc = pc
           /\ DOMAIN gen[g] = DOMAIN NoGen /\ Reading(gen[g])
<1>1. gen[g].todo # <<>> /\ gen[g].pc = pc
  BY DEF AtGen
<1>2. Created
  BY <1>1 DEF FinalInv, Row, NoGen
<1>3. Reading(gen[g])
  BY DEF FinalInv, Readings
<1> QED
  BY <1>1, <1>2, <1>3 DEF Reading

LEMMA ListingKeepsFinal ==
    ASSUME FinalInv, NEW g \in Generators, GenerateDueScoreSnapshots(g)
    PROVE  FinalInv'
<1> DEFINE todo == ListContestScoreSnapshotCandidates
           c == [revision |-> contest.revision, start |-> contest.start, freeze |-> contest.freeze]
           r == [NoGen EXCEPT !.todo = todo, !.contest = c]
<1>1. todo # <<>> /\ GenTo(g, r) /\ UNCHANGED snapshots
  BY DEF GenerateDueScoreSnapshots
<1>2. Created
  BY <1>1, ContestAssumption DEF ListContestScoreSnapshotCandidates, Created, Statuses
<1>3. c.revision = contest.revision
  OBVIOUS
<1> HIDE DEF todo, c
<1>4. DOMAIN r = DOMAIN NoGen /\ r.pc = "rows" /\ r.contest = c
  BY DEF NoGen
<1> HIDE DEF r
<1>5. Reading(r)
  BY <1>3, <1>4 DEF Reading, FinalInv, Row
<1> QED
  BY <1>1, <1>2, <1>5, ReadKeepsFinal

LEMMA ReadRowsKeepsFinal ==
    ASSUME FinalInv, NEW g \in Generators, ReadRows(g)
    PROVE  FinalInv'
<1> DEFINE x == gen[g]
           pc == IF Head(x.todo) = "frozen" THEN "submissions" ELSE "results"
           rows == [problems |-> ListContestProblems, users |-> {u \in Users : Registered(u)}]
           r == [x EXCEPT !.pc = pc, !.rows = rows]
<1>1. AtGen(g, "rows") /\ GenTo(g, r) /\ UNCHANGED snapshots
  BY DEF ReadRows
<1>2. Created /\ DOMAIN x = DOMAIN NoGen /\ Reading(x)
  BY <1>1, ActiveGenerator
<1> HIDE DEF rows, x, pc
<1>3. DOMAIN r = DOMAIN NoGen /\ r.pc = pc /\ r.contest = x.contest /\ r.todo = x.todo
  BY <1>2 DEF NoGen
<1> HIDE DEF r
<1>4. Reading(r)
  BY <1>2, <1>3 DEF Reading, pc
<1> QED
  BY <1>1, <1>2, <1>4, ReadKeepsFinal

LEMMA ReadSubmissionsKeepsFinal ==
    ASSUME FinalInv, NEW g \in Generators, ReadSubmissions(g)
    PROVE  FinalInv'
<1> DEFINE x == gen[g]
           board == buildBoardFromSubmissions(x.contest.start, x.contest.freeze, x.rows)
           r == [x EXCEPT !.pc = "create", !.rows = None, !.source = "submissions", !.board = board]
           s == [x EXCEPT !.pc = "results"]
<1>1. AtGen(g, "submissions") /\ (GenTo(g, r) \/ GenTo(g, s)) /\ UNCHANGED snapshots
  BY DEF ReadSubmissions
<1>2. Created /\ DOMAIN x = DOMAIN NoGen /\ Reading(x) /\ x.todo # <<>> /\ x.pc = "submissions"
  BY <1>1, ActiveGenerator
<1> HIDE DEF board, x
<1>3. /\ DOMAIN r = DOMAIN NoGen /\ r.contest = x.contest /\ r.todo = x.todo
      /\ DOMAIN s = DOMAIN NoGen /\ s.contest = x.contest /\ s.todo = x.todo
      /\ r.pc = "create" /\ s.pc = "results"
  BY <1>2 DEF NoGen
<1> HIDE DEF r, s
<1>4. Reading(r) /\ Reading(s)
  BY <1>2, <1>3 DEF Reading
<1> QED
  BY <1>1, <1>2, <1>4, ReadKeepsFinal

LEMMA ReadResultsKeepsFinal ==
    ASSUME FinalInv, NEW g \in Generators, ReadResults(g)
    PROVE  FinalInv'
<1> DEFINE x == gen[g]
           board == buildBoardFromResults(Head(x.todo), x.contest.freeze, x.rows, results)
           r == [x EXCEPT !.pc = "create", !.rows = None, !.source = "results", !.board = board]
<1>1. AtGen(g, "results") /\ GenTo(g, r) /\ UNCHANGED snapshots
  BY DEF ReadResults
<1>2. Created /\ DOMAIN x = DOMAIN NoGen /\ Reading(x)
  BY <1>1, ActiveGenerator
<1>3. Head(x.todo) = "final" => Exact(board)
  BY FinalBoardIsExact
<1> HIDE DEF board, x
<1>4. /\ DOMAIN r = DOMAIN NoGen /\ r.contest = x.contest /\ r.todo = x.todo
      /\ r.pc = "create" /\ r.board = board
  BY <1>2 DEF NoGen
<1> HIDE DEF r
<1>5. Reading(r)
  BY <1>2, <1>3, <1>4 DEF Reading
<1> QED
  BY <1>1, <1>2, <1>5, ReadKeepsFinal

\* The insert takes over the revision and the board of its generator, or nothing.
LEMMA CreateKeepsFinal ==
    ASSUME FinalInv, NEW g \in Generators, CreateScoreSnapshot(g)
    PROVE  FinalInv'
<1> DEFINE x == gen[g]
           kind == Head(x.todo)
           rest == Tail(x.todo)
           snap == [kind |-> kind, revision |-> x.contest.revision, board |-> x.board,
                    freeze |-> x.contest.freeze, source |-> x.source]
           s == [NoGen EXCEPT !.todo = rest, !.contest = x.contest]
           r == IF rest = <<>> THEN NoGen ELSE s
<1>1. /\ AtGen(g, "create") /\ GenTo(g, r)
      /\ snapshots' = snapshots \/ snapshots' = Append(snapshots, snap)
  BY DEF CreateScoreSnapshot, CreateContestScoreSnapshot, sourceRevision
<1>2. Created /\ Reading(x) /\ x.todo # <<>> /\ x.pc = "create"
  BY <1>1, ActiveGenerator
<1>3. snap.kind = Head(x.todo) /\ snap.revision = x.contest.revision /\ snap.board = x.board
  OBVIOUS
<1> HIDE DEF x, rest, snap
<1>4. DOMAIN s = DOMAIN NoGen /\ s.pc = "rows" /\ s.contest = x.contest
  BY DEF NoGen
<1> HIDE DEF s
<1>5. Reading(r)
  BY <1>2, <1>4, IdleIsReading DEF Reading
<1> HIDE DEF r
<1>6. /\ DOMAIN gen' = Generators /\ gen'[g] = r
      /\ \A y \in Generators \ {g} : gen'[y] = gen[y]
      /\ UNCHANGED <<contest, results>>
  BY <1>1 DEF FinalInv, Readings, GenTo
<1>7. Readings'
  <2>1. \A y \in Generators \ {g} : Reading(gen[y])
    BY DEF FinalInv, Readings
  <2> QED
    BY <1>5, <1>6, <2>1 DEF Readings, Reading, Exact
<1>8. /\ \E S : snapshots' \in Seq(S)
      /\ \A i \in DOMAIN snapshots' : snapshots'[i] = snap \/ (i \in DOMAIN snapshots /\ snapshots'[i] = snapshots[i])
  <2>1. PICK S : snapshots \in Seq(S)
    BY DEF FinalInv, Stored
  <2>2. CASE snapshots' = snapshots
    BY <2>1, <2>2
  <2>3. CASE snapshots' = Append(snapshots, snap)
    <3>1. snapshots' \in Seq(S \cup {snap})
      BY <2>1, <2>3
    <3> QED
      BY <2>1, <2>3, <3>1
  <2> QED
    BY <1>1, <2>2, <2>3
<1>9. Stored'
  BY <1>2, <1>3, <1>6, <1>8 DEF FinalInv, Stored, Reading
<1>10. FinalSnapshotExact'
  <2> SUFFICES ASSUME NEW i \in DOMAIN snapshots', snapshots'[i].kind = "final",
                      snapshots'[i].revision = contest.revision
               PROVE  Exact(snapshots'[i].board)
    BY <1>6 DEF FinalSnapshotExact, Snapshots, Exact
  <2>1. CASE snapshots'[i] = snap
    BY <1>2, <1>3, <2>1 DEF Reading
  <2>2. CASE i \in DOMAIN snapshots /\ snapshots'[i] = snapshots[i]
    BY <2>2 DEF FinalInv, FinalSnapshotExact, Snapshots, Exact
  <2> QED
    BY <1>8, <2>1, <2>2
<1> QED
  BY <1>2, <1>6, <1>7, <1>9, <1>10 DEF FinalInv, Row, Created

LEMMA FinalInit == Init => FinalInv
<1> SUFFICES ASSUME Init PROVE FinalInv
  OBVIOUS
<1>1. snapshots = <<>> /\ DOMAIN snapshots = {} /\ snapshots \in Seq({})
  BY DEF Init
<1>2. DOMAIN gen = Generators /\ \A g \in Generators : gen[g] = NoGen
  BY DEF Init
<1>3. Row
  BY <1>1, <1>2 DEF Init, Row
<1> QED
  BY <1>1, <1>2, <1>3, IdleIsReading DEF FinalInv, Stored, Readings, FinalSnapshotExact, Snapshots

LEMMA FinalStep ==
    ASSUME ScoreInv, FinalInv, [Next]_vars
    PROVE  FinalInv'
<1>1. CASE Contestant
  BY <1>1, QuietKeepsFinal DEF Contestant, HandleRegister, Register, ValidateSubmission,
     HandleCreateSubmission, CreateSubmission
<1>2. CASE Tick \/ UNCHANGED vars
  BY <1>2, QuietKeepsFinal DEF Tick, vars
<1>3. ASSUME NEW g \in Generators, Generator(g)
      PROVE  FinalInv'
  BY <1>3, ListingKeepsFinal, ReadRowsKeepsFinal, ReadSubmissionsKeepsFinal, ReadResultsKeepsFinal,
     CreateKeepsFinal DEF Generator
<1> QED
  BY <1>1, <1>2, <1>3, AuthoringKeepsFinal, TransactionKeepsFinal DEF Next

\* A final snapshot that carries the contest's present revision shows the present
\* results, although the generator reads the contest, the rows and the results at
\* different times and any number of verdicts and rejudges may commit in between: a
\* transaction that writes a cell increments the revision before it commits, and the
\* snapshot carries the revision of the listing, read before the results.
THEOREM FinalSnapshotsExact == Spec => []FinalSnapshotExact
<1>1. ScoreInv /\ FinalInv => FinalSnapshotExact
  BY DEF FinalInv
<1> QED
  BY <1>1, ScoreInit, ScoreStep, FinalInit, FinalStep, PTL DEF Spec

-----------------------------------------------------------------------------
(* Cells.                                                                  *)

\* Whether the cell of u and p has a submission among S.
Touches(S, u, p) == \E s \in S : <<subs[s].user, subs[s].problem>> = <<u, p>>

Projection(all, u, p) ==
    buildContestProblemProjection(contest.start, ListContestProblemSubmissionsForProjection(all, u, p))

SubmissionColumns == {"user", "problem", "at", "status", "judged", "first", "row"}

\* A transaction writes submissions that are there and keeps whose they are.
Refers(t) ==
    /\ t.todo \subseteq DOMAIN t.writes /\ t.skipped \subseteq DOMAIN t.writes
    /\ DOMAIN t.writes \subseteq DOMAIN subs
    /\ \A s \in DOMAIN t.writes : /\ DOMAIN t.writes[s] = SubmissionColumns
                                  /\ t.writes[s].user = subs[s].user
                                  /\ t.writes[s].problem = subs[s].problem

\* A submission it writes is still to be visited, was skipped, or has its cell rebuilt.
CellOf(s) == <<subs[s].user, subs[s].problem>>
Visited(t) ==
    /\ \A s \in DOMAIN t.writes : s \in t.todo \/ s \in t.skipped \/ CellOf(s) \in DOMAIN t.cells
    /\ t.pc = "increment" => Target(t) \in t.todo /\ CellOf(Target(t)) \in DOMAIN t.cells

\* What it rebuilt is what the submissions, its own writes included, give.
Current(t) ==
    \A u \in Users, p \in Problems :
        <<u, p>> \in DOMAIN t.cells /\ ~Touches(unprojected \cup t.skipped, u, p) =>
            t.cells[<<u, p>>] = Projection(SeenSubs(t), u, p)

Faithful(t) == Refers(t) /\ Visited(t) /\ Current(t)

\* There is no submission before the contest, and none that is not in the sequence.
Submitted ==
    /\ \E S : subs \in Seq(S)
    /\ \A s \in DOMAIN subs : DOMAIN subs[s] = SubmissionColumns
    /\ unprojected \subseteq DOMAIN subs /\ batch \subseteq DOMAIN subs
    /\ IF Created THEN "start" \in DOMAIN contest ELSE subs = <<>> /\ admitted = {}

CellInv == Submitted /\ CellsAreRebuilt /\ \A w \in Workers : Faithful(tx[w])

LEMMA SameRows ==
    ASSUME NEW a, NEW b, NEW u, NEW p, DOMAIN a \subseteq DOMAIN b,
           \A s \in DOMAIN b :
              (b[s].user = u /\ b[s].problem = p /\ b[s].status \in Terminal) =>
                 s \in DOMAIN a /\ a[s] = b[s],
           \A s \in DOMAIN a :
              (a[s].user = u /\ a[s].problem = p /\ a[s].status \in Terminal) => a[s] = b[s]
    PROVE  ListContestProblemSubmissionsForProjection(a, u, p) =
           ListContestProblemSubmissionsForProjection(b, u, p)
BY DEF ListContestProblemSubmissionsForProjection, Restrict

\* The start of the contest matters only where there is a submission.
LEMMA NoRows ==
    ASSUME NEW a, NEW u, NEW p, NEW start, DOMAIN a = {}
    PROVE  buildContestProblemProjection(start, ListContestProblemSubmissionsForProjection(a, u, p)) = NoCell
<1>1. DOMAIN ListContestProblemSubmissionsForProjection(a, u, p) = {}
  BY DEF ListContestProblemSubmissionsForProjection, Restrict
<1> QED
  BY <1>1 DEF buildContestProblemProjection

\* A step that keeps the start, once there are submissions, and the rows of a cell keeps
\* the projection of that cell.
LEMMA SameProjection ==
    ASSUME NEW a, NEW b, NEW u, NEW p, contest'.start = contest.start \/ (DOMAIN a = {} /\ DOMAIN b = {}),
           ListContestProblemSubmissionsForProjection(a, u, p) =
           ListContestProblemSubmissionsForProjection(b, u, p)
    PROVE  buildContestProblemProjection(contest'.start,
                ListContestProblemSubmissionsForProjection(b, u, p)) = Projection(a, u, p)
BY NoRows DEF Projection

\* A step that writes no submission of the cell keeps what a transaction sees of it.
LEMMA SeenStays ==
    ASSUME NEW t, NEW u, NEW p, DOMAIN t.writes \subseteq DOMAIN subs, DOMAIN subs \subseteq DOMAIN subs',
           contest'.start = contest.start \/ (DOMAIN subs = {} /\ DOMAIN subs' = {}),
           \A s \in DOMAIN subs : CellOf(s) = <<u, p>> => subs'[s] = subs[s],
           \A s \in DOMAIN subs : CellOf(s)' = CellOf(s),
           \A s \in DOMAIN subs' \ DOMAIN subs : subs'[s].status \notin Terminal
    PROVE  /\ Projection(SeenSubs(t), u, p)' = Projection(SeenSubs(t), u, p)
           /\ Projection(subs, u, p)' = Projection(subs, u, p)
<1> DEFINE a == SeenSubs(t)
           b == [s \in DOMAIN subs' |-> IF s \in DOMAIN t.writes THEN t.writes[s] ELSE subs'[s]]
<1>1. /\ DOMAIN a = DOMAIN subs /\ DOMAIN b = DOMAIN subs'
      /\ \A s \in DOMAIN subs : a[s] = IF s \in DOMAIN t.writes THEN t.writes[s] ELSE subs[s]
      /\ \A s \in DOMAIN subs' : b[s] = IF s \in DOMAIN t.writes THEN t.writes[s] ELSE subs'[s]
  BY DEF SeenSubs
<1>2. /\ SeenSubs(t)' = b
      /\ \A s \in DOMAIN subs : subs'[s].user = subs[s].user /\ subs'[s].problem = subs[s].problem
  BY DEF SeenSubs, CellOf
<1> HIDE DEF a, b
<1>3. ListContestProblemSubmissionsForProjection(a, u, p) =
      ListContestProblemSubmissionsForProjection(b, u, p)
  BY <1>1, <1>2, SameRows DEF CellOf
<1>4. ListContestProblemSubmissionsForProjection(subs, u, p) =
      ListContestProblemSubmissionsForProjection(subs', u, p)
  BY <1>2, SameRows DEF CellOf
<1>5. buildContestProblemProjection(contest'.start,
          ListContestProblemSubmissionsForProjection(b, u, p)) = Projection(a, u, p)
  BY <1>1, <1>3, SameProjection
<1>6. buildContestProblemProjection(contest'.start,
          ListContestProblemSubmissionsForProjection(subs', u, p)) = Projection(subs, u, p)
  BY <1>4, SameProjection
<1> QED
  BY <1>2, <1>5, <1>6 DEF Projection, a

\* A step that leaves the submissions, or adds one that is queued, and the transactions.
LEMMA ArrivalKeepsFaith ==
    ASSUME NEW t, Faithful(t), unprojected \subseteq DOMAIN subs, unprojected' = unprojected,
           DOMAIN subs \subseteq DOMAIN subs',
           contest'.start = contest.start \/ (DOMAIN subs = {} /\ DOMAIN subs' = {}),
           \A s \in DOMAIN subs : subs'[s] = subs[s],
           \A s \in DOMAIN subs' \ DOMAIN subs : subs'[s].status \notin Terminal
    PROVE  Faithful(t)'
<1>1. \A s \in DOMAIN subs : CellOf(s)' = CellOf(s)
  BY DEF CellOf
<1>2. Refers(t)'
  BY DEF Faithful, Refers
<1>3. Visited(t)'
  BY <1>1 DEF Faithful, Refers, Visited
<1>4. ASSUME NEW u \in Users, NEW p \in Problems, <<u, p>> \in DOMAIN t.cells,
             ~Touches(unprojected \cup t.skipped, u, p)'
      PROVE  t.cells[<<u, p>>] = Projection(SeenSubs(t), u, p)'
  <2>1. unprojected \cup t.skipped \subseteq DOMAIN subs /\ DOMAIN t.writes \subseteq DOMAIN subs
    BY DEF Faithful, Refers
  <2>2. ~Touches(unprojected \cup t.skipped, u, p)
    BY <1>4, <2>1 DEF Touches
  <2>3. t.cells[<<u, p>>] = Projection(SeenSubs(t), u, p)
    BY <1>4, <2>2 DEF Faithful, Current
  <2> QED
    BY <1>1, <2>1, <2>3, SeenStays
<1> QED
  BY <1>2, <1>3, <1>4 DEF Faithful, Current

\* The same for a step of the whole state that opens and closes no transaction.
LEMMA ArrivalKeepsCells ==
    ASSUME CellInv, Submitted', UNCHANGED <<tx, results, unprojected>>,
           DOMAIN subs \subseteq DOMAIN subs',
           contest'.start = contest.start \/ (DOMAIN subs = {} /\ DOMAIN subs' = {}),
           \A s \in DOMAIN subs : subs'[s] = subs[s],
           \A s \in DOMAIN subs' \ DOMAIN subs : subs'[s].status \notin Terminal
    PROVE  CellInv'
<1>1. unprojected \subseteq DOMAIN subs
  BY DEF CellInv, Submitted
<1>2. \A w \in Workers : Faithful(tx[w])'
  <2> SUFFICES ASSUME NEW w \in Workers PROVE Faithful(tx[w])'
    OBVIOUS
  <2> DEFINE t == tx[w]
  <2>1. Faithful(t) /\ tx' = tx
    BY DEF CellInv
  <2>2. PICK v : v = t
    OBVIOUS
  <2>3. Faithful(v)'
    BY <1>1, <2>1, <2>2, ArrivalKeepsFaith
  <2> QED
    BY <2>1, <2>2, <2>3
<1>3. CellsAreRebuilt'
  <2> SUFFICES ASSUME NEW u \in Users, NEW p \in Problems,
                      \A s \in unprojected : CellOf(s)' # <<u, p>>
               PROVE  results[u][p] = Projection(subs, u, p)'
    BY DEF CellsAreRebuilt, CellOf, Projection
  <2>1. \A s \in unprojected : CellOf(s) # <<u, p>>
    BY <1>1 DEF CellOf
  <2>2. results[u][p] = Projection(subs, u, p)
    BY <2>1 DEF CellInv, CellsAreRebuilt, CellOf, Projection
  <2>3. Projection(subs, u, p)' = Projection(subs, u, p)
    <3> DEFINE t == NoTx
    <3>1. DOMAIN t.writes = {}
      BY DEF NoTx
    <3>2. \A s \in DOMAIN subs : CellOf(s)' = CellOf(s)
      BY DEF CellOf
    <3> HIDE DEF t
    <3> QED
      BY <3>1, <3>2, SeenStays
  <2> QED
    BY <2>2, <2>3
<1> QED
  BY <1>2, <1>3 DEF CellInv

\* The transactions that a step leaves open stay faithful to a step that only moves others.
LEMMA MoveKeepsCells ==
    ASSUME ScoreInv, CellInv, NEW w \in Workers, NEW t, Faithful(t), tx' = [tx EXCEPT ![w] = t],
           UNCHANGED <<contest, subs, results, unprojected, admitted, batch>>
    PROVE  CellInv'
<1>1. /\ tx'[w] = t /\ \A x \in Workers \ {w} : tx'[x] = tx[x]
  BY DEF ScoreInv, Tables
<1>2. \A x \in Workers : Faithful(tx'[x])
  BY <1>1 DEF CellInv
<1>3. \A x \in Workers : Faithful(tx[x])'
  <2> SUFFICES ASSUME NEW x \in Workers PROVE Faithful(tx[x])'
    OBVIOUS
  <2>1. Refers(tx[x])'
    BY <1>2 DEF Faithful, Refers
  <2>2. Visited(tx[x])'
    BY <1>2 DEF Faithful, Visited, CellOf
  <2>3. Current(tx[x])'
    BY <1>2 DEF Faithful, Current, Touches, Projection, SeenSubs
  <2> QED
    BY <2>1, <2>2, <2>3 DEF Faithful
<1>4. Submitted' /\ CellsAreRebuilt'
  BY DEF CellInv, Submitted, CellsAreRebuilt, Created
<1> QED
  BY <1>3, <1>4 DEF CellInv

\* A commit writes the rows of a cell only together with the rebuilt cell, or records the
\* submission as one it skipped; and nobody else has a rebuilt cell of the same user.
LEMMA CommitKeepsCells ==
    ASSUME ScoreInv, CellInv, Row, NEW w \in Workers, NEW t, Good(t), Apart(w, t), Faithful(t),
           t.todo = {}, tx' = [tx EXCEPT ![w] = NoTx], Commit(t), admitted' = admitted
    PROVE  CellInv'
<1>1. /\ tx'[w] = NoTx /\ \A x \in Workers \ {w} : tx'[x] = tx[x]
  BY DEF ScoreInv, Tables
<1>2. /\ DOMAIN subs' = DOMAIN subs /\ unprojected' = unprojected \cup t.skipped
      /\ subs' = SeenSubs(t)
      /\ \A s \in DOMAIN subs : subs'[s] = IF s \in DOMAIN t.writes THEN t.writes[s] ELSE subs[s]
      /\ unprojected \cup t.skipped \subseteq DOMAIN subs
  BY DEF Commit, SeenSubs, Faithful, Refers, CellInv, Submitted
<1>3. \A s \in DOMAIN subs : CellOf(s)' = CellOf(s)
  BY <1>2 DEF Faithful, Refers, CellOf
<1>4. \A u \in Users, p \in Problems :
         results'[u][p] = IF <<u, p>> \in DOMAIN t.cells THEN t.cells[<<u, p>>] ELSE results[u][p]
  BY DEF Commit, SeenRow
<1>5. /\ Created' <=> Created
      /\ Created => "start" \in DOMAIN contest' /\ contest'.start = contest.start
      /\ ~Created => DOMAIN subs = {}
  <2>1. /\ DOMAIN contest' = DOMAIN contest /\ contest'.status = contest.status
        /\ "start" \in DOMAIN contest => contest'.start = contest.start
    BY DEF Commit, Row
  <2> QED
    BY <2>1 DEF Created, CellInv, Submitted
<1>6. ASSUME NEW u \in Users, NEW p \in Problems, ~Touches(unprojected \cup t.skipped, u, p),
             <<u, p>> \notin DOMAIN t.cells
      PROVE  \A s \in DOMAIN subs : CellOf(s) = <<u, p>> => subs'[s] = subs[s]
  <2> SUFFICES ASSUME NEW s \in DOMAIN subs, CellOf(s) = <<u, p>>, s \in DOMAIN t.writes
               PROVE  FALSE
    BY <1>2
  <2>1. s \in t.skipped \/ CellOf(s) \in DOMAIN t.cells
    BY DEF Faithful, Visited
  <2> QED
    BY <1>6, <2>1 DEF Touches, CellOf
<1>7. ASSUME NEW u \in Users, NEW p \in Problems, NEW S, ~Touches(unprojected \cup S, u, p)',
             S \subseteq DOMAIN subs
      PROVE  ~Touches(unprojected \cup t.skipped \cup S, u, p)
  BY <1>2, <1>3, <1>7 DEF Touches, CellOf
<1>8. CellsAreRebuilt'
  <2> SUFFICES ASSUME NEW u \in Users, NEW p \in Problems, ~Touches(unprojected, u, p)'
               PROVE  results'[u][p] = Projection(subs, u, p)'
    BY DEF CellsAreRebuilt, Touches, Projection
  <2>1. ~Touches(unprojected \cup t.skipped, u, p)
    BY <1>2, <1>3 DEF Touches, CellOf
  <2>2. CASE <<u, p>> \in DOMAIN t.cells
    <3>1. results'[u][p] = Projection(SeenSubs(t), u, p)
      BY <1>4, <2>1, <2>2 DEF Faithful, Current
    <3>2. DOMAIN subs = {} => DOMAIN SeenSubs(t) = {} /\ DOMAIN subs' = {}
      BY <1>2
    <3> QED
      BY <1>2, <1>5, <3>1, <3>2, SameProjection DEF Projection
  <2>3. CASE <<u, p>> \notin DOMAIN t.cells
    <3>1. results'[u][p] = Projection(subs, u, p)
      <4>1. ~Touches(unprojected, u, p)
        BY <2>1 DEF Touches
      <4> QED
        BY <1>4, <2>3, <4>1 DEF CellInv, CellsAreRebuilt, Touches, Projection
    <3>2. \A s \in DOMAIN subs : CellOf(s) = <<u, p>> => subs'[s] = subs[s]
      BY <1>6, <2>1, <2>3
    <3>3. DOMAIN t.writes \subseteq DOMAIN subs
      BY DEF Faithful, Refers
    <3> QED
      BY <1>2, <1>3, <1>5, <3>1, <3>2, <3>3, SeenStays, SMTT(40)
  <2> QED
    BY <2>2, <2>3
<1>9. ASSUME NEW x \in Workers \ {w}
      PROVE  Faithful(tx[x])'
  <2>1. PICK v : v = tx[x]
    OBVIOUS
  <2>2. Faithful(v) /\ Good(v) /\ v = tx'[x]
    BY <1>1, <2>1 DEF CellInv, ScoreInv
  <2>3. \A u \in Users, p \in Problems : ~(<<u, p>> \in DOMAIN v.cells /\ <<u, p>> \in DOMAIN t.cells)
    BY <2>1, <2>2 DEF Good, Scored, Untouched, Apart
  <2>4. Refers(v)'
    BY <1>2, <1>3, <2>2 DEF Faithful, Refers, CellOf
  <2>5. Visited(v)'
    BY <1>3, <2>2 DEF Faithful, Refers, Visited
  <2>6. ASSUME NEW u \in Users, NEW p \in Problems, <<u, p>> \in DOMAIN v.cells,
               ~Touches(unprojected \cup v.skipped, u, p)'
        PROVE  v.cells[<<u, p>>] = Projection(SeenSubs(v), u, p)'
    <3>1. v.skipped \subseteq DOMAIN subs /\ DOMAIN v.writes \subseteq DOMAIN subs
      BY <2>2 DEF Faithful, Refers
    <3>2. ~Touches(unprojected \cup t.skipped \cup v.skipped, u, p)
      BY <1>7, <2>6, <3>1
    <3>3. ~Touches(unprojected \cup t.skipped, u, p) /\ ~Touches(unprojected \cup v.skipped, u, p)
      BY <3>2 DEF Touches
    <3>4. v.cells[<<u, p>>] = Projection(SeenSubs(v), u, p)
      BY <2>2, <2>6, <3>3 DEF Faithful, Current
    <3>5. \A s \in DOMAIN subs : CellOf(s) = <<u, p>> => subs'[s] = subs[s]
      BY <1>6, <2>3, <2>6, <3>3
    <3> QED
      BY <1>2, <1>3, <1>5, <3>1, <3>4, <3>5, SeenStays
  <2>7. Faithful(v)'
    BY <2>4, <2>5, <2>6 DEF Faithful, Current
  <2> QED
    BY <2>2, <2>7
<1>10. Faithful(tx[w])'
  BY <1>1 DEF Faithful, Refers, Visited, Current, NoTx
<1>11. Submitted'
  <2>1. PICK S : subs \in Seq(S)
    BY DEF CellInv, Submitted
  <2>2. DOMAIN subs = 1 .. Len(subs) /\ Len(subs) \in Nat
    BY <2>1
  <2> DEFINE R == {SeenSubs(t)[s] : s \in DOMAIN subs}
  <2>3. SeenSubs(t) \in [1 .. Len(subs) -> R]
    BY <2>2 DEF SeenSubs
  <2> HIDE DEF R
  <2>4. subs' \in Seq(R)
    BY <1>2, <2>2, <2>3
  <2>5. ~Created => subs' = <<>>
    BY <1>2, <1>5, <2>4
  <2>6. \A s \in DOMAIN subs' : DOMAIN subs'[s] = SubmissionColumns
    BY <1>2 DEF CellInv, Submitted, Faithful, Refers
  <2>7. batch' \subseteq DOMAIN subs
    BY DEF Commit, CellInv, Submitted, Faithful, Refers
  <2> QED
    BY <1>2, <1>5, <2>4, <2>5, <2>6, <2>7 DEF Submitted, CellInv
<1> QED
  BY <1>8, <1>9, <1>10, <1>11 DEF CellInv

\* A set of naturals has a least member.
LEMMA LeastNatural ==
    ASSUME NEW T \in SUBSET Nat, T # {}
    PROVE  Min(T) \in T /\ \A y \in T : Min(T) <= y
<1> DEFINE R == OpToRel(<, Nat)
<1>1. PICK m \in T : \A y \in T : ~(<<y, m>> \in R)
  BY WFMin, NatLessThanWellFounded
<1>2. \A y \in T : <<y, m>> \in R <=> y < m
  BY DEF OpToRel
<1> HIDE DEF R
<1>3. \A y \in T : ~(y < m)
  BY <1>1, <1>2
<1>4. \E x \in T : \A y \in T : x =< y
  BY <1>3
<1> QED
  BY <1>4 DEF Min

LEMMA TargetIsDue ==
    ASSUME CellInv, NEW t, Refers(t), t.todo # {}
    PROVE  Target(t) \in t.todo
<1>1. t.todo \subseteq DOMAIN subs
  BY DEF Refers
<1>2. DOMAIN subs \subseteq Nat
  <2>1. PICK S : subs \in Seq(S)
    BY DEF CellInv, Submitted
  <2> QED
    BY <2>1
<1> QED
  BY <1>1, <1>2, LeastNatural DEF Target

\* Every step of a transaction, as before, leaves it faithful to the submissions.
Carries(w) == \E t : Good(t) /\ Apart(w, t) /\ Faithful(t) /\ Proceed(w, t)

LEMMA SkippedIsFaithful ==
    ASSUME CellInv, NEW t, Good(t), Faithful(t), t.pc = "lock", t.todo # {}
    PROVE  Faithful(Skipped(t))
<1> DEFINE r == Skipped(t)
           T == Target(t)
<1>1. T \in t.todo
  BY TargetIsDue DEF Faithful
<1> HIDE DEF T
<1>2. /\ r.todo = t.todo \ {T} /\ r.skipped = t.skipped \cup {T} /\ r.cells = t.cells
      /\ r.writes = t.writes /\ r.pc = "lock"
  BY DEF Good, Skipped, NoTx, T
<1> HIDE DEF r
<1>3. Refers(r)
  BY <1>1, <1>2 DEF Faithful, Refers
<1>4. Visited(r)
  BY <1>2 DEF Faithful, Visited
<1>5. SeenSubs(r) = SeenSubs(t)
  BY <1>2 DEF SeenSubs
<1>6. Current(r)
  BY <1>2, <1>5 DEF Faithful, Current, Touches
<1> QED
  BY <1>3, <1>4, <1>6 DEF Faithful, r

LEMMA RebuiltIsFaithful ==
    ASSUME CellInv, NEW t, Good(t), Faithful(t), t.todo # {}, NEW u, u = subs[Target(t)].user,
           NEW p, p = subs[Target(t)].problem, NEW cell, cell = Projection(SeenSubs(t), u, p)
    PROVE  Faithful(Rebuilt(t, u, p, cell))
<1> DEFINE r == Rebuilt(t, u, p, cell)
           key == <<u, p>>
<1>1. Target(t) \in t.todo /\ CellOf(Target(t)) = key
  BY TargetIsDue DEF Faithful, CellOf
<1>2. /\ r.todo = t.todo /\ r.skipped = t.skipped /\ r.writes = t.writes
      /\ r.cells = UpsertContestProblemResult(t, u, p, cell)
  BY RebuiltColumns DEF Good
<1> HIDE DEF r
<1>3. /\ DOMAIN r.cells = DOMAIN t.cells \cup {key} /\ r.cells[key] = cell
      /\ \A x \in DOMAIN t.cells : x # key => r.cells[x] = t.cells[x]
  BY <1>2 DEF UpsertContestProblemResult
<1>4. Refers(r)
  BY <1>2 DEF Faithful, Refers
<1>5. Visited(r)
  BY <1>1, <1>2, <1>3 DEF Faithful, Visited, Target
<1>6. SeenSubs(r) = SeenSubs(t)
  BY <1>2 DEF SeenSubs
<1>7. ASSUME NEW v \in Users, NEW q \in Problems, <<v, q>> \in DOMAIN r.cells,
             ~Touches(unprojected \cup r.skipped, v, q)
      PROVE  r.cells[<<v, q>>] = Projection(SeenSubs(r), v, q)
  <2>1. CASE <<v, q>> = key
    BY <1>3, <1>6, <2>1
  <2>2. CASE <<v, q>> # key
    <3> DEFINE k == <<v, q>>
    <3>1. k \in DOMAIN t.cells /\ r.cells[k] = t.cells[k]
      <4> HIDE DEF k, key
      <4> QED
        BY <1>3, <1>7, <2>2 DEF k
    <3> QED
      BY <1>2, <1>6, <1>7, <3>1 DEF Faithful, Current
  <2> QED
    BY <2>1, <2>2
<1> QED
  BY <1>4, <1>5, <1>7 DEF Faithful, Current, r

LEMMA VisitCarries ==
    ASSUME CellInv, NEW w \in Workers, NEW t, Good(t), Apart(w, t), Faithful(t), t.pc = "lock",
           t.todo # {}, Visit(w, t)
    PROVE  Carries(w)
<1>1. CASE Proceed(w, Skipped(t))
  <2>1. Good(Skipped(t)) /\ Apart(w, Skipped(t))
    BY SkippedIsGood DEF Apart
  <2> QED
    BY <1>1, <2>1, SkippedIsFaithful DEF Carries
<1>2. ASSUME NEW u, NEW p, NEW cell, Registered(u), \A x \in Workers \ {w} : u \notin tx[x].held,
             u = subs[Target(t)].user, p = subs[Target(t)].problem,
             cell = Projection(SeenSubs(t), u, p), Proceed(w, Rebuilt(t, u, p, cell))
      PROVE  Carries(w)
  <2>1. Good(Rebuilt(t, u, p, cell))
    BY <1>2, RebuiltIsGood
  <2>2. Rebuilt(t, u, p, cell).held = t.held \cup {u}
    BY RebuiltColumns DEF Good
  <2>3. Apart(w, Rebuilt(t, u, p, cell))
    BY <1>2, <2>2 DEF Apart
  <2>4. Faithful(Rebuilt(t, u, p, cell))
    BY <1>2, RebuiltIsFaithful
  <2> QED
    BY <1>2, <2>1, <2>3, <2>4 DEF Carries
<1> QED
  BY <1>1, <1>2, VisitEffect DEF Projection

\* A transaction opens with rows that the statements changed in their own columns only.
Keeps(x, sub) == DOMAIN x = SubmissionColumns /\ x.user = sub.user /\ x.problem = sub.problem
Rewrites(writes) ==
    /\ DOMAIN writes \subseteq DOMAIN subs /\ DOMAIN writes # {}
    /\ \A s \in DOMAIN writes : Keeps(writes[s], subs[s])

LEMMA BeginCarries ==
    ASSUME CellInv, NEW w \in Workers, NEW writes, Rewrites(writes), NEW onBatch,
           Begin(w, writes, onBatch)
    PROVE  Carries(w)
<1>o. PICK t : t = Opened(writes, onBatch)
  OBVIOUS
<1>1. Visit(w, t)
  BY <1>o DEF Begin, Opened
<1>2. /\ Good(t) /\ Apart(w, t) /\ t.todo = DOMAIN writes /\ t.writes = writes
      /\ t.cells = <<>> /\ t.skipped = {} /\ t.pc = "lock"
  <2>1. /\ Good(Opened(writes, onBatch)) /\ Apart(w, Opened(writes, onBatch))
        /\ Opened(writes, onBatch).todo = DOMAIN writes
        /\ Opened(writes, onBatch).writes = writes
        /\ Opened(writes, onBatch).cells = <<>>
        /\ Opened(writes, onBatch).skipped = {}
        /\ Opened(writes, onBatch).pc = "lock"
    BY OpenedIsGood, ZenonT(40)
  <2> QED
    BY <1>o, <2>1
<1>3. Refers(t) /\ t.todo # {}
  BY <1>2 DEF Refers, Rewrites, Keeps
<1>4. Visited(t) /\ Current(t)
  BY <1>2 DEF Visited, Current
<1> QED
  BY <1>1, <1>2, <1>3, <1>4, VisitCarries DEF Faithful

LEMMA IncrementCarries ==
    ASSUME ScoreInv, CellInv, NEW w \in Workers, IncrementContestScoreRevision(w)
    PROVE  Carries(w)
<1>1. PICK t : t = tx[w]
  OBVIOUS
<1> DEFINE r == Incremented(t)
<1>2. Good(t) /\ Apart(w, t) /\ Faithful(t) /\ Proceed(w, r) /\ t.pc = "increment"
  BY <1>1 DEF ScoreInv, CellInv, IncrementContestScoreRevision, Incremented
<1>3. /\ Good(r) /\ Apart(w, r) /\ r.cells = t.cells /\ r.writes = t.writes
      /\ r.skipped = t.skipped /\ r.todo = t.todo \ {Target(t)} /\ r.pc = "lock"
  BY <1>2, IncrementedIsGood
<1> HIDE DEF r
<1>4. SeenSubs(r) = SeenSubs(t)
  BY <1>3 DEF SeenSubs
<1>5. Refers(r) /\ Current(r)
  BY <1>2, <1>3, <1>4 DEF Faithful, Refers, Current, Touches
<1>6. Visited(r)
  BY <1>2, <1>3 DEF Faithful, Visited
<1> QED
  BY <1>2, <1>3, <1>5, <1>6 DEF Carries, Faithful

\* What the statements write into a submission leaves its user and problem alone.
LEMMA StatementsRewrite ==
    ASSUME NEW sub, DOMAIN sub = SubmissionColumns
    PROVE  /\ \A v, judged : Keeps(UpdateSubmissionStatus(sub, v, judged), sub)
           /\ \A v : Keeps(UpsertSubmissionResult(sub, v), sub)
           /\ Keeps(MarkSubmissionSystemError(sub), sub)
           /\ Keeps(PrepareSubmissionForRejudge(sub), sub)
           /\ Keeps(RestoreSubmissionAfterCanceledRejudge(sub), sub)
<1> USE DEF SubmissionColumns, Keeps
<1>1. \A v, judged : Keeps(UpdateSubmissionStatus(sub, v, judged), sub)
  BY DEF UpdateSubmissionStatus
<1>2. \A v : Keeps(UpsertSubmissionResult(sub, v), sub)
  BY DEF UpsertSubmissionResult
<1>3. Keeps(MarkSubmissionSystemError(sub), sub) /\ Keeps(PrepareSubmissionForRejudge(sub), sub)
  BY DEF MarkSubmissionSystemError, PrepareSubmissionForRejudge
<1>4. Keeps(RestoreSubmissionAfterCanceledRejudge(sub), sub)
  BY DEF RestoreSubmissionAfterCanceledRejudge
<1> QED
  BY <1>1, <1>2, <1>3, <1>4

LEMMA TransactionCarries ==
    ASSUME ScoreInv, CellInv, NEW w \in Workers, Transaction(w)
    PROVE  Carries(w) \/ Rollback(w)
<1>0. \A s \in DOMAIN subs : DOMAIN subs[s] = SubmissionColumns
  BY DEF CellInv, Submitted
<1>1. ASSUME NEW s \in DOMAIN subs, NEW v \in Verdicts, NEW judged \in 0 .. MaxNow,
             completeSubmissionAttempt(w, s, v, judged)
      PROVE  Carries(w)
  <2> DEFINE writes == [x \in {s} |->
                UpsertSubmissionResult(UpdateSubmissionStatus(subs[x], v, judged), v)]
  <2> DEFINE judge == UpdateSubmissionStatus(subs[s], v, judged)
  <2>0. Keeps(judge, subs[s])
    BY <1>0, StatementsRewrite
  <2>3. Keeps(UpsertSubmissionResult(judge, v), judge)
    BY <2>0, StatementsRewrite DEF Keeps
  <2>1. Rewrites(writes)
    BY <2>0, <2>3 DEF Rewrites, Keeps
  <2>2. Begin(w, writes, "finish")
    BY <1>1 DEF completeSubmissionAttempt
  <2> HIDE DEF writes
  <2> QED
    BY <2>1, <2>2, BeginCarries
<1>2. ASSUME NEW s \in DOMAIN subs, markSubmissionSystemError(w, s)
      PROVE  Carries(w)
  <2> DEFINE writes == [x \in {s} |-> MarkSubmissionSystemError(subs[x])]
  <2>1. Rewrites(writes)
    BY <1>0, StatementsRewrite DEF Rewrites
  <2>2. Begin(w, writes, "finish")
    BY <1>2 DEF markSubmissionSystemError
  <2> HIDE DEF writes
  <2> QED
    BY <2>1, <2>2, BeginCarries
<1>3. ASSUME NEW s \in DOMAIN subs, RecoverDeadJudgeTask(w, s)
      PROVE  Carries(w)
  <2> DEFINE writes == [x \in {s} |-> PrepareSubmissionForRejudge(subs[x])]
  <2>1. Rewrites(writes)
    BY <1>0, StatementsRewrite DEF Rewrites
  <2>2. Begin(w, writes, "keep")
    BY <1>3 DEF RecoverDeadJudgeTask
  <2> HIDE DEF writes
  <2> QED
    BY <2>1, <2>2, BeginCarries
<1>4. CASE HandleCreateRejudgeBatch(w)
  <2> DEFINE S == ListEligibleContestSubmissionsForRejudge
             writes == [s \in S |-> PrepareSubmissionForRejudge(subs[s])]
  <2>1. S # {} /\ Begin(w, writes, "open")
    BY <1>4 DEF HandleCreateRejudgeBatch, CreateBatch, CreateRejudgeBatch
  <2>2. S \subseteq DOMAIN subs
    BY DEF ListEligibleContestSubmissionsForRejudge
  <2> HIDE DEF S
  <2>3. Rewrites(writes)
    BY <1>0, <2>1, <2>2, StatementsRewrite DEF Rewrites
  <2> HIDE DEF writes
  <2> QED
    BY <2>1, <2>3, BeginCarries
<1>5. CASE HandleCancelRejudgeBatch(w)
  <2>1. PICK u \in Users, queued \in SUBSET batch : CancelBatch(w, u, queued)
    BY <1>5 DEF HandleCancelRejudgeBatch
  <2>4. queued \subseteq DOMAIN subs
    BY DEF CellInv, Submitted
  <2> DEFINE writes == [s \in queued |-> RestoreSubmissionAfterCanceledRejudge(subs[s])]
  <2>2. queued # {} /\ Begin(w, writes, "finish")
    BY <2>1 DEF CancelBatch, CancelRejudgeBatch
  <2>3. Rewrites(writes)
    BY <1>0, <2>2, <2>4, StatementsRewrite DEF Rewrites
  <2> HIDE DEF writes
  <2> QED
    BY <2>2, <2>3, BeginCarries
<1>6. CASE NextTarget(w)
  <2>1. /\ Good(tx[w]) /\ Apart(w, tx[w]) /\ Faithful(tx[w]) /\ tx[w].pc = "lock"
        /\ tx[w].todo # {} /\ Visit(w, tx[w])
    BY <1>6 DEF NextTarget, ScoreInv, CellInv
  <2> QED
    BY <2>1, VisitCarries
<1> QED
  BY <1>1, <1>2, <1>3, <1>4, <1>5, <1>6, IncrementCarries DEF Transaction

LEMMA TransactionKeepsCells ==
    ASSUME ScoreInv, FinalInv, CellInv, NEW w \in Workers, Transaction(w)
    PROVE  CellInv'
<1>1. ASSUME NEW t, Good(t), Apart(w, t), Faithful(t), Proceed(w, t)
      PROVE  CellInv'
  <2>1. CASE t.todo = {}
    BY <1>1, <2>1, CommitKeepsCells DEF Proceed, FinalInv
  <2>2. CASE t.todo # {}
    BY <1>1, <2>2, MoveKeepsCells DEF Proceed
  <2> QED
    BY <2>1, <2>2
<1>2. CASE Rollback(w)
  <2>1. Faithful(NoTx)
    BY DEF Faithful, Refers, Visited, Current, NoTx
  <2> QED
    BY <1>2, <2>1, MoveKeepsCells DEF Rollback
<1> QED
  BY <1>1, <1>2, TransactionCarries DEF Carries

LEMMA QuietKeepsCells ==
    ASSUME CellInv, UNCHANGED <<contest, admitted, subs, batch, results, tx, unprojected>>
    PROVE  CellInv'
<1>1. Submitted'
  BY DEF CellInv, Submitted, Created
<1> QED
  BY <1>1, ArrivalKeepsCells

\* A submission arrives queued, so it is in no projection.
LEMMA CreateSubmissionKeepsCells ==
    ASSUME CellInv, NEW u, NEW p, CreateSubmission(u, p)
    PROVE  CellInv'
<1> DEFINE sub == [user |-> u, problem |-> p, at |-> now, status |-> "queued",
                   judged |-> None, first |-> None, row |-> None]
<1>1. /\ subs' = Append(subs, sub) /\ <<u, p>> \in admitted
      /\ UNCHANGED <<contest, results, tx, unprojected, batch>>
  BY DEF CreateSubmission, InsertSubmission
<1>2. sub.status = "queued" /\ DOMAIN sub = SubmissionColumns
  BY DEF SubmissionColumns
<1> HIDE DEF sub
<1>3. PICK S : subs \in Seq(S)
  BY DEF CellInv, Submitted
<1>4. /\ subs' \in Seq(S \cup {sub}) /\ DOMAIN subs \subseteq DOMAIN subs'
      /\ \A s \in DOMAIN subs : subs'[s] = subs[s]
      /\ \A s \in DOMAIN subs' \ DOMAIN subs : subs'[s] = sub
  BY <1>1, <1>3
<1>5. Created
  BY <1>1 DEF CellInv, Submitted
<1>6. Submitted'
  BY <1>1, <1>2, <1>4, <1>5 DEF CellInv, Submitted, Created
<1> QED
  BY <1>1, <1>2, <1>4, <1>6, ArrivalKeepsCells DEF Terminal

\* No update moves the start of the contest.
StartFixed == \A in \in UpdateInputs : "start" \notin DOMAIN in

LEMMA AuthoringKeepsCells ==
    ASSUME StartFixed, FinalInv, CellInv, NEW u \in Users, Authoring(u)
    PROVE  CellInv'
<1>1. UNCHANGED <<admitted, subs, batch, results, tx, unprojected>>
  BY DEF Authoring, HandleCreateContest, CreateContest, HandleUpdateContest, UpdateContest,
     HandleDeleteContest, DeleteContest, HandleGrantRole, GrantContestRole, HandleRevokeRole,
     RevokeContestRole
<1>2. CASE HandleCreateContest(u)
  <2>1. /\ ~Created /\ "start" \in DOMAIN contest' /\ contest'.status \in Statuses
    BY <1>2 DEF HandleCreateContest, CreateContest, InsertContest, Columns, validateContestInput
  <2>2. subs = <<>> /\ DOMAIN subs = {}
    BY <2>1 DEF CellInv, Submitted
  <2>3. Created'
    BY <2>1, ContestAssumption DEF Created
  <2>4. Submitted'
    BY <1>1, <2>1, <2>3 DEF CellInv, Submitted
  <2> QED
    BY <1>1, <2>2, <2>4, ArrivalKeepsCells
<1>3. CASE HandleUpdateContest(u)
  <2>1. PICK in \in UpdateInputs : UpdateContest(u, in)
    BY <1>3 DEF HandleUpdateContest
  <2>2. Created /\ "start" \in DOMAIN contest
    BY <2>1 DEF UpdateContest, CellInv, Submitted
  <2>3. DOMAIN contest' = DOMAIN contest /\ contest'.start = contest.start
    BY <2>1, <2>2 DEF UpdateContest, UpdatedContest, StartFixed
  <2>4. Created'
    BY <2>1, ContestAssumption DEF UpdateContest, validateContestInput, Created
  <2>5. Submitted'
    BY <1>1, <2>2, <2>3, <2>4 DEF CellInv, Submitted
  <2> QED
    BY <1>1, <2>3, <2>5, ArrivalKeepsCells
<1>4. CASE HandleDeleteContest(u)
  <2>1. Created /\ {"start", "status"} \subseteq DOMAIN contest
    BY <1>4 DEF HandleDeleteContest, DeleteContest, CellInv, Submitted, FinalInv, Row
  <2>2. /\ DOMAIN contest' = DOMAIN contest /\ contest'.start = contest.start
        /\ contest'.status = "archived"
    BY <1>4, <2>1 DEF HandleDeleteContest, DeleteContest, ArchivedContest
  <2>3. Created'
    BY <2>2, ContestAssumption DEF Created, Statuses
  <2>4. Submitted'
    BY <1>1, <2>1, <2>2, <2>3 DEF CellInv, Submitted
  <2> QED
    BY <1>1, <2>2, <2>4, ArrivalKeepsCells
<1>5. CASE HandleGrantRole(u) \/ HandleRevokeRole(u)
  <2>1. contest' = contest
    BY <1>5 DEF HandleGrantRole, GrantContestRole, HandleRevokeRole, RevokeContestRole
  <2> QED
    BY <1>1, <2>1, QuietKeepsCells
<1> QED
  BY <1>2, <1>3, <1>4, <1>5 DEF Authoring

LEMMA ContestantKeepsCells ==
    ASSUME CellInv, Contestant
    PROVE  CellInv'
<1>1. ASSUME NEW u \in Registrants, HandleRegister(u)
      PROVE  CellInv'
  BY <1>1, QuietKeepsCells DEF HandleRegister, Register
<1>2. ASSUME NEW in \in SubmitInputs, ValidateSubmission(in[1], in[2])
      PROVE  CellInv'
  <2>1. UNCHANGED <<contest, subs, batch, results, tx, unprojected>>
    BY <1>2 DEF ValidateSubmission
  <2>2. Created
    BY <1>2, ContestAssumption DEF ValidateSubmission, Created, Statuses
  <2>3. Submitted'
    BY <2>1, <2>2 DEF CellInv, Submitted, Created
  <2> QED
    BY <2>1, <2>3, ArrivalKeepsCells
<1>3. CASE HandleCreateSubmission
  BY <1>3, CreateSubmissionKeepsCells DEF HandleCreateSubmission
<1> QED
  BY <1>1, <1>2, <1>3 DEF Contestant

LEMMA CellInit == Init => CellInv
<1> SUFFICES ASSUME Init PROVE CellInv
  OBVIOUS
<1>1. subs = <<>> /\ DOMAIN subs = {} /\ subs \in Seq({})
  BY DEF Init
<1>2. \A u \in Users, p \in Problems : results[u][p] = NoCell
  BY DEF Init
<1>3. CellsAreRebuilt
  BY <1>1, <1>2, NoRows DEF CellsAreRebuilt
<1>4. ~Created /\ admitted = {} /\ unprojected = {} /\ batch = {}
  BY DEF Init, Created
<1>5. Submitted
  BY <1>1, <1>4 DEF Submitted
<1>6. ASSUME NEW w \in Workers
      PROVE  Faithful(tx[w])
  BY DEF Init, Faithful, Refers, Visited, Current, NoTx
<1> QED
  BY <1>3, <1>5, <1>6 DEF CellInv

LEMMA CellStep ==
    ASSUME StartFixed, ScoreInv, FinalInv, CellInv, [Next]_vars
    PROVE  CellInv'
<1>1. CASE Tick \/ UNCHANGED vars
  BY <1>1, QuietKeepsCells DEF Tick, vars
<1>2. ASSUME NEW g \in Generators, Generator(g)
      PROVE  CellInv'
  BY <1>2, QuietKeepsCells DEF Generator, GenerateDueScoreSnapshots, ReadRows, ReadSubmissions,
     ReadResults, CreateScoreSnapshot, GenTo
<1> QED
  BY <1>1, <1>2, AuthoringKeepsCells, ContestantKeepsCells, TransactionKeepsCells DEF Next

\* In a contest whose start is not moved, a cell is always what the judged submissions of
\* its user and problem give, unless a transaction that wrote one of them found no
\* projection to rebuild: rebuildContestProblemResult runs in every transaction that
\* writes a submission, sees the writes of its own transaction, and the lock on the
\* registration keeps out the others that write a submission of the same user.
THEOREM CellsStayRebuilt == StartFixed => (Spec => []CellsAreRebuilt)
<1> SUFFICES ASSUME StartFixed
             PROVE  Spec => []CellsAreRebuilt
  OBVIOUS
<1>1. ScoreInv /\ FinalInv /\ CellInv => CellsAreRebuilt
  BY DEF CellInv
<1>2. ScoreInv /\ FinalInv /\ CellInv /\ [Next]_vars => CellInv'
  BY CellStep
<1> QED
  BY <1>1, <1>2, ScoreInit, ScoreStep, FinalInit, FinalStep, CellInit, PTL DEF Spec

-----------------------------------------------------------------------------
(* Types.                                                                  *)

\* The sum over finitely many natural penalties is a natural number.  MapThenSumSet adds
\* them up with a function over the subsets that calls itself on smaller ones: such a
\* function exists (<1>1 and <1>3), and the one it chooses has the same values (<1>5).
LEMMA PenaltyIsNatural ==
    ASSUME NEW row, NEW S, IsFiniteSet(S), \A p \in S : row[p].penalty \in Nat
    PROVE  Penalty(row, S) \in Nat
<1> DEFINE pick(s) == CHOOSE x \in s : TRUE
           Value(f, s) == IF s = {} THEN 0 ELSE row[pick(s)].penalty + f[s \ {pick(s)}]
           Sized(n) == {s \in SUBSET S : Cardinality(s) <= n}
           Sums(n, f) == f \in [Sized(n) -> Nat] /\ \A s \in Sized(n) : f[s] = Value(f, s)
           Bad == {n \in Nat : ~\E f : Sums(n, f)}
<1>0. /\ \A s \in SUBSET S : IsFiniteSet(s) /\ Cardinality(s) \in Nat
      /\ \A s \in SUBSET S : Cardinality(s) = 0 <=> s = {}
      /\ \A s \in SUBSET S : s # {} =>
             pick(s) \in s /\ Cardinality(s \ {pick(s)}) = Cardinality(s) - 1
  <2>1. \A s \in SUBSET S : IsFiniteSet(s) /\ Cardinality(s) \in Nat
    BY FS_Subset, FS_CardinalityType
  <2>2. \A s \in SUBSET S : Cardinality(s) = 0 <=> s = {}
    BY <2>1, FS_EmptySet
  <2>3. \A s \in SUBSET S : s # {} => pick(s) \in s
    OBVIOUS
  <2> HIDE DEF pick
  <2> QED
    BY <2>1, <2>2, <2>3, FS_RemoveElement
<1> HIDE DEF pick
<1>1. Bad = {}
  <2> SUFFICES ASSUME Bad # {} PROVE FALSE
    OBVIOUS
  <2>1. PICK m \in Nat : (~\E f : Sums(m, f)) /\ \A n \in Nat : n < m => \E f : Sums(n, f)
    <3>1. PICK m \in Bad : \A y \in Bad : m <= y
      <4> HIDE DEF Bad
      <4>1. Bad \in SUBSET Nat
        BY DEF Bad
      <4> QED
        BY <4>1, LeastNatural
    <3> HIDE DEF Sums
    <3> QED
      BY <3>1
  <2>2. CASE m = 0
    <3>1. Sized(m) = {{}}
      BY <1>0, <2>2
    <3> DEFINE f == [s \in {{}} |-> 0]
    <3>2. Sums(m, f)
      BY <3>1
    <3> QED
      BY <2>1, <3>2
  <2>3. CASE m # 0
    <3>1. PICK f : Sums(m - 1, f)
      <4> HIDE DEF Sums
      <4>1. m - 1 \in Nat /\ m - 1 < m
        BY <2>3
      <4> QED
        BY <2>1, <4>1
    <3> DEFINE g == [s \in Sized(m) |-> Value(f, s)]
    <3>2. \A s \in Sized(m) : s # {} => /\ pick(s) \in s /\ pick(s) \in S
                                         /\ s \ {pick(s)} \in Sized(m - 1)
                                         /\ s \ {pick(s)} \in Sized(m)
      BY <1>0
    <3>3. \A s \in Sized(m) : Value(f, s) \in Nat
      BY <3>1, <3>2
    <3>4. \A s \in Sized(m - 1) : s \in Sized(m) /\ f[s] = Value(f, s)
      BY <1>0, <3>1
    <3> HIDE DEF Sized
    <3>5. \A s \in Sized(m - 1) : g[s] = f[s]
      BY <3>4
    <3>6. \A s \in Sized(m) : g[s] = Value(g, s)
      BY <3>2, <3>5
    <3>7. Sums(m, g)
      BY <3>3, <3>6
    <3> QED
      BY <2>1, <3>7
  <2> QED
    BY <2>2, <2>3
<1>2. Sized(Cardinality(S)) = SUBSET S /\ Cardinality(S) \in Nat
  BY FS_Subset, FS_CardinalityType
<1>3. PICK f : f \in [SUBSET S -> Nat] /\ \A s \in SUBSET S : f[s] = Value(f, s)
  <2>1. PICK f : Sums(Cardinality(S), f)
    <3> HIDE DEF Sums
    <3> QED
      BY <1>1, <1>2
  <2> QED
    BY <1>2, <2>1
<1> DEFINE iter == CHOOSE g : g = [s \in SUBSET S |-> Value(g, s)]
<1>4. iter = [s \in SUBSET S |-> Value(iter, s)]
  <2>1. f = [s \in SUBSET S |-> Value(f, s)]
    BY <1>3
  <2> QED
    BY <2>1
<1>5. \A s \in SUBSET S : iter[s] = f[s]
  <2> DEFINE Off == {n \in Nat : \E s \in SUBSET S : Cardinality(s) = n /\ iter[s] # f[s]}
  <2> HIDE DEF iter
  <2>1. Off = {}
    <3> SUFFICES ASSUME Off # {} PROVE FALSE
      OBVIOUS
    <3>1. PICK m \in Off : \A y \in Off : m <= y
      <4>1. Off \in SUBSET Nat
        OBVIOUS
      <4> HIDE DEF Off
      <4> QED
        BY <4>1, LeastNatural
    <3>2. PICK s \in SUBSET S : Cardinality(s) = m /\ iter[s] # f[s]
      BY <3>1
    <3>3. s # {}
      BY <1>3, <1>4, <3>2
    <3>4. s \ {pick(s)} \in SUBSET S /\ Cardinality(s \ {pick(s)}) = m - 1 /\ m - 1 \in Nat /\ m \in Nat
      BY <1>0, <3>2, <3>3
    <3>5. iter[s \ {pick(s)}] = f[s \ {pick(s)}]
      BY <3>1, <3>4
    <3> QED
      BY <1>3, <1>4, <3>2, <3>3, <3>5, ZenonT(40)
  <2> QED
    BY <1>0, <2>1
<1>6. Penalty(row, S) = iter[S]
  BY DEF Penalty, MapThenSumSet, MapThenFoldSet, pick
<1> QED
  BY <1>3, <1>5, <1>6

\* The score columns of a row of typed cells have their types.
LEMMA ScoreIsTyped ==
    ASSUME NEW row \in [Problems -> Cells]
    PROVE  ScoreOf(row) \in Scores
<1>1. IsFiniteSet(Problems)
  <2> DEFINE f == [in \in SubmitInputs |-> in[2]]
  <2>1. f \in Surjection(SubmitInputs, Problems)
    BY DEF Problems, Surjection
  <2> QED
    BY <2>1, ContestAssumption, FS_Surjection
<1>2. Accepted(row) \in SUBSET Problems /\ \A p \in Accepted(row) : row[p].penalty \in Nat
  BY DEF Accepted, Cells
<1>3. IsFiniteSet(Accepted(row))
  BY <1>1, <1>2, FS_Subset
<1>4. Cardinality(Accepted(row)) \in Nat
  BY <1>3, FS_CardinalityType
<1>5. Penalty(row, Accepted(row)) \in Nat
  BY <1>2, <1>3, PenaltyIsNatural
<1> QED
  BY <1>4, <1>5 DEF ScoreOf, Scores

\* The times of a submission lie between its insert and the present.  It has both once it
\* is judged; a result row keeps the first through a rejudge.
Timely(x) ==
    /\ DOMAIN x = SubmissionColumns
    /\ <<x.user, x.problem>> \in SubmitInputs
    /\ x.status \in Terminal \cup {"queued"}
    /\ x.at \in Nat /\ x.at <= now
    /\ x.first \in (x.at .. now) \cup {None} /\ x.judged \in (x.at .. now) \cup {None}
    /\ x.status \in Terminal => x.first # None /\ x.judged # None
    /\ x.row # None => x.first # None /\ x.row.status \in Terminal /\ x.row.at \in x.at .. now

\* A cell shows an acceptance of the past.
Shown(cell) == cell \in Cells /\ (cell.status = "accepted" => cell.at \in 0 .. now)

\* What transaction t is about to write.
Typed(t) ==
    /\ t.todo \subseteq DOMAIN t.writes /\ t.skipped \subseteq DOMAIN subs
    /\ DOMAIN t.writes \subseteq DOMAIN subs
    /\ \A s \in DOMAIN t.writes : Timely(t.writes[s])
    /\ \A x \in DOMAIN t.cells : Shown(t.cells[x])

ContestTyped ==
    /\ {"status", "revision"} \subseteq DOMAIN contest
    /\ contest.status \in Statuses \cup {None} /\ contest.revision \in Nat
    /\ IF Created
       THEN /\ DOMAIN contest = Columns \cup {"owner", "revision"}
            /\ {contest.start, contest.freeze, contest.end} \subseteq Int
            /\ contest.problems \subseteq Problems
            /\ validateContestInput(contest)
       ELSE subs = <<>> /\ admitted = {}

SubsTyped ==
    /\ \E S : subs \in Seq(S)
    /\ \A s \in DOMAIN subs : Timely(subs[s])
    /\ batch \subseteq DOMAIN subs /\ unprojected \subseteq DOMAIN subs

ResultsTyped ==
    /\ results \in [Users -> [Problems -> Cells]]
    /\ \A u \in Users, p \in Problems : Shown(results[u][p])

RegTyped == DOMAIN reg \subseteq Users /\ reg \in [DOMAIN reg -> Scores]

TxTyped == \A w \in Workers : Typed(tx[w]) /\ (tx[w].todo = {} => Idle(w))

TypeInv ==
    /\ now \in 0 .. MaxNow /\ staff \in [Users -> SUBSET ContestRoles] /\ admitted \subseteq SubmitInputs
    /\ ContestTyped /\ SubsTyped /\ ResultsTyped /\ RegTyped /\ TxTyped

LEMMA TypeInvIsTypeOK == TypeInv => TypeOK
<1> SUFFICES ASSUME TypeInv PROVE TypeOK
  OBVIOUS
<1>1. ASSUME NEW s \in DOMAIN subs
      PROVE  /\ <<subs[s].user, subs[s].problem>> \in SubmitInputs
             /\ subs[s].status \in Terminal \cup {"queued"}
             /\ subs[s].status \in Terminal =>
                    {subs[s].first, subs[s].judged} \subseteq subs[s].at .. now
  BY DEF TypeInv, SubsTyped, Timely
<1> QED
  BY <1>1 DEF TypeInv, TypeOK, ContestTyped, SubsTyped, ResultsTyped, RegTyped, TxTyped

\* Time passes and submissions arrive: what was typed stays typed.
LEMMA TimelyStays ==
    ASSUME now \in Nat, now' \in Nat, now <= now', NEW x, Timely(x)
    PROVE  Timely(x)'
<1>1. \A a, y : a \in Nat /\ y \in a .. now => y \in a .. now'
  OBVIOUS
<1> QED
  BY <1>1 DEF Timely

LEMMA ShownStays ==
    ASSUME now \in Nat, now' \in Nat, now <= now', NEW x, Shown(x)
    PROVE  Shown(x)'
BY DEF Shown

LEMMA TypedStays ==
    ASSUME now \in Nat, now' \in Nat, now <= now', DOMAIN subs \subseteq DOMAIN subs', NEW t, Typed(t)
    PROVE  Typed(t)'
<1>1. \A s \in DOMAIN t.writes : Timely(t.writes[s])'
  BY TimelyStays DEF Typed
<1>2. \A x \in DOMAIN t.cells : Shown(t.cells[x])'
  BY ShownStays DEF Typed
<1> QED
  BY <1>1, <1>2 DEF Typed

\* A rebuilt cell that the table accepts has its types, and an acceptance in it is that of
\* a submission.
LEMMA ProjectionIsShown ==
    ASSUME now \in Nat, NEW start \in Int, NEW all, NEW n \in Nat, DOMAIN all \subseteq 1 .. n,
           \A s \in DOMAIN all : Timely(all[s]), NEW u, NEW p, NEW cell,
           cell = buildContestProblemProjection(start,
                      ListContestProblemSubmissionsForProjection(all, u, p)),
           cell.penalty >= 0
    PROVE  Shown(cell)
<1> DEFINE rows == ListContestProblemSubmissionsForProjection(all, u, p)
           accepted == {s \in DOMAIN rows : rows[s].status = "accepted"}
           best == Min(accepted)
           counted == {s \in DOMAIN rows : accepted = {} \/ s <= best}
           attempts == Cardinality(counted)
<1>1. DOMAIN rows \subseteq DOMAIN all /\ \A s \in DOMAIN rows : rows[s] = all[s]
  BY DEF ListContestProblemSubmissionsForProjection, Restrict
<1> HIDE DEF rows
<1>2. accepted \in SUBSET Nat /\ accepted \subseteq DOMAIN rows /\ counted \in SUBSET (1 .. n)
  BY <1>1
<1>3. accepted # {} => best \in accepted
  <2> HIDE DEF accepted
  <2> QED
    BY <1>2, LeastNatural
<1>4. attempts \in Nat
  <2>1. IsFiniteSet(1 .. n)
    BY FS_Interval
  <2>2. IsFiniteSet(counted)
    <3> HIDE DEF counted
    <3> QED
      BY <1>2, <2>1, FS_Subset
  <2> HIDE DEF counted
  <2> QED
    BY <2>2, FS_CardinalityType
<1>5. accepted # {} => rows[best].at \in 0 .. now
  <2> HIDE DEF accepted, best
  <2>1. \A x : Timely(x) => x.at \in Nat /\ x.at <= now
    BY DEF Timely
  <2>2. \A s \in DOMAIN all : all[s].at \in 0 .. now
    BY <2>1
  <2> QED
    BY <1>1, <1>2, <1>3, <2>2
<1>6. cell = IF DOMAIN rows = {} THEN NoCell
             ELSE IF accepted = {} THEN [NoCell EXCEPT !.status = "attempted", !.attempts = attempts]
             ELSE [status |-> "accepted", attempts |-> attempts, at |-> rows[best].at,
                   penalty |-> rows[best].at - start + (attempts - 1) * 20]
  BY DEF buildContestProblemProjection, rows
<1> HIDE DEF attempts, best, accepted
<1>7. CASE DOMAIN rows = {} \/ accepted = {}
  <2>1. cell = NoCell \/ cell = [NoCell EXCEPT !.status = "attempted", !.attempts = attempts]
    BY <1>6, <1>7
  <2>2. \/ cell = [status |-> "none", attempts |-> 0, at |-> None, penalty |-> 0]
        \/ cell = [status |-> "attempted", attempts |-> attempts, at |-> None, penalty |-> 0]
    BY <2>1 DEF NoCell
  <2> QED
    BY <1>4, <2>2 DEF Shown, Cells
<1>8. CASE DOMAIN rows # {} /\ accepted # {}
  <2>1. rows[best].at - start + (attempts - 1) * 20 \in Int
    BY <1>4, <1>5, <1>8
  <2> QED
    BY <1>4, <1>5, <1>6, <1>8, <2>1 DEF Shown, Cells
<1> QED
  BY <1>7, <1>8

\* Every statement leaves a submission timely.
LEMMA StatementsAreTimely ==
    ASSUME now \in Nat, NEW sub, Timely(sub)
    PROVE  /\ \A v \in Verdicts, judged \in sub.at .. now :
                  Timely(UpsertSubmissionResult(UpdateSubmissionStatus(sub, v, judged), v))
           /\ Timely(MarkSubmissionSystemError(sub))
           /\ Timely(PrepareSubmissionForRejudge(sub))
           /\ sub.row # None => Timely(RestoreSubmissionAfterCanceledRejudge(sub))
<1> USE DEF SubmissionColumns
<1>0. /\ \A v \in Verdicts : v \in Terminal
      /\ None \notin Nat /\ sub.at .. now \subseteq Nat /\ sub.at \in Nat /\ now \in sub.at .. now
      /\ {"system_error", "queued"} \subseteq Terminal \cup {"queued"} /\ "queued" \notin Terminal
  <2>1. None \notin Nat /\ Verdicts \subseteq {"accepted", "wrong_answer"}
    BY ContestAssumption
  <2>2. sub.at \in Nat /\ sub.at <= now
    BY DEF Timely
  <2> QED
    BY <2>1, <2>2 DEF Terminal
<1>1. ASSUME NEW v \in Verdicts, NEW judged \in sub.at .. now
      PROVE  Timely(UpsertSubmissionResult(UpdateSubmissionStatus(sub, v, judged), v))
  <2> DEFINE a == UpdateSubmissionStatus(sub, v, judged)
             b == UpsertSubmissionResult(a, v)
  <2>1. /\ DOMAIN a = SubmissionColumns /\ a.user = sub.user /\ a.problem = sub.problem
        /\ a.at = sub.at /\ a.status = v /\ a.judged = Coalesce(sub.judged, judged)
        /\ a.first = Coalesce(sub.first, judged) /\ a.row = sub.row
    BY DEF UpdateSubmissionStatus, Timely
  <2> HIDE DEF a
  <2>2. /\ DOMAIN b = SubmissionColumns /\ b.user = a.user /\ b.problem = a.problem
        /\ b.at = a.at /\ b.status = v /\ b.judged = a.judged /\ b.first = a.first
        /\ b.row = [status |-> v, at |-> now]
    BY <2>1 DEF UpsertSubmissionResult
  <2> HIDE DEF b
  <2>3. b.judged \in sub.at .. now /\ b.first \in sub.at .. now
    BY <2>1, <2>2 DEF Coalesce, Timely
  <2>4. b.row.status = v /\ b.row.at = now
    BY <2>2
  <2>5. Timely(b)
    BY <1>0, <2>1, <2>2, <2>3, <2>4 DEF Timely
  <2> QED
    BY <2>5 DEF a, b
<1>2. Timely(MarkSubmissionSystemError(sub))
  <2> DEFINE b == MarkSubmissionSystemError(sub)
  <2>1. /\ DOMAIN b = SubmissionColumns /\ b.user = sub.user /\ b.problem = sub.problem
        /\ b.at = sub.at /\ b.status = "system_error" /\ b.judged = Coalesce(sub.judged, now)
        /\ b.first = Coalesce(sub.first, now) /\ b.row = sub.row
    BY DEF MarkSubmissionSystemError, Timely
  <2> HIDE DEF b
  <2>2. b.judged \in sub.at .. now /\ b.first \in sub.at .. now
    BY <1>0, <2>1 DEF Coalesce, Timely
  <2>3. Timely(b)
    BY <1>0, <2>1, <2>2 DEF Timely
  <2> QED
    BY <2>3 DEF b
<1>3. Timely(PrepareSubmissionForRejudge(sub))
  <2> DEFINE b == PrepareSubmissionForRejudge(sub)
  <2>1. /\ DOMAIN b = SubmissionColumns /\ b.user = sub.user /\ b.problem = sub.problem
        /\ b.at = sub.at /\ b.status = "queued" /\ b.judged = None
        /\ b.first = sub.first /\ b.row = sub.row
    BY DEF PrepareSubmissionForRejudge, Timely
  <2> HIDE DEF b
  <2>3. Timely(b)
    BY <1>0, <2>1 DEF Timely
  <2> QED
    BY <2>3 DEF b
<1>4. ASSUME sub.row # None
      PROVE  Timely(RestoreSubmissionAfterCanceledRejudge(sub))
  <2> DEFINE b == RestoreSubmissionAfterCanceledRejudge(sub)
  <2>1. /\ DOMAIN b = SubmissionColumns /\ b.user = sub.user /\ b.problem = sub.problem
        /\ b.at = sub.at /\ b.status = sub.row.status /\ b.judged = Coalesce(sub.judged, sub.row.at)
        /\ b.first = sub.first /\ b.row = sub.row
    BY DEF RestoreSubmissionAfterCanceledRejudge, Timely
  <2> HIDE DEF b
  <2>2. b.judged \in sub.at .. now /\ sub.first \in sub.at .. now /\ sub.row.status \in Terminal
    BY <1>0, <1>4, <2>1 DEF Coalesce, Timely
  <2>3. Timely(b)
    BY <1>0, <1>4, <2>1, <2>2 DEF Timely
  <2> QED
    BY <2>3 DEF b
<1> QED
  BY <1>1, <1>2, <1>3, <1>4

\* Every step of a transaction leaves it with typed writes.
Delivers(w) == \E t : Good(t) /\ Apart(w, t) /\ Typed(t) /\ Proceed(w, t)

LEMMA VisitDelivers ==
    ASSUME TypeInv, Created, NEW w \in Workers, NEW t, Good(t), Apart(w, t), Typed(t), t.pc = "lock",
           t.todo # {}, Visit(w, t)
    PROVE  Delivers(w)
<1>1. PICK n \in Nat : DOMAIN subs = 1 .. n
  <2>1. PICK S : subs \in Seq(S)
    BY DEF TypeInv, SubsTyped
  <2> QED
    BY <2>1
<1>2. now \in Nat
  BY ContestAssumption DEF TypeInv
<1>3. CASE Proceed(w, Skipped(t))
  <2> DEFINE r == Skipped(t)
             T == Target(t)
  <2>1. T \in t.todo
    <3>1. t.todo \in SUBSET Nat
      BY <1>1 DEF Typed
    <3> QED
      BY <3>1, LeastNatural DEF Target
  <2> HIDE DEF T
  <2>2. /\ r.todo = t.todo \ {T} /\ r.skipped = t.skipped \cup {T} /\ r.cells = t.cells
        /\ r.writes = t.writes
    BY DEF Good, Skipped, NoTx, T
  <2>3. Good(r) /\ Apart(w, r)
    BY SkippedIsGood DEF Apart
  <2> HIDE DEF r
  <2>4. Typed(r)
    BY <2>1, <2>2 DEF Typed
  <2> QED
    BY <1>3, <2>3, <2>4 DEF Delivers, r
<1>4. ASSUME NEW u, NEW p, NEW cell, Registered(u), \A x \in Workers \ {w} : u \notin tx[x].held,
             cell = buildContestProblemProjection(contest.start,
                        ListContestProblemSubmissionsForProjection(SeenSubs(t), u, p)),
             cell.penalty >= 0, Proceed(w, Rebuilt(t, u, p, cell))
      PROVE  Delivers(w)
  <2> DEFINE r == Rebuilt(t, u, p, cell)
             all == SeenSubs(t)
  <2>1. DOMAIN all \subseteq 1 .. n /\ \A s \in DOMAIN all : Timely(all[s])
    BY <1>1 DEF SeenSubs, TypeInv, SubsTyped, Typed
  <2>2. contest.start \in Int
    BY DEF TypeInv, ContestTyped
  <2>3. Shown(cell)
    <3> HIDE DEF all
    <3>1. cell = buildContestProblemProjection(contest.start,
                     ListContestProblemSubmissionsForProjection(all, u, p))
      BY <1>4 DEF all
    <3> QED
      BY <1>2, <1>4, <2>1, <2>2, <3>1, ProjectionIsShown
  <2>4. /\ r.todo = t.todo /\ r.skipped = t.skipped /\ r.writes = t.writes
        /\ r.cells = UpsertContestProblemResult(t, u, p, cell) /\ r.held = t.held \cup {u}
    BY RebuiltColumns DEF Good
  <2>5. Good(r)
    BY <1>4, RebuiltIsGood
  <2> HIDE DEF r
  <2>6. Apart(w, r)
    BY <1>4, <2>4 DEF Apart
  <2>7. \A x \in DOMAIN r.cells : Shown(r.cells[x])
    BY <2>3, <2>4 DEF Typed, UpsertContestProblemResult
  <2>8. Typed(r)
    BY <2>4, <2>7 DEF Typed
  <2> QED
    BY <1>4, <2>5, <2>6, <2>8 DEF Delivers, r
<1> QED
  BY <1>3, <1>4, VisitEffect

LEMMA BeginDelivers ==
    ASSUME TypeInv, Created, NEW w \in Workers, NEW writes, NEW onBatch, DOMAIN writes # {},
           DOMAIN writes \subseteq DOMAIN subs, \A s \in DOMAIN writes : Timely(writes[s]),
           Begin(w, writes, onBatch)
    PROVE  Delivers(w)
<1>o. PICK t : t = Opened(writes, onBatch)
  OBVIOUS
<1>1. Visit(w, t)
  BY <1>o DEF Begin, Opened
<1>2. /\ Good(t) /\ Apart(w, t) /\ t.todo = DOMAIN writes /\ t.writes = writes
      /\ t.cells = <<>> /\ t.skipped = {} /\ t.pc = "lock"
  <2>1. /\ Good(Opened(writes, onBatch)) /\ Apart(w, Opened(writes, onBatch))
        /\ Opened(writes, onBatch).todo = DOMAIN writes
        /\ Opened(writes, onBatch).writes = writes
        /\ Opened(writes, onBatch).cells = <<>>
        /\ Opened(writes, onBatch).skipped = {}
        /\ Opened(writes, onBatch).pc = "lock"
    BY OpenedIsGood, ZenonT(40)
  <2> QED
    BY <1>o, <2>1
<1>3. Typed(t) /\ t.todo # {}
  BY <1>2 DEF Typed
<1> QED
  BY <1>1, <1>2, <1>3, VisitDelivers

LEMMA IncrementDelivers ==
    ASSUME ScoreInv, TypeInv, NEW w \in Workers, IncrementContestScoreRevision(w)
    PROVE  Delivers(w)
<1>1. PICK t : t = tx[w]
  OBVIOUS
<1> DEFINE r == Incremented(t)
<1>2. Good(t) /\ Apart(w, t) /\ Typed(t) /\ Proceed(w, r)
  BY <1>1 DEF ScoreInv, TypeInv, TxTyped, IncrementContestScoreRevision, Incremented
<1>3. /\ Good(r) /\ Apart(w, r) /\ r.cells = t.cells /\ r.writes = t.writes
      /\ r.skipped = t.skipped /\ r.todo = t.todo \ {Target(t)}
  BY <1>2, IncrementedIsGood
<1> HIDE DEF r
<1>4. Typed(r)
  BY <1>2, <1>3 DEF Typed
<1> QED
  BY <1>2, <1>3, <1>4 DEF Delivers

LEMMA TransactionDelivers ==
    ASSUME ScoreInv, TypeInv, NEW w \in Workers, Transaction(w)
    PROVE  Delivers(w) \/ Rollback(w)
<1>0. now \in Nat /\ \A s \in DOMAIN subs : Timely(subs[s]) /\ Created
  BY ContestAssumption DEF TypeInv, SubsTyped, ContestTyped
<1>1. ASSUME NEW s \in DOMAIN subs, NEW v \in Verdicts, NEW judged \in 0 .. MaxNow,
             completeSubmissionAttempt(w, s, v, judged)
      PROVE  Delivers(w)
  <2> DEFINE writes == [x \in {s} |->
                UpsertSubmissionResult(UpdateSubmissionStatus(subs[x], v, judged), v)]
  <2>1. judged \in subs[s].at .. now /\ Begin(w, writes, "finish")
    BY <1>1 DEF completeSubmissionAttempt
  <2>2. DOMAIN writes = {s} /\ Timely(writes[s])
    BY <1>0, <2>1, StatementsAreTimely
  <2> HIDE DEF writes
  <2> QED
    BY <1>0, <2>1, <2>2, BeginDelivers
<1>2. ASSUME NEW s \in DOMAIN subs, markSubmissionSystemError(w, s)
      PROVE  Delivers(w)
  <2> DEFINE writes == [x \in {s} |-> MarkSubmissionSystemError(subs[x])]
  <2>1. DOMAIN writes = {s} /\ Timely(writes[s])
    BY <1>0, StatementsAreTimely
  <2>2. Begin(w, writes, "finish")
    BY <1>2 DEF markSubmissionSystemError
  <2> HIDE DEF writes
  <2> QED
    BY <1>0, <2>1, <2>2, BeginDelivers
<1>3. ASSUME NEW s \in DOMAIN subs, RecoverDeadJudgeTask(w, s)
      PROVE  Delivers(w)
  <2> DEFINE writes == [x \in {s} |-> PrepareSubmissionForRejudge(subs[x])]
  <2>1. DOMAIN writes = {s} /\ Timely(writes[s])
    BY <1>0, StatementsAreTimely
  <2>2. Begin(w, writes, "keep")
    BY <1>3 DEF RecoverDeadJudgeTask
  <2> HIDE DEF writes
  <2> QED
    BY <1>0, <2>1, <2>2, BeginDelivers
<1>4. CASE HandleCreateRejudgeBatch(w)
  <2> DEFINE S == ListEligibleContestSubmissionsForRejudge
             writes == [s \in S |-> PrepareSubmissionForRejudge(subs[s])]
  <2>1. S # {} /\ Begin(w, writes, "open")
    BY <1>4 DEF HandleCreateRejudgeBatch, CreateBatch, CreateRejudgeBatch
  <2>2. S \subseteq DOMAIN subs
    BY DEF ListEligibleContestSubmissionsForRejudge
  <2> HIDE DEF S
  <2>3. DOMAIN writes = S /\ \A s \in S : Timely(writes[s])
    BY <1>0, <2>2, StatementsAreTimely
  <2> HIDE DEF writes
  <2> QED
    BY <1>0, <2>1, <2>2, <2>3, BeginDelivers
<1>5. CASE HandleCancelRejudgeBatch(w)
  <2>1. PICK u \in Users, queued \in SUBSET batch : CancelBatch(w, u, queued)
    BY <1>5 DEF HandleCancelRejudgeBatch
  <2>4. queued \subseteq DOMAIN subs
    BY DEF TypeInv, SubsTyped
  <2> DEFINE writes == [s \in queued |-> RestoreSubmissionAfterCanceledRejudge(subs[s])]
  <2>2. queued # {} /\ Begin(w, writes, "finish") /\ \A s \in queued : subs[s].row # None
    BY <2>1 DEF CancelBatch, CancelRejudgeBatch
  <2>3. DOMAIN writes = queued /\ \A s \in queued : Timely(writes[s])
    BY <1>0, <2>2, <2>4, StatementsAreTimely
  <2> HIDE DEF writes
  <2> QED
    BY <1>0, <2>2, <2>3, <2>4, BeginDelivers
<1>6. CASE NextTarget(w)
  <2>1. /\ Good(tx[w]) /\ Apart(w, tx[w]) /\ Typed(tx[w]) /\ tx[w].pc = "lock"
        /\ tx[w].todo # {} /\ Visit(w, tx[w])
    BY <1>6 DEF NextTarget, ScoreInv, TypeInv, TxTyped
  <2>2. Created
    BY <1>0, <2>1 DEF Typed
  <2> QED
    BY <2>1, <2>2, VisitDelivers
<1> QED
  BY <1>1, <1>2, <1>3, <1>4, <1>5, <1>6, IncrementDelivers DEF Transaction

LEMMA MoveKeepsTypes ==
    ASSUME ScoreInv, TypeInv, NEW w \in Workers, NEW t, Typed(t), t.todo # {} \/ t = NoTx,
           tx' = [tx EXCEPT ![w] = t],
           UNCHANGED <<contest, now, staff, reg, admitted, subs, batch, results, unprojected>>
    PROVE  TypeInv'
<1>1. tx'[w] = t /\ \A x \in Workers \ {w} : tx'[x] = tx[x]
  BY DEF ScoreInv, Tables
<1>2. \A x : Typed(x)' <=> Typed(x)
  BY DEF Typed, Timely, Shown
<1>3. TxTyped'
  BY <1>1, <1>2 DEF TypeInv, TxTyped, Idle
<1>4. ContestTyped' /\ RegTyped'
  BY DEF TypeInv, ContestTyped, RegTyped, Created
<1>5. SubsTyped' /\ ResultsTyped'
  BY DEF TypeInv, SubsTyped, ResultsTyped, Timely, Shown
<1> QED
  BY <1>3, <1>4, <1>5 DEF TypeInv

LEMMA CommitKeepsTypes ==
    ASSUME ScoreInv, ScoreInv', TypeInv, NEW w \in Workers, NEW t, Good(t), Typed(t), t.todo = {},
           tx' = [tx EXCEPT ![w] = NoTx], Commit(t), UNCHANGED <<now, staff, admitted>>
    PROVE  TypeInv'
<1>1. tx'[w] = NoTx /\ \A x \in Workers \ {w} : tx'[x] = tx[x]
  BY DEF ScoreInv, Tables
<1>2. /\ DOMAIN subs' = DOMAIN subs /\ subs' = SeenSubs(t)
      /\ \A s \in DOMAIN subs : subs'[s] = IF s \in DOMAIN t.writes THEN t.writes[s] ELSE subs[s]
  BY DEF Commit, SeenSubs
<1>3. \A x : (Typed(x)' <=> Typed(x)) /\ (Timely(x)' <=> Timely(x)) /\ (Shown(x)' <=> Shown(x))
  BY <1>2 DEF Typed, Timely, Shown
<1>4. TxTyped'
  <2>1. Typed(NoTx) /\ tx'[w] = NoTx
    BY <1>1 DEF Typed, NoTx
  <2> QED
    BY <1>1, <1>3, <2>1 DEF TypeInv, TxTyped, Idle
<1>5. SubsTyped'
  <2>1. PICK S : subs \in Seq(S)
    BY DEF TypeInv, SubsTyped
  <2>2. DOMAIN subs = 1 .. Len(subs) /\ Len(subs) \in Nat
    BY <2>1
  <2> DEFINE R == {SeenSubs(t)[s] : s \in DOMAIN subs}
  <2>3. SeenSubs(t) \in [1 .. Len(subs) -> R]
    BY <2>2 DEF SeenSubs
  <2> HIDE DEF R
  <2>4. subs' \in Seq(R)
    BY <1>2, <2>2, <2>3
  <2>5. \A s \in DOMAIN subs' : Timely(subs'[s])
    BY <1>2 DEF TypeInv, SubsTyped, Typed
  <2>6. batch' \subseteq DOMAIN subs' /\ unprojected' \subseteq DOMAIN subs'
    BY <1>2 DEF Commit, TypeInv, SubsTyped, Typed
  <2>7. \A s \in DOMAIN subs' : Timely(subs[s])'
    BY <1>3, <2>5
  <2> QED
    BY <2>4, <2>6, <2>7 DEF SubsTyped
<1>6. ResultsTyped'
  <2>1. \A u \in Users, p \in Problems : Shown(SeenRow(t, u)[p])
    BY DEF SeenRow, Typed, TypeInv, ResultsTyped
  <2>2. results' = [u \in Users |-> SeenRow(t, u)]
    BY DEF Commit
  <2>3. \A u \in Users : SeenRow(t, u) \in [Problems -> Cells]
    BY <2>1 DEF SeenRow, Shown
  <2>4. \A u \in Users, p \in Problems : Shown(results[u][p])'
    BY <1>3, <2>1, <2>2
  <2> QED
    BY <2>2, <2>3, <2>4 DEF ResultsTyped
<1>7. RegTyped'
  <2>1. DOMAIN reg' = DOMAIN reg /\ reg' = [u \in DOMAIN reg' |-> reg'[u]]
    BY DEF Commit
  <2>2. \A u \in DOMAIN reg' : u \in Users /\ reg'[u] = ScoreOf(results'[u])
    BY <2>1 DEF TypeInv, RegTyped, ScoreInv, ScoreIsSum, Registered
  <2>3. \A u \in DOMAIN reg' : reg'[u] \in Scores
    BY <1>6, <2>2, ScoreIsTyped DEF ResultsTyped
  <2> QED
    BY <2>1, <2>2, <2>3 DEF RegTyped
<1>8. ContestTyped'
  <2>1. contest' = [contest EXCEPT !.revision = @ + t.bumps] /\ t.bumps \in Nat
    BY DEF Commit, Good, Counted
  <2>2. /\ DOMAIN contest' = DOMAIN contest /\ contest'.revision = contest.revision + t.bumps
        /\ contest'.status = contest.status
        /\ \A c \in Columns : c \in DOMAIN contest => contest'[c] = contest[c]
    BY <2>1 DEF TypeInv, ContestTyped, Columns
  <2>3. Created' <=> Created
    BY <2>2 DEF Created
  <2>4. CASE Created
    <3>1. /\ contest'.status = contest.status /\ contest'.visibility = contest.visibility
          /\ contest'.invite = contest.invite /\ contest'.start = contest.start
          /\ contest'.freeze = contest.freeze /\ contest'.end = contest.end
          /\ contest'.problems = contest.problems
      BY <2>2, <2>4 DEF TypeInv, ContestTyped, Columns
    <3>2. validateContestInput(contest) => validateContestInput(contest')
      BY <3>1 DEF validateContestInput
    <3> QED
      BY <2>1, <2>2, <2>3, <2>4, <3>1, <3>2 DEF TypeInv, ContestTyped
  <2>5. CASE ~Created
    <3>1. subs' = <<>> /\ admitted' = {}
      BY <1>2, <2>5 DEF TypeInv, ContestTyped, SeenSubs
    <3> QED
      BY <2>1, <2>2, <2>3, <2>5, <3>1 DEF TypeInv, ContestTyped
  <2> QED
    BY <2>4, <2>5
<1> QED
  BY <1>4, <1>5, <1>6, <1>7, <1>8 DEF TypeInv

LEMMA TransactionKeepsTypes ==
    ASSUME ScoreInv, TypeInv, NEW w \in Workers, Transaction(w)
    PROVE  TypeInv'
<1>1. ASSUME NEW t, Good(t), Apart(w, t), Typed(t), Proceed(w, t)
      PROVE  TypeInv'
  <2>1. CASE t.todo = {}
    BY <1>1, <2>1, CommitKeepsTypes, TransactionKeepsScores DEF Proceed
  <2>2. CASE t.todo # {}
    BY <1>1, <2>2, MoveKeepsTypes DEF Proceed
  <2> QED
    BY <2>1, <2>2
<1>2. CASE Rollback(w)
  <2>1. Typed(NoTx)
    BY DEF Typed, NoTx
  <2> QED
    BY <1>2, <2>1, MoveKeepsTypes DEF Rollback
<1> QED
  BY <1>1, <1>2, TransactionDelivers DEF Delivers

\* A step that touches none of the rows.
LEMMA QuietRows ==
    ASSUME TypeInv, now' \in 0 .. MaxNow, now <= now', UNCHANGED <<subs, batch, results, tx, unprojected>>
    PROVE  SubsTyped' /\ ResultsTyped' /\ TxTyped'
<1>1. now \in Nat /\ now' \in Nat
  BY ContestAssumption DEF TypeInv
<1>2. \A x : (Timely(x) => Timely(x)') /\ (Shown(x) => Shown(x)') /\ (Typed(x) => Typed(x)')
  BY <1>1, TimelyStays, ShownStays, TypedStays
<1>3. SubsTyped'
  BY <1>2 DEF TypeInv, SubsTyped
<1>4. ResultsTyped'
  BY <1>2 DEF TypeInv, ResultsTyped
<1>5. TxTyped'
  BY <1>2 DEF TypeInv, TxTyped, Idle
<1> QED
  BY <1>3, <1>4, <1>5

LEMMA QuietKeepsTypes ==
    ASSUME TypeInv, now' \in 0 .. MaxNow, now <= now',
           UNCHANGED <<contest, staff, reg, admitted, subs, batch, results, tx, unprojected>>
    PROVE  TypeInv'
<1>1. ContestTyped' /\ RegTyped'
  BY DEF TypeInv, ContestTyped, RegTyped, Created
<1> QED
  BY <1>1, QuietRows DEF TypeInv

LEMMA AuthoringKeepsTypes ==
    ASSUME TypeInv, NEW u \in Users, Authoring(u)
    PROVE  TypeInv'
<1>1. UNCHANGED <<now, reg, admitted, subs, batch, results, tx, unprojected>>
  BY DEF Authoring, HandleCreateContest, CreateContest, HandleUpdateContest, UpdateContest,
     HandleDeleteContest, DeleteContest, HandleGrantRole, GrantContestRole, HandleRevokeRole,
     RevokeContestRole
<1>2. now \in Int /\ now <= now' /\ now' \in 0 .. MaxNow
  BY <1>1, ContestAssumption DEF TypeInv
<1>3. SubsTyped' /\ ResultsTyped' /\ TxTyped' /\ RegTyped'
  BY <1>1, <1>2, QuietRows DEF TypeInv, RegTyped
<1>4. CASE HandleCreateContest(u)
  <2>1. PICK in \in CreateInputs : CreateContest(u, in)
    BY <1>4 DEF HandleCreateContest
  <2>2. /\ DOMAIN contest' = Columns \cup {"owner", "revision"} /\ contest'.revision = 0
        /\ contest'.status = in.status /\ contest'.visibility = in.visibility
        /\ contest'.invite = in.invite /\ contest'.start = in.start
        /\ contest'.freeze = in.freeze /\ contest'.end = in.end
        /\ validateContestInput(in) /\ staff' = staff /\ contest'.problems = in.problems
    BY <2>1 DEF CreateContest, InsertContest, Columns
  <2>3. {in.start, in.freeze, in.end} \subseteq Int /\ in.problems \subseteq Problems
    BY ContestAssumption DEF Columns
  <2>4. validateContestInput(contest') /\ contest'.status \in Statuses
    BY <2>2 DEF validateContestInput
  <2>5. Created'
    BY <2>4, ContestAssumption DEF Created
  <2>6. ContestTyped'
    BY <2>2, <2>3, <2>4, <2>5 DEF ContestTyped, Columns
  <2> QED
    BY <1>1, <1>2, <1>3, <2>2, <2>6 DEF TypeInv
<1>5. CASE HandleUpdateContest(u)
  <2>1. PICK in \in UpdateInputs : UpdateContest(u, in)
    BY <1>5 DEF HandleUpdateContest
  <2>2. Created /\ DOMAIN contest = Columns \cup {"owner", "revision"}
    BY <2>1 DEF UpdateContest, TypeInv, ContestTyped
  <2>3. /\ DOMAIN contest' = DOMAIN contest /\ validateContestInput(contest') /\ staff' = staff
        /\ \A c \in DOMAIN contest : contest'[c] = IF c \in DOMAIN in THEN in[c] ELSE contest[c]
    BY <2>1 DEF UpdateContest, UpdatedContest
  <2>4. contest'.revision = contest.revision
    BY <2>2, <2>3, ContestAssumption DEF Columns
  <2>5. {contest'.start, contest'.freeze, contest'.end} \subseteq Int /\ contest'.problems \subseteq Problems
    BY <2>2, <2>3, ContestAssumption DEF TypeInv, ContestTyped, Columns
  <2>6. contest'.status \in Statuses
    BY <2>3 DEF validateContestInput
  <2>7. Created'
    BY <2>6, ContestAssumption DEF Created
  <2>8. ContestTyped'
    BY <2>2, <2>3, <2>4, <2>5, <2>6, <2>7 DEF TypeInv, ContestTyped
  <2> QED
    BY <1>1, <1>2, <1>3, <2>3, <2>8 DEF TypeInv
<1>6. CASE HandleDeleteContest(u)
  <2>1. /\ Created /\ DOMAIN contest = Columns \cup {"owner", "revision"} /\ staff' = staff
        /\ contest' = [contest EXCEPT !.status = "archived"]
    BY <1>6 DEF HandleDeleteContest, DeleteContest, ArchivedContest, TypeInv, ContestTyped
  <2>2. /\ DOMAIN contest' = DOMAIN contest /\ contest'.status = "archived"
        /\ contest'.visibility = contest.visibility /\ contest'.invite = contest.invite
        /\ contest'.start = contest.start /\ contest'.freeze = contest.freeze
        /\ contest'.end = contest.end /\ contest'.revision = contest.revision
        /\ contest'.problems = contest.problems
    BY <2>1 DEF Columns
  <2>3. validateContestInput(contest) => validateContestInput(contest')
    BY <2>2 DEF validateContestInput, Statuses
  <2>4. Created'
    BY <2>2, ContestAssumption DEF Created, Statuses
  <2>5. ContestTyped'
    BY <2>1, <2>2, <2>3, <2>4 DEF TypeInv, ContestTyped, Statuses
  <2> QED
    BY <1>1, <1>2, <1>3, <2>1, <2>5 DEF TypeInv
<1>7. CASE HandleGrantRole(u) \/ HandleRevokeRole(u)
  <2>1. contest' = contest
    BY <1>7 DEF HandleGrantRole, GrantContestRole, HandleRevokeRole, RevokeContestRole
  <2>2. ContestTyped'
    BY <1>1, <2>1 DEF TypeInv, ContestTyped, Created
  <2>3. PICK in \in GrantInputs : \/ staff' = [staff EXCEPT ![in[1]] = @ \cup {in[2]}]
                                  \/ staff' = [staff EXCEPT ![in[1]] = @ \ {in[2]}]
    BY <1>7 DEF HandleGrantRole, GrantContestRole, InsertAssignment, HandleRevokeRole,
       RevokeContestRole, RevokeAssignment
  <2>4. in[1] \in Users /\ in[2] \in ContestRoles
    BY ContestAssumption
  <2>5. staff' \in [Users -> SUBSET ContestRoles]
    BY <2>3, <2>4 DEF TypeInv
  <2> QED
    BY <1>1, <1>2, <1>3, <2>2, <2>5 DEF TypeInv
<1> QED
  BY <1>4, <1>5, <1>6, <1>7 DEF Authoring

LEMMA ContestantKeepsTypes ==
    ASSUME TypeInv, Contestant
    PROVE  TypeInv'
<1>0. now \in Int /\ now <= now /\ now \in Nat
  BY ContestAssumption DEF TypeInv
<1>1. ASSUME NEW u \in Registrants, HandleRegister(u)
      PROVE  TypeInv'
  <2>1. /\ UNCHANGED <<contest, now, staff, admitted, subs, batch, results, tx, unprojected>>
        /\ reg' = CreateContestRegistration(u)
    BY <1>1 DEF HandleRegister, Register
  <2>2. RegTyped'
    BY <2>1, ContestAssumption DEF TypeInv, RegTyped, CreateContestRegistration, Scores
  <2>3. ContestTyped'
    BY <2>1 DEF TypeInv, ContestTyped, Created
  <2>4. SubsTyped' /\ ResultsTyped' /\ TxTyped'
    BY <1>0, <2>1, QuietRows DEF TypeInv
  <2> QED
    BY <2>1, <2>2, <2>3, <2>4 DEF TypeInv
<1>2. ASSUME NEW in \in SubmitInputs, ValidateSubmission(in[1], in[2])
      PROVE  TypeInv'
  <2>1. /\ UNCHANGED <<contest, now, staff, reg, subs, batch, results, tx, unprojected>>
        /\ admitted' = admitted \cup {<<in[1], in[2]>>}
    BY <1>2 DEF ValidateSubmission
  <2>2. <<in[1], in[2]>> = in
    BY ContestAssumption
  <2>3. Created
    BY <1>2, ContestAssumption DEF ValidateSubmission, Created, Statuses
  <2>4. ContestTyped' /\ RegTyped'
    BY <2>1, <2>3 DEF TypeInv, ContestTyped, RegTyped, Created
  <2>5. SubsTyped' /\ ResultsTyped' /\ TxTyped'
    BY <1>0, <2>1, QuietRows DEF TypeInv
  <2> QED
    BY <2>1, <2>2, <2>4, <2>5 DEF TypeInv
<1>3. ASSUME NEW in \in SubmitInputs, CreateSubmission(in[1], in[2])
      PROVE  TypeInv'
  <2> DEFINE sub == [user |-> in[1], problem |-> in[2], at |-> now, status |-> "queued",
                     judged |-> None, first |-> None, row |-> None]
  <2>1. /\ UNCHANGED <<contest, now, staff, reg, batch, results, tx, unprojected>>
        /\ subs' = Append(subs, sub) /\ admitted' \subseteq admitted /\ admitted # {}
    BY <1>3 DEF CreateSubmission, InsertSubmission
  <2>2. <<in[1], in[2]>> \in SubmitInputs
    BY ContestAssumption
  <2>3. Timely(sub)
    BY <1>0, <2>2 DEF Timely, SubmissionColumns, Terminal
  <2> HIDE DEF sub
  <2>4. PICK S : subs \in Seq(S)
    BY DEF TypeInv, SubsTyped
  <2>5. /\ subs' \in Seq(S \cup {sub}) /\ DOMAIN subs \subseteq DOMAIN subs'
        /\ \A s \in DOMAIN subs' : subs'[s] = sub \/ (s \in DOMAIN subs /\ subs'[s] = subs[s])
    BY <2>1, <2>4
  <2>6. \A x : (Timely(x) => Timely(x)') /\ (Shown(x) => Shown(x)') /\ (Typed(x) => Typed(x)')
    BY <1>0, <2>1, <2>5, TimelyStays, ShownStays, TypedStays
  <2>7. SubsTyped'
    <3>1. \A s \in DOMAIN subs' : Timely(subs'[s])
      BY <2>3, <2>5 DEF TypeInv, SubsTyped
    <3>2. \A s \in DOMAIN subs' : Timely(subs[s])'
      BY <2>6, <3>1
    <3> QED
      BY <2>1, <2>5, <3>2 DEF TypeInv, SubsTyped
  <2>8. ResultsTyped'
    BY <2>1, <2>6 DEF TypeInv, ResultsTyped
  <2>9. TxTyped'
    BY <2>1, <2>6 DEF TypeInv, TxTyped, Idle
  <2>10. ContestTyped' /\ RegTyped'
    BY <2>1 DEF TypeInv, ContestTyped, RegTyped, Created
  <2> QED
    BY <2>1, <2>7, <2>8, <2>9, <2>10 DEF TypeInv
<1> QED
  BY <1>1, <1>2, <1>3 DEF Contestant, HandleCreateSubmission

LEMMA TypeInit == Init => TypeInv
<1> SUFFICES ASSUME Init PROVE TypeInv
  OBVIOUS
<1>1. /\ now \in 0 .. MaxNow /\ staff \in [Users -> SUBSET ContestRoles]
      /\ admitted \subseteq SubmitInputs
  BY ContestAssumption DEF Init
<1>2. ContestTyped
  BY DEF Init, ContestTyped, Created
<1>3. SubsTyped
  <2>1. subs = <<>> /\ DOMAIN subs = {} /\ subs \in Seq({}) /\ batch = {} /\ unprojected = {}
    BY DEF Init
  <2> QED
    BY <2>1 DEF SubsTyped
<1>4. ResultsTyped
  <2>1. Shown(NoCell) /\ NoCell \in Cells
    BY DEF Shown, NoCell, Cells
  <2> QED
    BY <2>1 DEF Init, ResultsTyped
<1>5. RegTyped
  BY DEF Init, RegTyped
<1>6. TxTyped
  BY DEF Init, TxTyped, Typed, Idle, NoTx
<1> QED
  BY <1>1, <1>2, <1>3, <1>4, <1>5, <1>6 DEF TypeInv

LEMMA TypeStep ==
    ASSUME ScoreInv, TypeInv, [Next]_vars
    PROVE  TypeInv'
<1>0. now \in Int /\ now <= now /\ now \in 0 .. MaxNow
  BY ContestAssumption DEF TypeInv
<1>1. CASE Tick
  <2>1. now' \in 0 .. MaxNow /\ now <= now'
    BY <1>0, <1>1, ContestAssumption DEF Tick
  <2> QED
    BY <1>1, <2>1, QuietKeepsTypes DEF Tick
<1>2. CASE UNCHANGED vars
  BY <1>0, <1>2, QuietKeepsTypes DEF vars
<1>3. ASSUME NEW g \in Generators, Generator(g)
      PROVE  TypeInv'
  <2>1. UNCHANGED <<contest, now, staff, reg, admitted, subs, batch, results, tx, unprojected>>
    BY <1>3 DEF Generator, GenerateDueScoreSnapshots, ReadRows, ReadSubmissions, ReadResults,
       CreateScoreSnapshot, GenTo
  <2> QED
    BY <1>0, <2>1, QuietKeepsTypes
<1> QED
  BY <1>1, <1>2, <1>3, AuthoringKeepsTypes, ContestantKeepsTypes, TransactionKeepsTypes DEF Next

\* The rows keep their types for every value of the constants: no statement writes a
\* verdict without both of its times, none puts a time before the submission or after the
\* present, every penalty that reaches a cell or a score is a natural number, and a
\* transaction without targets left has committed.
THEOREM ContestTypes == Spec => []TypeOK
<1>1. TypeInv => TypeOK
  BY TypeInvIsTypeOK
<1> QED
  BY <1>1, ScoreInit, ScoreStep, TypeInit, TypeStep, PTL DEF Spec

-----------------------------------------------------------------------------
(* Submission rows.                                                        *)

\* What no statement changes in a submission: whose it is, when it was made and, once
\* there is one, the time of its first verdict.
Preserves(x, sub) ==
    /\ x.user = sub.user /\ x.problem = sub.problem /\ x.at = sub.at
    /\ sub.first # None => x.first = sub.first

\* A transaction writes rows that are there and that no other one writes.
Holds(w, t) ==
    \A s \in DOMAIN t.writes :
        /\ s \in DOMAIN subs /\ Preserves(t.writes[s], subs[s])
        /\ \A x \in Workers \ {w} : s \notin DOMAIN tx[x].writes

RowInv == \A w \in Workers : Holds(w, tx[w])

\* What a step does to the submissions.
Lasting == \A s \in DOMAIN subs : s \in DOMAIN subs' /\ Preserves(subs'[s], subs[s])

LEMMA StatementsPreserve ==
    ASSUME NEW sub, DOMAIN sub = SubmissionColumns
    PROVE  /\ \A v, judged : Preserves(UpsertSubmissionResult(UpdateSubmissionStatus(sub, v, judged), v), sub)
           /\ Preserves(MarkSubmissionSystemError(sub), sub)
           /\ Preserves(PrepareSubmissionForRejudge(sub), sub)
           /\ Preserves(RestoreSubmissionAfterCanceledRejudge(sub), sub)
<1> USE DEF SubmissionColumns
<1>1. ASSUME NEW v, NEW judged
      PROVE  Preserves(UpsertSubmissionResult(UpdateSubmissionStatus(sub, v, judged), v), sub)
  <2>1. PICK a : a = UpdateSubmissionStatus(sub, v, judged)
    OBVIOUS
  <2>2. /\ DOMAIN a = SubmissionColumns /\ a.user = sub.user /\ a.problem = sub.problem
        /\ a.at = sub.at /\ a.first = Coalesce(sub.first, judged)
    BY <2>1 DEF UpdateSubmissionStatus
  <2>3. PICK b : b = UpsertSubmissionResult(a, v)
    OBVIOUS
  <2>4. b.user = a.user /\ b.problem = a.problem /\ b.at = a.at /\ b.first = a.first
    BY <2>2, <2>3 DEF UpsertSubmissionResult
  <2> QED
    BY <2>1, <2>2, <2>3, <2>4 DEF Preserves, Coalesce
<1>2. Preserves(MarkSubmissionSystemError(sub), sub)
  BY DEF MarkSubmissionSystemError, Preserves, Coalesce
<1>3. Preserves(PrepareSubmissionForRejudge(sub), sub)
  BY DEF PrepareSubmissionForRejudge, Preserves
<1>4. Preserves(RestoreSubmissionAfterCanceledRejudge(sub), sub)
  BY DEF RestoreSubmissionAfterCanceledRejudge, Preserves
<1> QED
  BY <1>1, <1>2, <1>3, <1>4

\* Every step of a transaction leaves it with rows of its own.
Locks(w) == \E t : Holds(w, t) /\ Proceed(w, t)

LEMMA VisitLocks ==
    ASSUME NEW w \in Workers, NEW t, DOMAIN t = DOMAIN NoTx, Holds(w, t), Visit(w, t)
    PROVE  Locks(w)
<1>1. \A r : r.writes = t.writes => Holds(w, r)
  BY DEF Holds
<1>2. CASE Proceed(w, Skipped(t))
  <2>1. Skipped(t).writes = t.writes
    BY DEF Skipped, NoTx
  <2> QED
    BY <1>1, <1>2, <2>1 DEF Locks
<1>3. ASSUME NEW u, NEW p, NEW cell, Proceed(w, Rebuilt(t, u, p, cell))
      PROVE  Locks(w)
  <2>1. Rebuilt(t, u, p, cell).writes = t.writes
    BY RebuiltColumns
  <2> QED
    BY <1>1, <1>3, <2>1 DEF Locks
<1> QED
  BY <1>2, <1>3, VisitEffect

\* A transaction opens under the locks of the submissions it is to write.
LEMMA BeginLocks ==
    ASSUME NEW w \in Workers, NEW writes, NEW onBatch, LockSubmissionByID(w, DOMAIN writes),
           \A s \in DOMAIN writes : s \in DOMAIN subs /\ Preserves(writes[s], subs[s]),
           Begin(w, writes, onBatch)
    PROVE  Locks(w)
<1>o. PICK t : t = Opened(writes, onBatch)
  OBVIOUS
<1>1. Visit(w, t)
  BY <1>o DEF Begin, Opened
<1>2. t.writes = writes /\ DOMAIN t = DOMAIN NoTx
  <2>1. Opened(writes, onBatch).writes = writes /\ Good(Opened(writes, onBatch))
    BY OpenedIsGood, ZenonT(40)
  <2> QED
    BY <1>o, <2>1 DEF Good
<1>3. \A s \in DOMAIN writes : \A x \in Workers : s \notin DOMAIN tx[x].writes
  BY DEF LockSubmissionByID
<1>4. Holds(w, t)
  BY <1>2, <1>3 DEF Holds
<1> QED
  BY <1>1, <1>2, <1>4, VisitLocks

LEMMA TransactionLocks ==
    ASSUME ScoreInv, TypeInv, RowInv, NEW w \in Workers, Transaction(w)
    PROVE  Locks(w) \/ Rollback(w)
<1>0. \A s \in DOMAIN subs : DOMAIN subs[s] = SubmissionColumns
  BY DEF TypeInv, SubsTyped, Timely
<1>1. ASSUME NEW s \in DOMAIN subs, NEW v \in Verdicts, NEW judged \in 0 .. MaxNow,
             completeSubmissionAttempt(w, s, v, judged)
      PROVE  Locks(w)
  <2> DEFINE writes == [x \in {s} |->
                UpsertSubmissionResult(UpdateSubmissionStatus(subs[x], v, judged), v)]
  <2>1. LockSubmissionByID(w, {s}) /\ Begin(w, writes, "finish")
    BY <1>1 DEF completeSubmissionAttempt
  <2>2. DOMAIN writes = {s} /\ Preserves(writes[s], subs[s])
    BY <1>0, StatementsPreserve
  <2> HIDE DEF writes
  <2> QED
    BY <2>1, <2>2, BeginLocks
<1>2. ASSUME NEW s \in DOMAIN subs, markSubmissionSystemError(w, s)
      PROVE  Locks(w)
  <2> DEFINE writes == [x \in {s} |-> MarkSubmissionSystemError(subs[x])]
  <2>1. LockSubmissionByID(w, {s}) /\ Begin(w, writes, "finish")
    BY <1>2 DEF markSubmissionSystemError
  <2>2. DOMAIN writes = {s} /\ Preserves(writes[s], subs[s])
    BY <1>0, StatementsPreserve
  <2> HIDE DEF writes
  <2> QED
    BY <2>1, <2>2, BeginLocks
<1>3. ASSUME NEW s \in DOMAIN subs, RecoverDeadJudgeTask(w, s)
      PROVE  Locks(w)
  <2> DEFINE writes == [x \in {s} |-> PrepareSubmissionForRejudge(subs[x])]
  <2>1. LockSubmissionByID(w, {s}) /\ Begin(w, writes, "keep")
    BY <1>3 DEF RecoverDeadJudgeTask
  <2>2. DOMAIN writes = {s} /\ Preserves(writes[s], subs[s])
    BY <1>0, StatementsPreserve
  <2> HIDE DEF writes
  <2> QED
    BY <2>1, <2>2, BeginLocks
<1>4. CASE HandleCreateRejudgeBatch(w)
  <2> DEFINE S == ListEligibleContestSubmissionsForRejudge
             writes == [s \in S |-> PrepareSubmissionForRejudge(subs[s])]
  <2>1. LockSubmissionByID(w, S) /\ Begin(w, writes, "open")
    BY <1>4 DEF HandleCreateRejudgeBatch, CreateBatch, CreateRejudgeBatch
  <2>2. S \subseteq DOMAIN subs
    BY DEF ListEligibleContestSubmissionsForRejudge
  <2> HIDE DEF S
  <2>3. DOMAIN writes = S /\ \A s \in S : Preserves(writes[s], subs[s])
    BY <1>0, <2>2, StatementsPreserve
  <2> HIDE DEF writes
  <2> QED
    BY <2>1, <2>2, <2>3, BeginLocks
<1>5. CASE HandleCancelRejudgeBatch(w)
  <2>1. PICK u \in Users, queued \in SUBSET batch : CancelBatch(w, u, queued)
    BY <1>5 DEF HandleCancelRejudgeBatch
  <2> DEFINE writes == [s \in queued |-> RestoreSubmissionAfterCanceledRejudge(subs[s])]
  <2>2. queued \subseteq DOMAIN subs
    BY DEF TypeInv, SubsTyped
  <2>3. LockSubmissionByID(w, queued) /\ Begin(w, writes, "finish")
    BY <2>1 DEF CancelBatch, CancelRejudgeBatch
  <2>4. DOMAIN writes = queued /\ \A s \in queued : Preserves(writes[s], subs[s])
    BY <1>0, <2>2, StatementsPreserve
  <2> HIDE DEF writes
  <2> QED
    BY <2>2, <2>3, <2>4, BeginLocks
<1>6. CASE NextTarget(w)
  BY <1>6, VisitLocks DEF NextTarget, ScoreInv, Good, RowInv
<1>7. CASE IncrementContestScoreRevision(w)
  <2>1. PICK t : t = tx[w]
    OBVIOUS
  <2>2. Good(t) /\ Apart(w, t) /\ Holds(w, t) /\ Proceed(w, Incremented(t))
    BY <1>7, <2>1 DEF ScoreInv, RowInv, IncrementContestScoreRevision, Incremented
  <2>3. Incremented(t).writes = t.writes
    BY <2>2, IncrementedIsGood
  <2> QED
    BY <2>2, <2>3 DEF Locks, Holds
<1> QED
  BY <1>1, <1>2, <1>3, <1>4, <1>5, <1>6, <1>7 DEF Transaction

\* Submissions arrive at the end; those that are there stay as they are.
LEMMA ArrivalKeepsRows ==
    ASSUME RowInv, UNCHANGED tx, \A s \in DOMAIN subs : s \in DOMAIN subs' /\ subs'[s] = subs[s]
    PROVE  RowInv' /\ Lasting
BY DEF RowInv, Holds, Lasting, Preserves

LEMMA MoveKeepsRows ==
    ASSUME ScoreInv, RowInv, NEW w \in Workers, NEW t, Holds(w, t), tx' = [tx EXCEPT ![w] = t], UNCHANGED subs
    PROVE  RowInv' /\ Lasting
<1>1. tx'[w] = t /\ \A x \in Workers \ {w} : tx'[x] = tx[x]
  BY DEF ScoreInv, Tables
<1>2. ASSUME NEW x \in Workers
      PROVE  Holds(x, tx[x])'
  <2>1. CASE x = w
    BY <1>1, <2>1 DEF Holds, Preserves
  <2>2. CASE x # w
    <3>1. Holds(x, tx[x]) /\ tx'[x] = tx[x]
      BY <1>1, <2>2 DEF RowInv
    <3>2. \A s \in DOMAIN tx[x].writes : s \notin DOMAIN t.writes
      BY <2>2 DEF Holds
    <3> QED
      BY <1>1, <3>1, <3>2 DEF Holds, Preserves
  <2> QED
    BY <2>1, <2>2
<1> QED
  BY <1>2 DEF RowInv, Lasting, Preserves

LEMMA CommitKeepsRows ==
    ASSUME ScoreInv, RowInv, NEW w \in Workers, NEW t, Holds(w, t), tx' = [tx EXCEPT ![w] = NoTx], Commit(t)
    PROVE  RowInv' /\ Lasting
<1>1. tx'[w] = NoTx /\ \A x \in Workers \ {w} : tx'[x] = tx[x]
  BY DEF ScoreInv, Tables
<1>2. /\ DOMAIN subs' = DOMAIN subs
      /\ \A s \in DOMAIN subs : subs'[s] = IF s \in DOMAIN t.writes THEN t.writes[s] ELSE subs[s]
  BY DEF Commit, SeenSubs
<1>3. Lasting
  BY <1>2 DEF Lasting, Holds, Preserves
<1>4. ASSUME NEW x \in Workers
      PROVE  Holds(x, tx[x])'
  <2>1. CASE x = w
    <3>1. DOMAIN tx'[x].writes = {}
      BY <1>1, <2>1 DEF NoTx
    <3> QED
      BY <3>1 DEF Holds
  <2>2. CASE x # w
    <3>1. Holds(x, tx[x]) /\ tx'[x] = tx[x]
      BY <1>1, <2>2 DEF RowInv
    <3>2. \A s \in DOMAIN tx[x].writes : s \notin DOMAIN t.writes
      BY <2>2 DEF Holds
    <3>3. \A y \in Workers : \A s \in DOMAIN tx'[y].writes : s \in DOMAIN tx[y].writes
      BY <1>1 DEF NoTx
    <3> QED
      BY <1>2, <3>1, <3>2, <3>3 DEF Holds, Preserves
  <2> QED
    BY <2>1, <2>2
<1> QED
  BY <1>3, <1>4 DEF RowInv

LEMMA RowInit == Init => RowInv
<1> SUFFICES ASSUME Init, NEW w \in Workers PROVE Holds(w, tx[w])
  BY DEF RowInv
<1>1. DOMAIN tx[w].writes = {}
  BY DEF Init, NoTx
<1> QED
  BY <1>1 DEF Holds

LEMMA RowStep ==
    ASSUME ScoreInv, TypeInv, RowInv, [Next]_vars
    PROVE  RowInv' /\ Lasting
<1>1. ASSUME UNCHANGED <<subs, tx>>
      PROVE  RowInv' /\ Lasting
  BY <1>1, ArrivalKeepsRows
<1>2. ASSUME NEW u \in Users, Authoring(u)
      PROVE  UNCHANGED <<subs, tx>>
  BY <1>2 DEF Authoring, HandleCreateContest, CreateContest, HandleUpdateContest, UpdateContest,
     HandleDeleteContest, DeleteContest, HandleGrantRole, GrantContestRole, HandleRevokeRole,
     RevokeContestRole
<1>3. ASSUME NEW g \in Generators, Generator(g)
      PROVE  UNCHANGED <<subs, tx>>
  BY <1>3 DEF Generator, GenerateDueScoreSnapshots, ReadRows, ReadSubmissions, ReadResults,
     CreateScoreSnapshot, GenTo
<1>4. CASE Contestant
  <2>1. ASSUME NEW in \in SubmitInputs, CreateSubmission(in[1], in[2])
        PROVE  RowInv' /\ Lasting
    <3>1. PICK sub : subs' = Append(subs, sub)
      BY <2>1 DEF CreateSubmission, InsertSubmission
    <3>2. PICK S : subs \in Seq(S)
      BY DEF TypeInv, SubsTyped
    <3>3. \A s \in DOMAIN subs : s \in DOMAIN subs' /\ subs'[s] = subs[s]
      BY <3>1, <3>2
    <3> QED
      BY <2>1, <3>3, ArrivalKeepsRows DEF CreateSubmission
  <2>2. ASSUME NEW u \in Registrants, HandleRegister(u)
        PROVE  UNCHANGED <<subs, tx>>
    BY <2>2 DEF HandleRegister, Register
  <2>3. ASSUME NEW in \in SubmitInputs, ValidateSubmission(in[1], in[2])
        PROVE  UNCHANGED <<subs, tx>>
    BY <2>3 DEF ValidateSubmission
  <2> QED
    BY <1>1, <1>4, <2>1, <2>2, <2>3 DEF Contestant, HandleCreateSubmission
<1>5. ASSUME NEW w \in Workers, Transaction(w)
      PROVE  RowInv' /\ Lasting
  <2>1. ASSUME NEW t, Holds(w, t), Proceed(w, t)
        PROVE  RowInv' /\ Lasting
    <3>1. CASE t.todo = {}
      BY <2>1, <3>1, CommitKeepsRows DEF Proceed
    <3>2. CASE t.todo # {}
      BY <2>1, <3>2, MoveKeepsRows DEF Proceed
    <3> QED
      BY <3>1, <3>2
  <2>2. CASE Rollback(w)
    <3>1. DOMAIN NoTx.writes = {}
      BY DEF NoTx
    <3>2. Holds(w, NoTx)
      BY <3>1 DEF Holds
    <3> QED
      BY <2>2, <3>2, MoveKeepsRows DEF Rollback
  <2> QED
    BY <1>5, <2>1, <2>2, TransactionLocks DEF Locks
<1>6. CASE Tick \/ UNCHANGED vars
  BY <1>1, <1>6 DEF Tick, vars
<1> QED
  BY <1>1, <1>2, <1>3, <1>4, <1>5, <1>6 DEF Next

-----------------------------------------------------------------------------
(* The freeze.                                                             *)

LEMMA GreatestIndex ==
    ASSUME NEW n \in Nat, NEW T \in SUBSET (1 .. n), T # {}
    PROVE  Max(T) \in T
<1> DEFINE D == {n - i : i \in T}
<1>1. D \in SUBSET Nat /\ D # {}
  <2>1. \A i \in T : n - i \in Nat
    OBVIOUS
  <2> QED
    BY <2>1
<1>2. PICK m \in D : \A y \in D : m <= y
  <2> HIDE DEF D
  <2> QED
    BY <1>1, LeastNatural
<1>3. PICK i \in T : m = n - i
  OBVIOUS
<1>4. \A j \in T : i >= j
  <2> SUFFICES ASSUME NEW j \in T PROVE i >= j
    OBVIOUS
  <2>1. n - i <= n - j
    BY <1>2, <1>3
  <2> QED
    BY <2>1
<1>5. \E x \in T : \A y \in T : x >= y
  BY <1>4
<1> QED
  BY <1>5 DEF Max

\* An accepted cell has the time of an accepted submission among its rows.
LEMMA ProjectionAt ==
    ASSUME NEW start, NEW rows, DOMAIN rows \subseteq Nat, NEW cell,
           cell = buildContestProblemProjection(start, rows)
    PROVE  /\ DOMAIN cell = DOMAIN NoCell
           /\ cell.status = "accepted" => \E s \in DOMAIN rows : cell.at = rows[s].at
<1> DEFINE accepted == {s \in DOMAIN rows : rows[s].status = "accepted"}
           best == Min(accepted)
           attempts == Cardinality({s \in DOMAIN rows : accepted = {} \/ s <= best})
           penalty == rows[best].at - start + (attempts - 1) * 20
<1>1. accepted # {} => best \in DOMAIN rows
  <2>1. accepted \in SUBSET Nat /\ accepted \subseteq DOMAIN rows
    OBVIOUS
  <2> HIDE DEF accepted
  <2> QED
    BY <2>1, LeastNatural
<1>2. cell = IF DOMAIN rows = {} THEN NoCell
             ELSE IF accepted = {} THEN [NoCell EXCEPT !.status = "attempted", !.attempts = attempts]
             ELSE [status |-> "accepted", attempts |-> attempts, at |-> rows[best].at,
                   penalty |-> penalty]
  BY DEF buildContestProblemProjection
<1> HIDE DEF accepted, best, attempts, penalty
<1>3. CASE DOMAIN rows = {} \/ accepted = {}
  <2>1. cell = NoCell \/ cell = [NoCell EXCEPT !.status = "attempted", !.attempts = attempts]
    BY <1>2, <1>3
  <2>2. \/ cell = [status |-> "none", attempts |-> 0, at |-> None, penalty |-> 0]
        \/ cell = [status |-> "attempted", attempts |-> attempts, at |-> None, penalty |-> 0]
    BY <2>1 DEF NoCell
  <2> QED
    BY <2>2 DEF NoCell
<1>4. CASE DOMAIN rows # {} /\ accepted # {}
  BY <1>1, <1>2, <1>4 DEF NoCell
<1> QED
  BY <1>3, <1>4

LEMMA ApplyKeepsTime ==
    ASSUME NEW cell, DOMAIN cell = DOMAIN NoCell
    PROVE  applyResultToCell(cell).status = cell.status /\ applyResultToCell(cell).at = cell.at
BY DEF applyResultToCell, NoCell

\* A submission of u to p at time t that was made and first judged before the freeze f.
OpenAt(f, u, p, t) ==
    \E s \in DOMAIN subs : /\ subs[s].user = u /\ subs[s].problem = p /\ subs[s].at = t
                           /\ subs[s].at < f /\ subs[s].first # None /\ subs[s].first <= f

\* What the cell of u and p may show on a board of that freeze, by its source.
Until(f, source, u, p, cell) ==
    cell.status = "accepted" => cell.at <= f /\ (source = "submissions" => OpenAt(f, u, p, cell.at))

\* A frozen board built from submissions counts the ones before the freeze.
LEMMA FrozenCellStops ==
    ASSUME NEW start, NEW freeze \in Int, NEW u, NEW p, NEW rows, DOMAIN rows \subseteq DOMAIN subs,
           DOMAIN rows \subseteq Nat,
           \A s \in DOMAIN rows : /\ rows[s] = subs[s] /\ subs[s].user = u /\ subs[s].problem = p
                                  /\ subs[s].at \in Nat /\ subs[s].first # None
    PROVE  Until(freeze, "submissions", u, p, frozenCell(start, freeze, rows))
<1> DEFINE open == {s \in DOMAIN rows : visible(rows[s], freeze)}
           seen == Restrict(rows, open)
           shown == buildContestProblemProjection(start, seen)
           hidden == Cardinality(DOMAIN rows \ open)
<1>1. frozenCell(start, freeze, rows) =
          IF shown.status # "accepted" /\ hidden > 0 THEN HiddenCell(hidden) ELSE applyResultToCell(shown)
  BY DEF frozenCell
<1>2. DOMAIN seen \subseteq DOMAIN rows /\ \A s \in DOMAIN seen : seen[s] = rows[s] /\ visible(rows[s], freeze)
  BY DEF Restrict
<1> HIDE DEF seen, hidden
<1>3. DOMAIN shown = DOMAIN NoCell /\ (shown.status = "accepted" => \E s \in DOMAIN seen : shown.at = seen[s].at)
  BY <1>2, ProjectionAt
<1> HIDE DEF shown
<1>4. Until(freeze, "submissions", u, p, applyResultToCell(shown))
  <2>1. applyResultToCell(shown).status = shown.status /\ applyResultToCell(shown).at = shown.at
    BY <1>3, ApplyKeepsTime
  <2>2. ASSUME shown.status = "accepted"
        PROVE  shown.at <= freeze /\ OpenAt(freeze, u, p, shown.at)
    <3>1. PICK s \in DOMAIN seen : shown.at = seen[s].at
      BY <1>3, <2>2
    <3>2. s \in DOMAIN rows /\ s \in DOMAIN subs /\ shown.at = subs[s].at /\ visible(subs[s], freeze)
      BY <1>2, <3>1
    <3> QED
      BY <3>2 DEF OpenAt, visible
  <2> QED
    BY <2>1, <2>2 DEF Until
<1>5. Until(freeze, "submissions", u, p, HiddenCell(hidden))
  BY DEF Until, HiddenCell, NoCell
<1> QED
  BY <1>1, <1>4, <1>5

\* A frozen board built from the results hides the acceptances after the freeze.
LEMMA FrozenResultStops ==
    ASSUME NEW freeze \in Int, NEW u, NEW p, NEW cell, Shown(cell), now \in Nat
    PROVE  Until(freeze, "results", u, p,
                 IF cell.at # None /\ cell.at > freeze THEN HiddenCell(cell.attempts)
                 ELSE applyResultToCell(cell))
<1>1. DOMAIN cell = DOMAIN NoCell
  BY DEF Shown, Cells, NoCell
<1>2. cell.status = "accepted" => cell.at \in Nat /\ cell.at # None
  BY ContestAssumption DEF Shown
<1>3. Until(freeze, "results", u, p, HiddenCell(cell.attempts))
  BY DEF Until, HiddenCell, NoCell
<1>4. ASSUME ~(cell.at # None /\ cell.at > freeze)
      PROVE  Until(freeze, "results", u, p, applyResultToCell(cell))
  BY <1>1, <1>2, <1>4, ApplyKeepsTime DEF Until
<1> QED
  BY <1>3, <1>4

Stops(f, source, board) ==
    \A v \in DOMAIN board : \A p \in DOMAIN board[v].cells : Until(f, source, v, p, board[v].cells[p])

\* A generator works with a freeze the contest had and with rows of the tables.
Freezing(r) ==
    r.todo # <<>> =>
        /\ r.contest.freeze \in Int
        /\ r.pc \in {"submissions", "results"} =>
               r.rows.users \subseteq Users /\ r.rows.problems \subseteq Problems
        /\ r.pc = "create" /\ Head(r.todo) = "frozen" => Stops(r.contest.freeze, r.source, r.board)

Frozen(snapshot) == Stops(snapshot.freeze, snapshot.source, snapshot.board)

FreezeInv ==
    /\ \A i \in Snapshots("frozen") : Frozen(snapshots[i])
    /\ \A g \in Generators : Freezing(gen[g])

\* What a board shows stays justified.
LEMMA StopsLast ==
    ASSUME Lasting, NEW f, NEW source, NEW board, Stops(f, source, board)
    PROVE  Stops(f, source, board)'
<1>1. ASSUME NEW u, NEW p, NEW t, OpenAt(f, u, p, t)
      PROVE  OpenAt(f, u, p, t)'
  BY <1>1 DEF OpenAt, Lasting, Preserves
<1> QED
  BY <1>1 DEF Stops, Until

\* A step that is not of a generator.
LEMMA FreezeKept ==
    ASSUME FreezeInv, Lasting, UNCHANGED <<gen, snapshots>>
    PROVE  FreezeInv'
<1>1. \A x : Frozen(x) => Frozen(x)'
  BY StopsLast DEF Frozen
<1>2. \A x : Freezing(x) => Freezing(x)'
  BY StopsLast DEF Freezing
<1>3. \A i \in Snapshots("frozen")' : Frozen(snapshots[i])'
  BY <1>1 DEF FreezeInv, Snapshots
<1>4. \A g \in Generators : Freezing(gen[g])'
  BY <1>2 DEF FreezeInv
<1> QED
  BY <1>3, <1>4 DEF FreezeInv

\* A generator's step.
LEMMA GenKeepsFreeze ==
    ASSUME FinalInv, FreezeInv, NEW g \in Generators, NEW r, Freezing(r), GenTo(g, r),
           \A i \in Snapshots("frozen")' : Frozen(snapshots'[i])
    PROVE  FreezeInv'
<1>1. /\ gen'[g] = r /\ \A x \in Generators \ {g} : gen'[x] = gen[x]
      /\ UNCHANGED subs
  BY DEF FinalInv, Readings, GenTo
<1>2. \A f, source, b : Stops(f, source, b)' <=> Stops(f, source, b)
  BY <1>1 DEF Stops, Until, OpenAt
<1>3. \A x : Freezing(x)' <=> Freezing(x)
  BY <1>1, <1>2 DEF Freezing
<1>4. \A x \in Generators : Freezing(gen'[x])
  BY <1>1 DEF FreezeInv
<1>5. \A x \in Generators : Freezing(gen[x])'
  BY <1>3, <1>4
<1>6. \A i \in Snapshots("frozen")' : Frozen(snapshots[i])'
  BY <1>2 DEF Frozen
<1> QED
  BY <1>5, <1>6 DEF FreezeInv

LEMMA ReadKeepsFreeze ==
    ASSUME FinalInv, FreezeInv, NEW g \in Generators, NEW r, Freezing(r), GenTo(g, r),
           UNCHANGED snapshots
    PROVE  FreezeInv'
<1>1. \A i \in Snapshots("frozen")' : Frozen(snapshots'[i])
  BY DEF FreezeInv, Snapshots
<1> QED
  BY <1>1, GenKeepsFreeze

\* Of a contest that exists, with the clock.
LEMMA Times ==
    ASSUME TypeInv, Created
    PROVE  /\ now \in Nat /\ contest.freeze \in Int /\ contest.end \in Int /\ contest.start \in Int
           /\ contest.problems \subseteq Problems
BY ContestAssumption DEF TypeInv, ContestTyped

LEMMA ListingKeepsFreeze ==
    ASSUME FinalInv, TypeInv, FreezeInv, NEW g \in Generators, GenerateDueScoreSnapshots(g)
    PROVE  FreezeInv'
<1> DEFINE todo == ListContestScoreSnapshotCandidates
           c == [revision |-> contest.revision, start |-> contest.start, freeze |-> contest.freeze]
           r == [NoGen EXCEPT !.todo = todo, !.contest = c]
<1>1. GenTo(g, r) /\ UNCHANGED snapshots
  BY DEF GenerateDueScoreSnapshots
<1>2. c.freeze \in Int
  <2>1. Created
    BY ContestAssumption DEF GenerateDueScoreSnapshots, ListContestScoreSnapshotCandidates, Created, Statuses
  <2> QED
    BY <2>1, Times
<1> HIDE DEF todo, c
<1>3. r.pc = "rows" /\ r.contest = c
  BY DEF NoGen
<1> HIDE DEF r
<1>4. Freezing(r)
  BY <1>2, <1>3 DEF Freezing
<1> QED
  BY <1>1, <1>4, ReadKeepsFreeze

LEMMA ReadRowsKeepsFreeze ==
    ASSUME FinalInv, TypeInv, FreezeInv, NEW g \in Generators, ReadRows(g)
    PROVE  FreezeInv'
<1> DEFINE x == gen[g]
           pc == IF Head(x.todo) = "frozen" THEN "submissions" ELSE "results"
           rows == [problems |-> ListContestProblems, users |-> {u \in Users : Registered(u)}]
           r == [x EXCEPT !.pc = pc, !.rows = rows]
<1>1. AtGen(g, "rows") /\ GenTo(g, r) /\ UNCHANGED snapshots
  BY DEF ReadRows
<1>2. Created /\ DOMAIN x = DOMAIN NoGen /\ x.todo # <<>> /\ Freezing(x)
  BY <1>1, ActiveGenerator DEF FreezeInv
<1>3. rows.users \subseteq Users /\ rows.problems \subseteq Problems
  BY <1>2 DEF TypeInv, ContestTyped
<1>4. pc # "create"
  OBVIOUS
<1> HIDE DEF rows, x, pc
<1>5. r.pc = pc /\ r.contest = x.contest /\ r.todo = x.todo /\ r.rows = rows
  BY <1>2 DEF NoGen
<1> HIDE DEF r
<1>6. Freezing(r)
  BY <1>2, <1>3, <1>4, <1>5 DEF Freezing
<1> QED
  BY <1>1, <1>6, ReadKeepsFreeze

LEMMA ReadSubmissionsKeepsFreeze ==
    ASSUME FinalInv, TypeInv, FreezeInv, NEW g \in Generators, ReadSubmissions(g)
    PROVE  FreezeInv'
<1> DEFINE x == gen[g]
           start == x.contest.start
           freeze == x.contest.freeze
           board == buildBoardFromSubmissions(start, freeze, x.rows)
           r == [x EXCEPT !.pc = "create", !.rows = None, !.source = "submissions", !.board = board]
           s == [x EXCEPT !.pc = "results"]
<1>1. AtGen(g, "submissions") /\ (GenTo(g, r) \/ GenTo(g, s)) /\ UNCHANGED snapshots
  BY DEF ReadSubmissions
<1>2. Created /\ DOMAIN x = DOMAIN NoGen /\ Freezing(x) /\ x.todo # <<>> /\ x.pc = "submissions"
  BY <1>1, ActiveGenerator DEF FreezeInv
<1>4. freeze \in Int
  BY <1>2 DEF Freezing
<1>5. Stops(freeze, "submissions", board)
  <2> DEFINE Rows(u, p) == ListContestProblemSubmissionsForProjection(subs, u, p)
  <2>1. ASSUME NEW u, NEW p
        PROVE  /\ DOMAIN Rows(u, p) \subseteq DOMAIN subs
               /\ \A i \in DOMAIN Rows(u, p) :
                      /\ Rows(u, p)[i] = subs[i] /\ subs[i].user = u /\ subs[i].problem = p
                      /\ subs[i].status \in Terminal
    BY DEF ListContestProblemSubmissionsForProjection, Restrict
  <2>2. /\ DOMAIN subs \subseteq Nat
        /\ \A i \in DOMAIN subs : subs[i].at \in Nat /\ (subs[i].status \in Terminal => subs[i].first # None)
    <3>1. PICK S : subs \in Seq(S)
      BY DEF TypeInv, SubsTyped
    <3>2. DOMAIN subs \subseteq Nat
      BY <3>1
    <3>3. \A y : Timely(y) => y.at \in Nat /\ (y.status \in Terminal => y.first # None)
      BY DEF Timely
    <3> QED
      BY <3>2, <3>3 DEF TypeInv, SubsTyped
  <2>3. ASSUME NEW u, NEW p
        PROVE  Until(freeze, "submissions", u, p, frozenCell(start, freeze, Rows(u, p)))
    <3>1. PICK rows : rows = Rows(u, p)
      OBVIOUS
    <3>2. /\ DOMAIN rows \subseteq DOMAIN subs /\ DOMAIN rows \subseteq Nat
          /\ \A i \in DOMAIN rows : /\ rows[i] = subs[i] /\ subs[i].user = u /\ subs[i].problem = p
                                     /\ subs[i].at \in Nat /\ subs[i].first # None
      <4> HIDE DEF Rows
      <4> QED
        BY <2>1, <2>2, <3>1
    <3> HIDE DEF Rows, start, freeze
    <3> QED
      BY <1>4, <3>1, <3>2, FrozenCellStops
  <2>4. \A u \in DOMAIN board : \A p \in DOMAIN board[u].cells :
            board[u].cells[p] = frozenCell(start, freeze, Rows(u, p))
    BY DEF buildBoardFromSubmissions, BoardOf
  <2> HIDE DEF board, Rows, start, freeze
  <2> QED
    BY <2>3, <2>4 DEF Stops
<1>3. x.rows.users \subseteq Users /\ x.rows.problems \subseteq Problems /\ freeze = x.contest.freeze
  BY <1>2 DEF Freezing
<1> HIDE DEF board, x, start, freeze
<1>6. /\ r.contest = x.contest /\ r.todo = x.todo /\ s.contest = x.contest /\ s.todo = x.todo
      /\ r.pc = "create" /\ s.pc = "results" /\ r.board = board /\ s.rows = x.rows
      /\ r.source = "submissions"
  BY <1>2 DEF NoGen
<1> HIDE DEF r, s
<1>7. Freezing(r) /\ Freezing(s)
  BY <1>2, <1>3, <1>4, <1>5, <1>6 DEF Freezing
<1> QED
  BY <1>1, <1>7, ReadKeepsFreeze

LEMMA ReadResultsKeepsFreeze ==
    ASSUME FinalInv, TypeInv, FreezeInv, NEW g \in Generators, ReadResults(g)
    PROVE  FreezeInv'
<1> DEFINE x == gen[g]
           freeze == x.contest.freeze
           board == buildBoardFromResults(Head(x.todo), freeze, x.rows, results)
           r == [x EXCEPT !.pc = "create", !.rows = None, !.source = "results", !.board = board]
<1>1. AtGen(g, "results") /\ GenTo(g, r) /\ UNCHANGED snapshots
  BY DEF ReadResults
<1>2. Created /\ DOMAIN x = DOMAIN NoGen /\ Freezing(x) /\ x.todo # <<>> /\ x.pc = "results"
  BY <1>1, ActiveGenerator DEF FreezeInv
<1>3. /\ freeze \in Int /\ freeze = x.contest.freeze
      /\ x.rows.users \subseteq Users /\ x.rows.problems \subseteq Problems
  BY <1>2 DEF Freezing
<1>4. now \in Nat
  BY <1>2, Times
<1>5. Head(x.todo) = "frozen" => Stops(freeze, "results", board)
  <2> SUFFICES ASSUME Head(x.todo) = "frozen" PROVE Stops(freeze, "results", board)
    OBVIOUS
  <2> DEFINE Cell(u, p) == IF results[u][p].at # None /\ results[u][p].at > freeze
                           THEN HiddenCell(results[u][p].attempts) ELSE applyResultToCell(results[u][p])
  <2>1. ASSUME NEW u \in Users, NEW p \in Problems
        PROVE  Until(freeze, "results", u, p, Cell(u, p))
    <3>1. PICK cell : cell = results[u][p]
      OBVIOUS
    <3>2. Shown(cell)
      BY <3>1 DEF TypeInv, ResultsTyped
    <3> HIDE DEF freeze
    <3>3. Until(freeze, "results", u, p, IF cell.at # None /\ cell.at > freeze
                                         THEN HiddenCell(cell.attempts) ELSE applyResultToCell(cell))
      BY <1>3, <1>4, <3>2, FrozenResultStops
    <3> QED
      BY <3>1, <3>3
  <2>2. DOMAIN board \subseteq Users /\ \A u \in DOMAIN board : DOMAIN board[u].cells \subseteq Problems
    BY <1>3 DEF buildBoardFromResults, BoardOf
  <2>3. \A u \in DOMAIN board : \A p \in DOMAIN board[u].cells : board[u].cells[p] = Cell(u, p)
    BY DEF buildBoardFromResults, BoardOf
  <2> HIDE DEF board, Cell, freeze
  <2> QED
    BY <1>3, <2>1, <2>2, <2>3 DEF Stops
<1> HIDE DEF board, x, freeze
<1>6. /\ r.contest = x.contest /\ r.todo = x.todo /\ r.pc = "create" /\ r.board = board
      /\ r.source = "results"
  BY <1>2 DEF NoGen
<1> HIDE DEF r
<1>7. Freezing(r)
  BY <1>2, <1>3, <1>5, <1>6 DEF Freezing
<1> QED
  BY <1>1, <1>7, ReadKeepsFreeze

LEMMA CreateKeepsFreeze ==
    ASSUME FinalInv, FreezeInv, NEW g \in Generators, CreateScoreSnapshot(g)
    PROVE  FreezeInv'
<1> DEFINE x == gen[g]
           rest == Tail(x.todo)
           snap == [kind |-> Head(x.todo), revision |-> x.contest.revision, board |-> x.board,
                    freeze |-> x.contest.freeze, source |-> x.source]
           s == [NoGen EXCEPT !.todo = rest, !.contest = x.contest]
           r == IF rest = <<>> THEN NoGen ELSE s
<1>1. /\ AtGen(g, "create") /\ GenTo(g, r)
      /\ snapshots' = snapshots \/ snapshots' = Append(snapshots, snap)
  BY DEF CreateScoreSnapshot, CreateContestScoreSnapshot, sourceRevision
<1>2. Freezing(x) /\ x.todo # <<>> /\ x.pc = "create"
  BY <1>1, ActiveGenerator DEF FreezeInv
<1>3. /\ snap.kind = Head(x.todo) /\ snap.board = x.board
      /\ snap.freeze = x.contest.freeze /\ snap.source = x.source
  OBVIOUS
<1> HIDE DEF x, rest, snap
<1>4. s.pc = "rows" /\ s.contest = x.contest
  BY DEF NoGen
<1> HIDE DEF s
<1>5. Freezing(r)
  <2>1. Freezing(NoGen)
    BY DEF Freezing, NoGen
  <2>2. Freezing(s)
    BY <1>2, <1>4 DEF Freezing
  <2> QED
    BY <2>1, <2>2
<1> HIDE DEF r
<1>6. \A i \in DOMAIN snapshots' : snapshots'[i] = snap \/ (i \in DOMAIN snapshots /\ snapshots'[i] = snapshots[i])
  <2>1. PICK S : snapshots \in Seq(S)
    BY DEF FinalInv, Stored
  <2> QED
    BY <1>1, <2>1
<1>7. \A i \in Snapshots("frozen")' : Frozen(snapshots'[i])
  <2> SUFFICES ASSUME NEW i \in DOMAIN snapshots', snapshots'[i].kind = "frozen"
               PROVE  Frozen(snapshots'[i])
    BY DEF Snapshots
  <2>1. CASE snapshots'[i] = snap
    BY <1>2, <1>3, <2>1 DEF Freezing, Frozen
  <2>2. CASE i \in DOMAIN snapshots /\ snapshots'[i] = snapshots[i]
    BY <2>2 DEF FreezeInv, Snapshots
  <2> QED
    BY <1>6, <2>1, <2>2
<1> QED
  BY <1>1, <1>5, <1>7, GenKeepsFreeze

LEMMA FreezeInit == Init => FreezeInv
<1> SUFFICES ASSUME Init PROVE FreezeInv
  OBVIOUS
<1>1. DOMAIN snapshots = {} /\ \A g \in Generators : gen[g].todo = <<>>
  BY DEF Init, NoGen
<1> QED
  BY <1>1 DEF FreezeInv, Snapshots, Freezing

LEMMA FreezeStep ==
    ASSUME ScoreInv, FinalInv, TypeInv, RowInv, FreezeInv, [Next]_vars
    PROVE  FreezeInv'
<1>1. ASSUME NEW g \in Generators, Generator(g)
      PROVE  FreezeInv'
  BY <1>1, ListingKeepsFreeze, ReadRowsKeepsFreeze, ReadSubmissionsKeepsFreeze, ReadResultsKeepsFreeze,
     CreateKeepsFreeze DEF Generator
<1>2. ASSUME UNCHANGED <<gen, snapshots>>
      PROVE  FreezeInv'
  BY <1>2, RowStep, FreezeKept
<1>3. ASSUME NEW u \in Users, Authoring(u)
      PROVE  UNCHANGED <<gen, snapshots>>
  BY <1>3 DEF Authoring, HandleCreateContest, CreateContest, HandleUpdateContest, UpdateContest,
     HandleDeleteContest, DeleteContest, HandleGrantRole, GrantContestRole, HandleRevokeRole,
     RevokeContestRole
<1>4. Contestant \/ Tick \/ UNCHANGED vars => UNCHANGED <<gen, snapshots>>
  BY DEF Contestant, HandleRegister, Register, ValidateSubmission, HandleCreateSubmission,
     CreateSubmission, Tick, vars
<1>5. ASSUME NEW w \in Workers, Transaction(w)
      PROVE  UNCHANGED <<gen, snapshots>>
  BY <1>5, TransactionProceeds DEF Proceeds, Proceed, Rollback
<1> QED
  BY <1>1, <1>2, <1>3, <1>4, <1>5 DEF Next

\* During the freeze a request gets a frozen snapshot or nothing, unless the reader is of the
\* contest's staff; and the snapshots show what they may.
LEMMA ReadersSeeUntilFreeze ==
    ASSUME FinalInv, TypeInv, FreezeInv, Created
    PROVE  BoardsStayFrozen
<1>1. ASSUME NEW i \in Snapshots("frozen"), NEW v \in DOMAIN snapshots[i].board,
             NEW p \in DOMAIN snapshots[i].board[v].cells
      PROVE  ShowsUntilFreeze(snapshots[i], v, p)
  <2>1. Until(snapshots[i].freeze, snapshots[i].source, v, p, snapshots[i].board[v].cells[p])
    BY DEF FreezeInv, Frozen, Stops
  <2> QED
    BY <2>1 DEF ShowsUntilFreeze, Until, OpenAt
<1>2. ASSUME NEW u \in Users, NEW requested \in Views \cup {None}, InFreeze(u), Scoreboard(u, requested) # None
      PROVE  Scoreboard(u, requested) \in {snapshots[i].board : i \in Snapshots("frozen")}
  <2>1. PICK view : view = defaultScoreboardView(requested)
    OBVIOUS
  <2>2. PICK board : board = Scoreboard(u, requested)
    OBVIOUS
  <2>3. view \in Views
    BY <2>1 DEF defaultScoreboardView, Views
  <2>4. /\ canViewScoreboard(u, view)
        /\ board = IF view = "live" THEN populateRowsWithResults ELSE scoreSnapshotPage(view)
    BY <1>2, <2>1, <2>2 DEF Scoreboard
  <2>5. contest.freeze <= now /\ now < contest.end /\ ~canViewContestResults(u)
    BY <1>2 DEF InFreeze
  <2>6. now \in Nat /\ contest.freeze \in Int /\ contest.end \in Int
    BY Times
  <2>7. view = "frozen"
    <3>1. ~(now < contest.freeze) /\ ~(contest.end <= now)
      BY <2>5, <2>6
    <3>2. view # "live"
      BY <2>4, <2>5, <3>1 DEF canViewScoreboard
    <3>3. view # "final"
      BY <2>4, <3>1 DEF canViewScoreboard
    <3> QED
      BY <2>3, <3>2, <3>3 DEF Views
  <2>8. board = scoreSnapshotPage("frozen") /\ board # None
    BY <1>2, <2>2, <2>4, <2>7
  <2>9. Snapshots("frozen") # {} /\ board = snapshots[Max(Snapshots("frozen"))].board
    BY <2>8 DEF scoreSnapshotPage, GetLatestContestScoreSnapshot
  <2>10. Max(Snapshots("frozen")) \in Snapshots("frozen")
    <3>1. PICK S : snapshots \in Seq(S)
      BY DEF FinalInv, Stored
    <3>2. Len(snapshots) \in Nat /\ Snapshots("frozen") \in SUBSET (1 .. Len(snapshots))
      BY <3>1 DEF Snapshots
    <3> QED
      BY <2>9, <3>2, GreatestIndex
  <2> QED
    BY <2>2, <2>9, <2>10
<1> QED
  BY <1>1, <1>2 DEF BoardsStayFrozen

\* The result of a submission made at the freeze or later, or judged after it, is shown to
\* nobody else.
LEMMA LateResultsAreHidden ==
    ASSUME TypeInv, Created, NEW u \in Users, NEW s \in DOMAIN subs, InFreeze(u),
           contest.freeze <= subs[s].at \/ (subs[s].judged # None /\ contest.freeze < subs[s].judged)
    PROVE  submissionResultVisibility(u, subs[s]).result = FALSE
<1>1. PICK x : x = subs[s]
  OBVIOUS
<1>2. x.at \in Nat /\ x.at <= now /\ x.judged \in (x.at .. now) \cup {None}
  BY <1>1 DEF TypeInv, SubsTyped, Timely
<1>3. now \in Nat /\ contest.freeze \in Int /\ contest.end \in Int
  BY Times
<1>4. contest.freeze <= now /\ now < contest.end /\ ~canViewContestResults(u)
  BY DEF InFreeze
<1>5. ~submissionVisibleInFrozenWindow(x)
  BY <1>1, <1>2, <1>3, <1>4 DEF submissionVisibleInFrozenWindow
<1> QED
  BY <1>1, <1>4, <1>5 DEF submissionResultVisibility

LEMMA ReadersSeeNoLateResult ==
    ASSUME TypeInv, Created
    PROVE  SubmissionsStayFrozen
<1> SUFFICES ASSUME NEW u \in Users, NEW s \in DOMAIN subs, InFreeze(u),
                    contest.freeze <= subs[s].at \/ (subs[s].judged # None /\ contest.freeze < subs[s].judged)
             PROVE  /\ GetSubmission(u, s) \in {None, Hidden(subs[s])}
                    /\ LET page == ListSubmissionsByCursor(u, NoSubmissionCursor, Len(subs))
                       IN  page # None /\ s \in DOMAIN page.views => page.views[s] = Hidden(subs[s])
  BY DEF SubmissionsStayFrozen
<1> DEFINE may == submissionResultVisibility(u, subs[s])
<1>1. may.result = FALSE /\ DOMAIN may = {"result", "cases", "diagnostics"}
  <2>1. may.result = FALSE
    BY LateResultsAreHidden
  <2> QED
    BY <2>1 DEF submissionResultVisibility
<1>2. ForInspector(u, may).result = FALSE
  <2> HIDE DEF may
  <2> QED
    BY <1>1 DEF ForInspector
<1>3. GetSubmission(u, s) \in {None, Hidden(subs[s])}
  <2>1. submissionVisibility(u, subs[s]) \in {None, ForInspector(u, may)}
    BY DEF submissionVisibility, SubmissionResultVisibility
  <2> HIDE DEF may
  <2>2. submissionView(u, subs[s]) \in {None, Hidden(subs[s])}
    BY <1>2, <2>1 DEF submissionView
  <2> QED
    BY <2>2 DEF GetSubmission
<1>4. ASSUME NEW set, s \in DOMAIN submissionListViews(u, set)
      PROVE  submissionListViews(u, set)[s] = Hidden(subs[s])
  <2> DEFINE all == submissionListVisibilities(u, set)
             shown == {x \in set : all[x].result /\ terminalStatus(subs[x])}
             summaries == ListSubmissionSummaries(shown)
             full(x) == [Hidden(subs[x]) EXCEPT !.result = summaries[x], !.diagnostics = all[x].diagnostics]
  <2>1. submissionListViews(u, set) =
            [x \in set |-> IF x \in DOMAIN summaries THEN full(x) ELSE Hidden(subs[x])]
    BY Zenon DEF submissionListViews
  <2>2. s \in set
    BY <1>4, <2>1, Zenon
  <2>3. all = [x \in set |-> ForInspector(u, submissionResultVisibility(u, subs[x]))]
    BY DEF submissionListVisibilities, SubmissionResultVisibilities
  <2>4. all[s] = ForInspector(u, may)
    BY <2>2, <2>3
  <2> HIDE DEF all, may, full
  <2>5. s \notin shown
    BY <1>2, <2>4
  <2> HIDE DEF shown
  <2>6. s \notin DOMAIN summaries
    BY <2>5 DEF ListSubmissionSummaries
  <2> HIDE DEF summaries
  <2> QED
    BY <2>1, <2>2, <2>6
<1>5. ASSUME NEW page, page = ListSubmissionsByCursor(u, NoSubmissionCursor, Len(subs)), page # None,
             s \in DOMAIN page.views
      PROVE  page.views[s] = Hidden(subs[s])
  <2>1. \E set : page.views = submissionListViews(u, set)
    BY <1>5 DEF ListSubmissionsByCursor, cursorPage
  <2> QED
    BY <1>4, <1>5, <2>1
<1> QED
  BY <1>3, <1>5

\* Whenever the freeze is set or moved, and whatever verdicts and rejudges commit while a
\* board is built and after: a frozen snapshot never shows an acceptance after the freeze it
\* was built with, nor, when it was built from the submissions, one made at that freeze or
\* first judged after it, because no statement changes the time of a submission or of its
\* first verdict.  During the freeze a reader without the contest's staff rights gets such a
\* snapshot or no board, and neither page nor listing adds the result, the cases or the
\* diagnostics to the row of a submission made at the freeze or later, or judged after it.
THEOREM FrozenStaysFrozen == Spec => []FrozenStopsAtFreeze
<1>1. FinalInv /\ TypeInv /\ FreezeInv => FrozenStopsAtFreeze
  BY ReadersSeeUntilFreeze, ReadersSeeNoLateResult DEF FrozenStopsAtFreeze
<1>2. ScoreInv /\ FinalInv /\ TypeInv /\ RowInv /\ FreezeInv /\ [Next]_vars => FreezeInv'
  BY FreezeStep
<1>3. ScoreInv /\ TypeInv /\ RowInv /\ [Next]_vars => RowInv'
  BY RowStep
<1> QED
  BY <1>1, <1>2, <1>3, ScoreInit, ScoreStep, FinalInit, FinalStep, TypeInit, TypeStep, RowInit, FreezeInit,
     PTL DEF Spec

-----------------------------------------------------------------------------
(* Rows in order.                                                          *)

\* R puts the members of S in a row: a strict total order, as a set of pairs.
Orders(R, S) ==
    /\ \A x \in S : <<x, x>> \notin R
    /\ \A x, y, z \in S : <<x, y>> \in R /\ <<y, z>> \in R => <<x, z>> \in R
    /\ \A x, y \in S : x = y \/ <<x, y>> \in R \/ <<y, x>> \in R

Below(S, R, x) == {y \in S : <<y, x>> \in R}
RowOf(q, S, R) ==
    /\ q \in [1 .. Cardinality(S) -> S]
    /\ \A i, j \in 1 .. Cardinality(S) : i < j => <<q[i], q[j]>> \in R

\* Induction up to n, for a set.
LEMMA UpTo ==
    ASSUME NEW n \in Nat, NEW T, 0 \in T,
           \A m \in 0 .. n : m \in T /\ m # n => m + 1 \in T
    PROVE  0 .. n \subseteq T
<1> DEFINE U == {m \in 0 .. n : m \notin T}
<1> SUFFICES ASSUME U # {}
             PROVE  FALSE
  OBVIOUS
<1>1. PICK m \in U : \A k \in U : m <= k
  <2>1. U \in SUBSET Nat
    OBVIOUS
  <2> HIDE DEF U
  <2> QED
    BY <2>1, LeastNatural
<1>2. m # 0 /\ m \in 0 .. n /\ m \notin T
  OBVIOUS
<1>3. m - 1 \in 0 .. n /\ m - 1 # n /\ m - 1 \notin U /\ (m - 1) + 1 = m
  BY <1>1, <1>2
<1>4. m - 1 \in T
  BY <1>3
<1> QED
  BY <1>2, <1>3, <1>4

\* As many are below a member as its place says, so the places are all different.
LEMMA BelowGrows ==
    ASSUME NEW S, IsFiniteSet(S), NEW R, Orders(R, S)
    PROVE  /\ \A x \in S : /\ IsFiniteSet(Below(S, R, x))
                           /\ Cardinality(Below(S, R, x)) \in 0 .. Cardinality(S) - 1
           /\ \A x, y \in S : <<x, y>> \in R =>
                  Cardinality(Below(S, R, x)) < Cardinality(Below(S, R, y))
<1>1. \A x \in S : Below(S, R, x) \in SUBSET S /\ x \notin Below(S, R, x)
  BY DEF Below, Orders
<1>2. \A x \in S : IsFiniteSet(Below(S, R, x)) /\ Cardinality(Below(S, R, x)) \in Nat
  BY <1>1, FS_Subset, FS_CardinalityType
<1>3. ASSUME NEW x \in S
      PROVE  Cardinality(Below(S, R, x)) \in 0 .. Cardinality(S) - 1
  <2>1. Below(S, R, x) # S
    BY <1>1
  <2>2. Cardinality(Below(S, R, x)) <= Cardinality(S) /\ Cardinality(Below(S, R, x)) # Cardinality(S)
    BY <1>1, <2>1, FS_Subset
  <2>3. Cardinality(S) \in Nat
    BY FS_CardinalityType
  <2> QED
    BY <1>2, <2>2, <2>3
<1>4. ASSUME NEW x \in S, NEW y \in S, <<x, y>> \in R
      PROVE  Cardinality(Below(S, R, x)) < Cardinality(Below(S, R, y))
  <2>1. x \in Below(S, R, y) /\ x \notin Below(S, R, x)
    BY <1>1, <1>4 DEF Below
  <2>2. Below(S, R, x) \in SUBSET Below(S, R, y)
    BY <1>4 DEF Below, Orders
  <2>3. Below(S, R, x) # Below(S, R, y)
    BY <2>1
  <2>4. /\ Cardinality(Below(S, R, x)) <= Cardinality(Below(S, R, y))
        /\ Cardinality(Below(S, R, x)) # Cardinality(Below(S, R, y))
    BY <1>2, <2>2, <2>3, FS_Subset
  <2>5. Cardinality(Below(S, R, x)) \in Nat /\ Cardinality(Below(S, R, y)) \in Nat
    BY <1>2
  <2> QED
    BY <2>4, <2>5
<1> QED
  BY <1>2, <1>3, <1>4

\* OrderBy finds a member for every place, and they stand in order.
LEMMA OrderByIsRow ==
    ASSUME NEW S, IsFiniteSet(S), NEW R, Orders(R, S)
    PROVE  RowOf(OrderBy(S, R), S, R)
<1> DEFINE n == Cardinality(S)
           place == [x \in S |-> Cardinality(Below(S, R, x)) + 1]
<1>1. n \in Nat
  BY FS_CardinalityType
<1>2. /\ \A x \in S : place[x] = Cardinality(Below(S, R, x)) + 1 /\ place[x] \in 1 .. n
      /\ \A x, y \in S : <<x, y>> \in R => place[x] < place[y]
  BY <1>1, BelowGrows
<1>3. place \in [S -> 1 .. n]
  <2>1. place = [x \in S |-> place[x]]
    OBVIOUS
  <2> HIDE DEF place, n
  <2> QED
    BY <1>2, <2>1
<1> HIDE DEF place
<1>4. \A x, y \in S : x # y => place[x] # place[y]
  <2> SUFFICES ASSUME NEW x \in S, NEW y \in S, x # y
               PROVE  place[x] # place[y]
    OBVIOUS
  <2>1. <<x, y>> \in R \/ <<y, x>> \in R
    BY DEF Orders
  <2>2. place[x] < place[y] \/ place[y] < place[x]
    BY <1>2, <2>1
  <2>3. place[x] \in Int /\ place[y] \in Int
    BY <1>1, <1>2
  <2> QED
    BY <2>2, <2>3
<1>5. \A i \in 1 .. n : \E x \in S : place[x] = i
  <2>1. place \in Injection(S, 1 .. n)
    BY <1>3, <1>4 DEF Injection, IsInjective
  <2>2. IsFiniteSet(1 .. n) /\ Cardinality(1 .. n) = n
    BY <1>1, FS_Interval
  <2>3. place \in Surjection(S, 1 .. n)
    BY <2>1, <2>2, FS_Injection
  <2> QED
    BY <2>3 DEF Surjection
<1>6. PICK q : q = OrderBy(S, R)
  OBVIOUS
<1>7. /\ DOMAIN q = 1 .. n
      /\ \A i \in 1 .. n : q[i] = CHOOSE x \in S : Cardinality(Below(S, R, x)) = i - 1
      /\ q = [i \in 1 .. n |-> q[i]]
  <2> DEFINE at(i) == CHOOSE x \in S : Cardinality(Below(S, R, x)) = i - 1
  <2>1. q = [i \in 1 .. n |-> at(i)]
    BY <1>6 DEF OrderBy, Below
  <2> HIDE DEF at, n
  <2>2. DOMAIN q = 1 .. n /\ \A i \in 1 .. n : q[i] = at(i)
    BY <2>1
  <2> QED
    BY <2>1, <2>2 DEF at
<1>8. \A i \in 1 .. n : q[i] \in S /\ place[q[i]] = i
  <2> SUFFICES ASSUME NEW i \in 1 .. n
               PROVE  q[i] \in S /\ place[q[i]] = i
    OBVIOUS
  <2>1. \E x \in S : Cardinality(Below(S, R, x)) = i - 1
    <3>1. PICK x \in S : place[x] = i
      BY <1>5
    <3>2. Cardinality(Below(S, R, x)) \in Int
      BY <1>1, BelowGrows
    <3> QED
      BY <1>1, <1>2, <3>1, <3>2
  <2>2. q[i] \in S /\ Cardinality(Below(S, R, q[i])) = i - 1
    BY <1>7, <2>1
  <2> QED
    BY <1>1, <1>2, <2>2
<1>9. ASSUME NEW i \in 1 .. n, NEW j \in 1 .. n, i < j
      PROVE  <<q[i], q[j]>> \in R
  <2>1. q[i] \in S /\ q[j] \in S /\ place[q[i]] = i /\ place[q[j]] = j
    BY <1>8
  <2>2. q[i] # q[j] /\ <<q[j], q[i]>> \notin R
    BY <1>1, <1>2, <1>9, <2>1
  <2> QED
    BY <2>1, <2>2 DEF Orders
<1>10. q \in [1 .. n -> S]
  BY <1>7, <1>8
<1> QED
  BY <1>6, <1>9, <1>10 DEF RowOf

\* A row has every member, and below one are those in front of it.
LEMMA RowCovers ==
    ASSUME NEW S, IsFiniteSet(S), NEW R, Orders(R, S), NEW q, RowOf(q, S, R)
    PROVE  /\ \A x \in S : \E i \in 1 .. Cardinality(S) : x = q[i]
           /\ \A i, j \in 1 .. Cardinality(S) : <<q[i], q[j]>> \in R <=> i < j
           /\ \A i, j \in 1 .. Cardinality(S) : q[i] = q[j] => i = j
<1> DEFINE n == Cardinality(S)
<1>1. n \in Nat /\ IsFiniteSet(1 .. n) /\ Cardinality(1 .. n) = n
  BY FS_CardinalityType, FS_Interval
<1> HIDE DEF n
<1>2. q \in [1 .. n -> S] /\ \A i, j \in 1 .. n : i < j => <<q[i], q[j]>> \in R
  BY DEF RowOf, n
<1>3. \A i, j \in 1 .. n : q[i] = q[j] => i = j
  <2> SUFFICES ASSUME NEW i \in 1 .. n, NEW j \in 1 .. n, q[i] = q[j], i # j
               PROVE  FALSE
    OBVIOUS
  <2>1. i < j \/ j < i
    BY <1>1
  <2>2. <<q[i], q[i]>> \in R /\ q[i] \in S
    BY <1>2, <2>1
  <2> QED
    BY <2>2 DEF Orders
<1>4. \A i, j \in 1 .. n : <<q[i], q[j]>> \in R <=> i < j
  <2> SUFFICES ASSUME NEW i \in 1 .. n, NEW j \in 1 .. n, <<q[i], q[j]>> \in R, ~(i < j)
               PROVE  FALSE
    BY <1>2
  <2>1. i = j \/ j < i
    BY <1>1
  <2>2. q[i] \in S /\ q[j] \in S
    BY <1>2
  <2>3. <<q[i], q[i]>> \in R
    BY <1>2, <2>1, <2>2 DEF Orders
  <2> QED
    BY <2>2, <2>3 DEF Orders
<1>5. q \in Injection(1 .. n, S)
  BY <1>2, <1>3 DEF Injection, IsInjective
<1>6. q \in Surjection(1 .. n, S)
  BY <1>1, <1>5, FS_Injection DEF n
<1>7. \A x \in S : \E i \in 1 .. n : x = q[i]
  BY <1>6 DEF Surjection
<1> QED
  BY <1>3, <1>4, <1>7 DEF n

\* A part of a row has as many members as places.
Part(q, a, b) == {q[j] : j \in a .. b}

LEMMA PartCounts ==
    ASSUME NEW S, IsFiniteSet(S), NEW R, Orders(R, S), NEW q, RowOf(q, S, R),
           NEW a \in Nat, NEW b \in Nat, 1 <= a, a <= b + 1, b <= Cardinality(S)
    PROVE  IsFiniteSet(Part(q, a, b)) /\ Cardinality(Part(q, a, b)) = (b + 1) - a
<1> DEFINE n == Cardinality(S)
           T == Part(q, a, b)
           f == [j \in a .. b |-> q[j]]
<1>1. n \in Nat /\ a .. b \subseteq 1 .. n
  BY FS_CardinalityType
<1>2. \A i, j \in 1 .. n : q[i] = q[j] => i = j
  BY RowCovers
<1>3. f \in [a .. b -> T] /\ \A t \in T : \E j \in a .. b : f[j] = t
  BY DEF Part
<1>4. \A i, j \in a .. b : f[i] = f[j] => i = j
  BY <1>1, <1>2
<1> HIDE DEF f, T, n
<1>5. f \in Bijection(a .. b, T)
  BY <1>3, <1>4 DEF Bijection, Injection, IsInjective, Surjection
<1>6. IsFiniteSet(a .. b) /\ Cardinality(a .. b) = (b + 1) - a
  <2>1. IsFiniteSet(a .. b) /\ Cardinality(a .. b) = IF a > b THEN 0 ELSE b - a + 1
    <3>1. a \in Int /\ b \in Int
      OBVIOUS
    <3> QED
      BY <3>1, FS_Interval
  <2> QED
    BY <2>1
<1>7. IsFiniteSet(T) /\ Cardinality(T) = Cardinality(a .. b)
  BY <1>5, <1>6, FS_Bijection DEF ExistsBijection
<1> QED
  BY <1>6, <1>7 DEF T

\* Below the member at a place are those at the places in front of it.
LEMMA BelowPlace ==
    ASSUME NEW S, IsFiniteSet(S), NEW R, Orders(R, S), NEW q, RowOf(q, S, R),
           NEW i \in 1 .. Cardinality(S)
    PROVE  /\ Below(S, R, q[i]) = Part(q, 1, i - 1)
           /\ Cardinality(Below(S, R, q[i])) = i - 1
<1> USE DEF Part
<1>1. Cardinality(S) \in Nat
  BY FS_CardinalityType
<1>2. \A j \in 1 .. Cardinality(S) : q[j] \in S /\ (<<q[j], q[i]>> \in R <=> j < i)
  BY RowCovers DEF RowOf
<1>3. Below(S, R, q[i]) \subseteq Part(q, 1, i - 1)
  <2> SUFFICES ASSUME NEW x \in S, <<x, q[i]>> \in R
               PROVE  x \in Part(q, 1, i - 1)
    BY DEF Below
  <2>1. PICK j \in 1 .. Cardinality(S) : x = q[j]
    BY RowCovers
  <2>2. j < i
    BY <1>2, <2>1
  <2>3. j \in 1 .. i - 1
    BY <1>1, <2>2
  <2> QED
    BY <2>1, <2>3
<1>4. Part(q, 1, i - 1) \subseteq Below(S, R, q[i])
  <2> SUFFICES ASSUME NEW j \in 1 .. i - 1
               PROVE  q[j] \in Below(S, R, q[i])
    OBVIOUS
  <2>1. j \in 1 .. Cardinality(S) /\ j < i
    BY <1>1
  <2> QED
    BY <1>2, <2>1 DEF Below
<1>5. Cardinality(Part(q, 1, i - 1)) = i - 1
  <2>1. i - 1 \in Nat /\ 1 <= (i - 1) + 1 /\ i - 1 <= Cardinality(S) /\ ((i - 1) + 1) - 1 = i - 1
    BY <1>1
  <2> HIDE DEF Part
  <2>2. Cardinality(Part(q, 1, i - 1)) = ((i - 1) + 1) - 1
    BY <2>1, PartCounts
  <2> QED
    BY <2>1, <2>2
<1> HIDE DEF Part
<1> QED
  BY <1>3, <1>4, <1>5

\* There is one row: OrderBy's.
LEMMA RowIsOrderBy ==
    ASSUME NEW S, IsFiniteSet(S), NEW R, Orders(R, S), NEW q, RowOf(q, S, R)
    PROVE  OrderBy(S, R) = q
<1>1. PICK p : p = OrderBy(S, R)
  OBVIOUS
<1>2. RowOf(p, S, R)
  BY <1>1, OrderByIsRow
<1>3. Cardinality(S) \in Nat
  BY FS_CardinalityType
<1>4. \A i \in 1 .. Cardinality(S) : p[i] = q[i]
  <2> SUFFICES ASSUME NEW i \in 1 .. Cardinality(S)
               PROVE  p[i] = q[i]
    OBVIOUS
  <2>1. Cardinality(Below(S, R, p[i])) = i - 1
    BY <1>2, BelowPlace
  <2>2. PICK j \in 1 .. Cardinality(S) : p[i] = q[j]
    <3>1. p[i] \in S
      BY <1>2 DEF RowOf
    <3> QED
      BY <3>1, RowCovers
  <2>3. Cardinality(Below(S, R, q[j])) = j - 1
    BY BelowPlace
  <2>4. i = j
    BY <1>3, <2>1, <2>2, <2>3
  <2> QED
    BY <2>2, <2>4
<1>5. p \in [1 .. Cardinality(S) -> S] /\ q \in [1 .. Cardinality(S) -> S]
  BY <1>2 DEF RowOf
<1>6. p = q
  <2>1. p = [i \in 1 .. Cardinality(S) |-> p[i]] /\ q = [i \in 1 .. Cardinality(S) |-> q[i]]
    BY <1>5
  <2> QED
    BY <1>4, <2>1, Zenon
<1> QED
  BY <1>1, <1>6

\* Places m + 1 to k of a row.
Slice(q, m, k) == [i \in 1 .. k - m |-> q[m + i]]

\* What comes after place m of a row, in order: the rest of the row.
LEMMA RestOfRow ==
    ASSUME NEW S, IsFiniteSet(S), NEW R, Orders(R, S), NEW q, RowOf(q, S, R),
           NEW m \in 1 .. Cardinality(S), NEW T, T = {x \in S : <<q[m], x>> \in R}
    PROVE  OrderBy(T, R) = Slice(q, m, Cardinality(S))
<1> DEFINE n == Cardinality(S)
           rest == [i \in 1 .. n - m |-> q[m + i]]
<1>1. n \in Nat /\ m \in Nat /\ m <= n
  BY FS_CardinalityType
<1>2. \A j \in 1 .. n : q[j] \in S /\ (<<q[m], q[j]>> \in R <=> m < j)
  BY RowCovers DEF RowOf
<1>3. T = Part(q, m + 1, n)
  <2> USE DEF Part
  <2>1. ASSUME NEW x \in T
        PROVE  x \in Part(q, m + 1, n)
    <3>1. PICK j \in 1 .. n : x = q[j]
      BY <2>1, RowCovers
    <3>2. m < j
      BY <1>2, <2>1, <3>1
    <3>3. j \in m + 1 .. n
      BY <1>1, <3>2
    <3> QED
      BY <3>1, <3>3
  <2>2. ASSUME NEW j \in m + 1 .. n
        PROVE  q[j] \in T
    <3>1. j \in 1 .. n /\ m < j
      BY <1>1
    <3> QED
      BY <1>2, <3>1
  <2> QED
    BY <2>1, <2>2
<1>4. IsFiniteSet(T) /\ Cardinality(T) = n - m
  <2>1. /\ m + 1 \in Nat /\ 1 <= m + 1 /\ m + 1 <= n + 1 /\ n <= Cardinality(S)
        /\ (n + 1) - (m + 1) = n - m
    BY <1>1
  <2> HIDE DEF n
  <2>2. IsFiniteSet(Part(q, m + 1, n)) /\ Cardinality(Part(q, m + 1, n)) = (n + 1) - (m + 1)
    BY <1>1, <2>1, PartCounts
  <2> QED
    BY <1>3, <2>1, <2>2
<1>5. Orders(R, T)
  <2>1. T \subseteq S
    OBVIOUS
  <2> QED
    BY <2>1 DEF Orders
<1>6. RowOf(rest, T, R)
  <2>1. \A i \in 1 .. n - m : m + i \in m + 1 .. n /\ m + i \in 1 .. n /\ rest[i] = q[m + i]
    BY <1>1
  <2>2. rest \in [1 .. n - m -> T]
    <3>1. \A i \in 1 .. n - m : q[m + i] \in T
      BY <1>3, <2>1 DEF Part
    <3> HIDE DEF n
    <3> QED
      BY <3>1
  <2>3. ASSUME NEW i \in 1 .. n - m, NEW j \in 1 .. n - m, i < j
        PROVE  <<rest[i], rest[j]>> \in R
    <3>1. m + i < m + j
      BY <1>1, <2>3
    <3>2. <<q[m + i], q[m + j]>> \in R
      BY <2>1, <3>1 DEF RowOf
    <3> QED
      BY <2>1, <3>2
  <2> HIDE DEF rest, n
  <2> QED
    BY <1>4, <2>2, <2>3 DEF RowOf
<1> HIDE DEF rest
<1>7. OrderBy(T, R) = rest
  BY <1>4, <1>5, <1>6, RowIsOrderBy
<1> QED
  BY <1>7 DEF rest, Slice

-----------------------------------------------------------------------------
(* Pages of a row.                                                         *)

\* The last place of a page of n after place m.
PageEnd(L, m, n) == IF m + n < L THEN m + n ELSE L

IsSlice(s, S, q, m, k) ==
    /\ s \in Seq(S) /\ Len(s) = k - m /\ DOMAIN s = 1 .. k - m
    /\ \A i \in 1 .. k - m : s[i] = q[m + i] /\ q[m + i] \in S /\ m + i \in m + 1 .. k

LEMMA PageEndsInRow ==
    ASSUME NEW L \in Nat, NEW m \in 0 .. L, NEW n \in Nat
    PROVE  PageEnd(L, m, n) \in m .. L /\ PageEnd(L, m, n) \in Nat
BY DEF PageEnd

LEMMA SliceIsSeq ==
    ASSUME NEW S, NEW L \in Nat, NEW q \in [1 .. L -> S], NEW m \in Nat, NEW k \in Nat, m <= k, k <= L
    PROVE  IsSlice(Slice(q, m, k), S, q, m, k)
<1>1. PICK l \in Nat : l = k - m
  OBVIOUS
<1>2. \A i \in 1 .. l : m + i \in 1 .. L /\ m + i \in m + 1 .. k
  BY <1>1
<1>3. PICK s : s = Slice(q, m, k)
  OBVIOUS
<1>4. s = [i \in 1 .. l |-> q[m + i]]
  BY <1>1, <1>3 DEF Slice
<1>5. \A i \in 1 .. l : q[m + i] \in S
  BY <1>2
<1>6. s \in [1 .. l -> S] /\ \A i \in 1 .. l : s[i] = q[m + i]
  BY <1>4, <1>5
<1>7. s \in Seq(S) /\ Len(s) = l /\ DOMAIN s = 1 .. l
  BY <1>6
<1> QED
  BY <1>1, <1>2, <1>3, <1>5, <1>6, <1>7 DEF IsSlice

\* LIMIT after a cursor reads on from its place.
LEMMA LimitOfSlice ==
    ASSUME NEW S, NEW L \in Nat, NEW q \in [1 .. L -> S], NEW m \in 0 .. L, NEW e \in m .. L,
           NEW n \in Nat
    PROVE  Limit(Slice(q, m, e), n) = Slice(q, m, PageEnd(e, m, n))
<1>1. PICK s : s = Slice(q, m, e)
  OBVIOUS
<1>2. s \in Seq(S) /\ Len(s) = e - m /\ \A i \in 1 .. e - m : s[i] = q[m + i] /\ q[m + i] \in S
  <2>1. m \in Nat /\ e \in Nat /\ m <= e /\ e <= L
    OBVIOUS
  <2>2. IsSlice(s, S, q, m, e)
    BY <1>1, <2>1, SliceIsSeq
  <2> QED
    BY <2>2 DEF IsSlice
<1>3. PICK l : l = IF n < Len(s) THEN n ELSE Len(s)
  OBVIOUS
<1>4. l \in Nat /\ l <= e - m /\ PageEnd(e, m, n) = m + l /\ (m + l) - m = l /\ m + l \in m .. e
  BY <1>2, <1>3 DEF PageEnd
<1>5. \A i \in 1 .. l : s[i] \in S /\ s[i] = q[m + i]
  BY <1>2, <1>4
<1>6. PICK t : t = SubSeq(s, 1, l)
  OBVIOUS
<1>7. t \in Seq(S) /\ Len(t) = l /\ \A i \in 1 .. l : t[i] = s[i]
  <2>1. /\ t \in Seq(S) /\ Len(t) = IF 1 <= l THEN l - 1 + 1 ELSE 0
        /\ \A i \in 1 .. l - 1 + 1 : t[i] = s[1 + i - 1]
    <3>1. 1 \in Int /\ l \in Int
      BY <1>4
    <3> QED
      BY <1>5, <1>6, <3>1, SubSeqProperties
  <2>2. l - 1 + 1 = l /\ \A i \in 1 .. l : 1 + i - 1 = i
    BY <1>4
  <2> QED
    BY <1>4, <2>1, <2>2
<1>8. t = [i \in 1 .. l |-> q[m + i]]
  <2>1. t = [i \in 1 .. l |-> t[i]]
    BY <1>7, LenProperties
  <2>2. \A i \in 1 .. l : t[i] = q[m + i]
    BY <1>5, <1>7
  <2> QED
    BY <2>1, <2>2, Zenon
<1>9. Slice(q, m, m + l) = [i \in 1 .. l |-> q[m + i]]
  BY <1>4 DEF Slice
<1> QED
  BY <1>1, <1>3, <1>4, <1>6, <1>8, <1>9 DEF Limit

\* Pages that follow one another make up the row.
LEMMA SlicesJoin ==
    ASSUME NEW S, NEW L \in Nat, NEW q \in [1 .. L -> S], NEW m \in Nat, NEW k \in Nat, m <= k, k <= L
    PROVE  Slice(q, 0, m) \o Slice(q, m, k) = Slice(q, 0, k)
<1>1. PICK s : s = Slice(q, 0, m)
  OBVIOUS
<1>2. PICK t : t = Slice(q, m, k)
  OBVIOUS
<1>3. PICK r : r = Slice(q, 0, k)
  OBVIOUS
<1>4. s \in Seq(S) /\ Len(s) = m /\ \A i \in 1 .. m : s[i] = q[i]
  <2>1. m - 0 = m /\ \A i \in 1 .. m : 0 + i = i
    OBVIOUS
  <2>2. 0 \in Nat /\ 0 <= m /\ m <= L
    OBVIOUS
  <2>3. IsSlice(s, S, q, 0, m)
    BY <1>1, <2>2, SliceIsSeq
  <2> QED
    BY <2>1, <2>3 DEF IsSlice
<1>5. t \in Seq(S) /\ Len(t) = k - m /\ \A i \in 1 .. k - m : t[i] = q[m + i]
  <2>1. IsSlice(t, S, q, m, k)
    BY <1>2, SliceIsSeq
  <2> QED
    BY <2>1 DEF IsSlice
<1>6. r \in Seq(S) /\ Len(r) = k /\ \A i \in 1 .. k : r[i] = q[i]
  <2>1. k - 0 = k /\ \A i \in 1 .. k : 0 + i = i
    OBVIOUS
  <2>2. 0 \in Nat /\ 0 <= k
    OBVIOUS
  <2>3. IsSlice(r, S, q, 0, k)
    BY <1>3, <2>2, SliceIsSeq
  <2> QED
    BY <2>1, <2>3 DEF IsSlice
<1>7. /\ s \o t \in Seq(S) /\ Len(s \o t) = k
      /\ \A i \in 1 .. k : (s \o t)[i] = IF i <= m THEN s[i] ELSE t[i - m]
  <2>1. m + (k - m) = k
    OBVIOUS
  <2>2. /\ s \o t \in Seq(S) /\ Len(s \o t) = Len(s) + Len(t)
        /\ \A i \in 1 .. Len(s) + Len(t) : (s \o t)[i] = IF i <= Len(s) THEN s[i] ELSE t[i - Len(s)]
    <3>1. s \in Seq(S) /\ t \in Seq(S)
      BY <1>4, <1>5
    <3> QED
      BY <3>1, ConcatProperties, Zenon
  <2>3. Len(s) = m /\ Len(s) + Len(t) = k
    BY <1>4, <1>5, <2>1
  <2> QED
    BY <2>2, <2>3, Zenon
<1>8. \A i \in 1 .. k : (s \o t)[i] = r[i]
  <2> SUFFICES ASSUME NEW i \in 1 .. k
               PROVE  (s \o t)[i] = r[i]
    OBVIOUS
  <2>1. CASE i <= m
    BY <1>4, <1>6, <1>7, <2>1
  <2>2. CASE ~(i <= m)
    <3>1. i - m \in 1 .. k - m /\ m + (i - m) = i
      BY <2>2
    <3> QED
      BY <1>5, <1>6, <1>7, <2>2, <3>1
  <2> QED
    BY <2>1, <2>2
<1>9. s \o t = r
  BY <1>6, <1>7, <1>8, SeqEqual
<1> QED
  BY <1>1, <1>2, <1>3, <1>9

\* A page that has rows ends with the last of them.
LEMMA SliceEmpty ==
    ASSUME NEW q, NEW m \in Nat
    PROVE  Slice(q, m, m) = <<>>
<1>1. 1 .. m - m = {}
  OBVIOUS
<1> QED
  BY <1>1 DEF Slice

LEMMA SliceLast ==
    ASSUME NEW S, NEW L \in Nat, NEW q \in [1 .. L -> S], NEW m \in Nat, NEW k \in Nat, m < k, k <= L
    PROVE  Slice(q, m, k) # <<>> /\ Last(Slice(q, m, k)) = q[k]
<1>1. PICK s : s = Slice(q, m, k)
  OBVIOUS
<1>2. IsSlice(s, S, q, m, k)
  BY <1>1, SliceIsSeq
<1>3. s \in Seq(S) /\ Len(s) = k - m /\ \A i \in 1 .. k - m : s[i] = q[m + i]
  BY <1>2 DEF IsSlice
<1>4. k - m \in 1 .. k - m /\ m + (k - m) = k
  OBVIOUS
<1>5. Last(s) = q[k]
  BY <1>3, <1>4 DEF Last
<1>6. s # <<>>
  BY <1>3
<1> QED
  BY <1>1, <1>5, <1>6

-----------------------------------------------------------------------------
(* The live board.                                                         *)

LEMMA BoardOrders ==
    ASSUME RegTyped
    PROVE  /\ Orders(BoardOrder, DOMAIN reg)
           /\ \A u, v \in DOMAIN reg : <<u, v>> \in BoardOrder <=> Before(u, v)
           /\ \A u \in DOMAIN reg : u # None
<1>1. \A u \in DOMAIN reg : u \in Nat /\ u # None
  BY ContestAssumption DEF RegTyped
<1>2. \A u \in DOMAIN reg : reg[u] \in Scores
  BY DEF RegTyped
<1>3. \A u \in DOMAIN reg : reg[u].accepted \in Nat /\ reg[u].penalty \in Nat
  BY <1>2 DEF Scores
<1>4. \A u, v \in DOMAIN reg :
         reg[u].accepted = reg[v].accepted /\ reg[u].penalty = reg[v].penalty => reg[u] = reg[v]
  BY <1>2 DEF Scores
<1>5. \A u, v \in DOMAIN reg : <<u, v>> \in BoardOrder <=> Before(u, v)
  BY DEF BoardOrder
<1>6. \A u \in DOMAIN reg : ~Before(u, u)
  BY <1>1, <1>3 DEF Before, Ahead
<1>7. \A u, v \in DOMAIN reg : u = v \/ Before(u, v) \/ Before(v, u)
  BY <1>1, <1>3, <1>4 DEF Before, Ahead
<1>8. ASSUME NEW u \in DOMAIN reg, NEW v \in DOMAIN reg, NEW x \in DOMAIN reg, Before(u, v), Before(v, x)
      PROVE  Before(u, x)
  BY <1>1, <1>3, <1>8 DEF Before, Ahead
<1> QED
  BY <1>1, <1>5, <1>6, <1>7, <1>8 DEF Orders

\* One more than the number of registered users ahead.
AheadOf(u) == {v \in DOMAIN reg : Ahead(reg[v], reg[u])}
RankOf(u) == 1 + Cardinality(AheadOf(u))

\* Who opens a rank stands at the place of it.
LEMMA RankIsPlace ==
    ASSUME RegTyped, IsFiniteSet(DOMAIN reg), NEW b, RowOf(b, DOMAIN reg, BoardOrder),
           NEW i \in 1 .. Cardinality(DOMAIN reg), i = 1 \/ reg[b[i]] # reg[b[i - 1]]
    PROVE  RankOf(b[i]) = i
<1> DEFINE c == Cardinality(DOMAIN reg)
<1>1. c \in Nat
  BY FS_CardinalityType
<1>2. \A j \in 1 .. c : b[j] \in DOMAIN reg
  BY DEF RowOf
<1>3. \A u \in DOMAIN reg : reg[u].accepted \in Nat /\ reg[u].penalty \in Nat
  BY DEF RegTyped, Scores
<1>4. \A j, k \in 1 .. c : Before(b[j], b[k]) <=> j < k
  <2>1. \A j, k \in 1 .. c : <<b[j], b[k]>> \in BoardOrder <=> j < k
    BY RowCovers, BoardOrders
  <2> QED
    BY <1>2, <2>1, BoardOrders
<1>5. \A u, v \in DOMAIN reg : Ahead(reg[u], reg[v]) => Before(u, v)
  BY DEF Before
<1>6. \A j \in 1 .. c : j < i => Ahead(reg[b[j]], reg[b[i]])
  <2> SUFFICES ASSUME NEW j \in 1 .. c, j < i, ~Ahead(reg[b[j]], reg[b[i]])
               PROVE  FALSE
    OBVIOUS
  <2>1. i - 1 \in 1 .. c /\ i - 1 < i /\ (j = i - 1 \/ j < i - 1) /\ i # 1
    BY <1>1
  <2>2. reg[b[j]] = reg[b[i]]
    BY <1>4 DEF Before
  <2>3. reg[b[i]] # reg[b[i - 1]] /\ j < i - 1
    BY <2>1, <2>2
  <2>4. Before(b[j], b[i - 1]) /\ Before(b[i - 1], b[i])
    BY <1>4, <2>1, <2>3
  <2>5. Ahead(reg[b[j]], reg[b[i - 1]]) /\ Ahead(reg[b[i - 1]], reg[b[j]])
    BY <2>2, <2>3, <2>4 DEF Before
  <2>6. b[j] \in DOMAIN reg /\ b[i - 1] \in DOMAIN reg
    BY <1>2, <2>1
  <2> QED
    BY <1>3, <2>5, <2>6 DEF Ahead
<1>7. AheadOf(b[i]) = Below(DOMAIN reg, BoardOrder, b[i])
  <2>1. ASSUME NEW u \in DOMAIN reg
        PROVE  Ahead(reg[u], reg[b[i]]) <=> <<u, b[i]>> \in BoardOrder
    <3>1. PICK j \in 1 .. c : u = b[j]
      BY RowCovers, BoardOrders
    <3>2. <<u, b[i]>> \in BoardOrder <=> j < i
      BY <1>2, <1>4, <3>1, BoardOrders
    <3>3. Ahead(reg[u], reg[b[i]]) => j < i
      BY <1>2, <1>4, <1>5, <3>1
    <3>4. j < i => Ahead(reg[u], reg[b[i]])
      BY <1>6, <3>1
    <3> QED
      BY <3>2, <3>3, <3>4
  <2> QED
    BY <2>1 DEF AheadOf, Below
<1>8. Cardinality(Below(DOMAIN reg, BoardOrder, b[i])) = i - 1
  BY BelowPlace, BoardOrders
<1> QED
  BY <1>1, <1>7, <1>8 DEF RankOf

\* Where the cursor stands that was given out with place m.
BoardCursor(b, m) ==
    IF m = 0 THEN NoCursor ELSE [after |-> b[m], seen |-> m, rank |-> RankOf(b[m])]

LEMMA PageRows ==
    ASSUME RegTyped, IsFiniteSet(DOMAIN reg), NEW b, b = OrderBy(DOMAIN reg, BoardOrder),
           NEW m \in 0 .. Cardinality(DOMAIN reg), NEW size \in Nat
    PROVE  ListScoreboardRegistrations(BoardCursor(b, m), size)
             = Slice(b, m, PageEnd(Cardinality(DOMAIN reg), m, size))
<1> DEFINE c == Cardinality(DOMAIN reg)
           cursor == BoardCursor(b, m)
           due == {u \in DOMAIN reg : cursor.after = None \/ <<cursor.after, u>> \in BoardOrder}
<1>1. c \in Nat
  BY FS_CardinalityType
<1>2. RowOf(b, DOMAIN reg, BoardOrder)
  BY OrderByIsRow, BoardOrders
<1>3. b \in [1 .. c -> DOMAIN reg]
  BY <1>2 DEF RowOf
<1>4. OrderBy(due, BoardOrder) = Slice(b, m, c)
  <2>1. CASE m = 0
    <3>1. due = DOMAIN reg
      BY <2>1 DEF BoardCursor, NoCursor
    <3>2. b = [i \in 1 .. c |-> b[i]] /\ c - 0 = c /\ \A i \in 1 .. c : 0 + i = i
      BY <1>1, <1>3
    <3> HIDE DEF c
    <3>3. Slice(b, 0, c) = [i \in 1 .. c |-> b[i]]
      BY <3>2 DEF Slice
    <3> QED
      BY <2>1, <3>1, <3>2, <3>3
  <2>2. CASE m # 0
    <3>1. m \in 1 .. c
      BY <1>1, <2>2
    <3>2. b[m] # None /\ cursor.after = b[m]
      BY <1>3, <2>2, <3>1, BoardOrders DEF BoardCursor
    <3>3. due = {u \in DOMAIN reg : <<b[m], u>> \in BoardOrder}
      BY <3>2
    <3> HIDE DEF due
    <3>4. Orders(BoardOrder, DOMAIN reg)
      BY BoardOrders
    <3> QED
      BY <1>2, <3>1, <3>3, <3>4, RestOfRow
  <2> QED
    BY <2>1, <2>2
<1> HIDE DEF due, cursor
<1>5. ListScoreboardRegistrations(cursor, size) = Limit(OrderBy(due, BoardOrder), size)
  BY DEF ListScoreboardRegistrations, due
<1>6. Limit(Slice(b, m, c), size) = Slice(b, m, PageEnd(c, m, size))
  <2>1. PICK L : L = c
    OBVIOUS
  <2>2. PICK S : S = DOMAIN reg
    OBVIOUS
  <2>3. L \in Nat /\ m \in 0 .. L /\ L \in m .. L /\ b \in [1 .. L -> S]
    BY <1>1, <1>3, <2>1, <2>2
  <2> HIDE DEF c
  <2>4. Limit(Slice(b, m, L), size) = Slice(b, m, PageEnd(L, m, size))
    BY <2>3, LimitOfSlice
  <2> QED
    BY <2>1, <2>4
<1> QED
  BY <1>4, <1>5, <1>6 DEF cursor

\* What applyPageRanks gives row i when h has the ranks before it.
RankStep(rows, cursor, h, i) ==
    IF i = 1 /\ cursor.after # None /\ reg[rows[1]] = reg[cursor.after] THEN cursor.rank
    ELSE IF i > 1 /\ reg[rows[i]] = reg[rows[i - 1]] THEN h[i - 1]
    ELSE cursor.seen + i

RanksOf(b) == [i \in DOMAIN b |-> RankOf(b[i])]

\* A page that continues a rank of the page before carries it on; every other rank is
\* the place of the row that opens it.
LEMMA PageRanks ==
    ASSUME RegTyped, IsFiniteSet(DOMAIN reg), NEW b, RowOf(b, DOMAIN reg, BoardOrder),
           NEW m \in 0 .. Cardinality(DOMAIN reg), NEW k \in m .. Cardinality(DOMAIN reg)
    PROVE  applyPageRanks(Slice(b, m, k), BoardCursor(b, m)) = Slice(RanksOf(b), m, k)
<1>1. PICK c : c = Cardinality(DOMAIN reg)
  OBVIOUS
<1>2. PICK S : S = DOMAIN reg
  OBVIOUS
<1>3. c \in Nat /\ m \in Nat /\ k \in Nat /\ m <= k /\ k <= c /\ b \in [1 .. c -> S]
  BY <1>1, <1>2, FS_CardinalityType DEF RowOf
<1>4. PICK rows : rows = Slice(b, m, k)
  OBVIOUS
<1>5. PICK n \in Nat : n = k - m
  BY <1>3
<1>6. DOMAIN rows = 1 .. n /\ \A i \in 1 .. n : rows[i] = b[m + i] /\ m + i \in 1 .. c /\ b[m + i] \in S
  <2>1. IsSlice(rows, S, b, m, k)
    BY <1>3, <1>4, SliceIsSeq
  <2> QED
    BY <1>3, <1>5, <2>1 DEF IsSlice
<1>7. PICK cursor : cursor = BoardCursor(b, m)
  OBVIOUS
<1>8. PICK g : g = Slice(RanksOf(b), m, k)
  OBVIOUS
<1>9. g = [i \in 1 .. n |-> RankOf(b[m + i])]
  <2>1. DOMAIN b = 1 .. c
    BY <1>3
  <2>2. \A i \in 1 .. n : RanksOf(b)[m + i] = RankOf(b[m + i])
    BY <1>6, <2>1 DEF RanksOf
  <2>3. g = [i \in 1 .. n |-> RanksOf(b)[m + i]]
    BY <1>5, <1>8 DEF Slice
  <2> QED
    BY <2>2, <2>3, Zenon
<1>10. ASSUME NEW i \in 1 .. n
       PROVE  RankStep(rows, cursor, g, i) = RankOf(b[m + i])
  <2>1. m + i \in 1 .. Cardinality(DOMAIN reg) /\ i \in Nat /\ m + i \in Nat /\ rows[i] = b[m + i]
    BY <1>1, <1>3, <1>6
  <2>2. m + i = 1 \/ reg[b[m + i]] # reg[b[m + i - 1]] => RankOf(b[m + i]) = m + i
    BY <2>1, RankIsPlace
  <2>3. CASE i = 1 /\ m = 0
    <3>1. cursor.after = None /\ cursor.seen = 0
      BY <1>7, <2>3 DEF BoardCursor, NoCursor
    <3>2. RankStep(rows, cursor, g, i) = 1
      BY <2>3, <3>1 DEF RankStep
    <3> QED
      BY <2>2, <2>3, <3>2
  <2>4. CASE i = 1 /\ m # 0
    <3>1. cursor.after = b[m] /\ cursor.seen = m /\ cursor.rank = RankOf(b[m])
      BY <1>7, <2>4 DEF BoardCursor
    <3>2. m \in 1 .. c /\ m + i - 1 = m
      BY <1>3, <2>1, <2>4
    <3>3. b[m] # None
      BY <1>2, <1>3, <3>2, BoardOrders
    <3>4. rows[1] = b[m + i]
      BY <2>1, <2>4
    <3>5. CASE reg[b[m + i]] = reg[b[m]]
      <4>1. RankStep(rows, cursor, g, i) = RankOf(b[m])
        BY <2>4, <3>1, <3>3, <3>4, <3>5 DEF RankStep
      <4> QED
        BY <3>5, <4>1 DEF RankOf, AheadOf
    <3>6. CASE reg[b[m + i]] # reg[b[m]]
      <4>1. RankStep(rows, cursor, g, i) = m + i
        BY <2>4, <3>1, <3>4, <3>6 DEF RankStep
      <4> QED
        BY <2>2, <3>2, <3>6, <4>1
    <3> QED
      BY <3>5, <3>6
  <2>5. CASE i # 1
    <3>1. i - 1 \in 1 .. n /\ m + (i - 1) = m + i - 1 /\ i > 1
      BY <1>5, <2>1, <2>5
    <3>2. rows[i - 1] = b[m + i - 1] /\ g[i - 1] = RankOf(b[m + i - 1])
      BY <1>6, <1>9, <3>1
    <3>3. cursor.seen = m
      BY <1>7 DEF BoardCursor, NoCursor
    <3>4. CASE reg[b[m + i]] = reg[b[m + i - 1]]
      <4>1. RankStep(rows, cursor, g, i) = RankOf(b[m + i - 1])
        BY <2>1, <2>5, <3>1, <3>2, <3>4 DEF RankStep
      <4> QED
        BY <3>4, <4>1 DEF RankOf, AheadOf
    <3>5. CASE reg[b[m + i]] # reg[b[m + i - 1]]
      <4>1. RankStep(rows, cursor, g, i) = m + i
        BY <2>1, <2>5, <3>2, <3>3, <3>5 DEF RankStep
      <4> QED
        BY <2>2, <3>5, <4>1
    <3> QED
      BY <3>4, <3>5
  <2> QED
    BY <2>3, <2>4, <2>5
<1>11. g = [i \in DOMAIN rows |-> RankStep(rows, cursor, g, i)]
  BY <1>6, <1>9, <1>10, Zenon
<1>12. PICK f : f = applyPageRanks(rows, cursor)
  OBVIOUS
<1>13. f = [i \in DOMAIN rows |-> RankStep(rows, cursor, f, i)]
  <2>1. applyPageRanks(rows, cursor) = CHOOSE h : h = [i \in DOMAIN rows |-> RankStep(rows, cursor, h, i)]
    BY DEF applyPageRanks, RankStep
  <2> QED
    BY <1>11, <1>12, <2>1, Zenon
<1>14. \A i \in 1 .. n : f[i] = g[i]
  <2> DEFINE T == {i \in 0 .. n : i = 0 \/ f[i] = g[i]}
  <2>1. 0 \in T
    OBVIOUS
  <2>2. ASSUME NEW i \in 0 .. n, i \in T, i # n
        PROVE  i + 1 \in T
    <3>1. i + 1 \in 1 .. n /\ i + 1 \in 0 .. n /\ (i + 1) - 1 = i
      BY <2>2
    <3>2. f[i + 1] = RankStep(rows, cursor, f, i + 1) /\ g[i + 1] = RankStep(rows, cursor, g, i + 1)
      <4>1. g[i + 1] = RankOf(b[m + (i + 1)])
        BY <1>9, <3>1
      <4>2. RankStep(rows, cursor, g, i + 1) = RankOf(b[m + (i + 1)])
        BY <1>10, <3>1
      <4>3. f[i + 1] = RankStep(rows, cursor, f, i + 1)
        BY <1>6, <1>13, <3>1
      <4> QED
        BY <4>1, <4>2, <4>3
    <3>3. RankStep(rows, cursor, f, i + 1) = RankStep(rows, cursor, g, i + 1)
      <4>1. i = 0 \/ f[i] = g[i]
        BY <2>2
      <4> QED
        BY <3>1, <4>1 DEF RankStep
    <3> QED
      BY <3>1, <3>2, <3>3
  <2> HIDE DEF T
  <2>3. 0 .. n \subseteq T
    BY <2>1, <2>2, UpTo
  <2> QED
    BY <2>3 DEF T
<1>15. f = g
  <2>1. f = [i \in 1 .. n |-> f[i]]
    BY <1>6, <1>13
  <2>2. g = [i \in 1 .. n |-> g[i]]
    BY <1>9
  <2> QED
    BY <1>14, <2>1, <2>2, Zenon
<1> QED
  BY <1>4, <1>7, <1>8, <1>12, <1>15

\* The pages of a row of c.
Pages(b, c) ==
    /\ \A m, k \in Nat : m < k /\ k <= c => Last(Slice(b, m, k)) = b[k]
    /\ \A m, k \in Nat : m <= k /\ k <= c => Slice(b, 0, m) \o Slice(b, m, k) = Slice(b, 0, k)
    /\ \A m, e, n \in Nat : m <= e /\ e <= c => Limit(Slice(b, m, e), n) = Slice(b, m, PageEnd(e, m, n))

LEMMA RowPages ==
    ASSUME NEW S, NEW c \in Nat, NEW b \in [1 .. c -> S]
    PROVE  Pages(b, c)
<1>1. ASSUME NEW m \in Nat, NEW k \in Nat, m < k, k <= c
      PROVE  Last(Slice(b, m, k)) = b[k]
  BY <1>1, SliceLast
<1>2. ASSUME NEW m \in Nat, NEW k \in Nat, m <= k, k <= c
      PROVE  Slice(b, 0, m) \o Slice(b, m, k) = Slice(b, 0, k)
  BY <1>2, SlicesJoin
<1>3. ASSUME NEW m \in Nat, NEW e \in Nat, NEW n \in Nat, m <= e, e <= c
      PROVE  Limit(Slice(b, m, e), n) = Slice(b, m, PageEnd(e, m, n))
  <2>1. m \in 0 .. c /\ e \in m .. c
    BY <1>3
  <2> QED
    BY <2>1, LimitOfSlice
<1> QED
  BY <1>1, <1>2, <1>3 DEF Pages

\* What the page after place m gives: its rows, their ranks, and the cursor of the next
\* page if there are more.
NextAt(b, c, k) == IF k < c THEN BoardCursor(b, k) ELSE None

LEMMA BoardPage ==
    ASSUME RegTyped, IsFiniteSet(DOMAIN reg), NEW b, b = OrderBy(DOMAIN reg, BoardOrder),
           NEW c, c = Cardinality(DOMAIN reg), NEW m \in 0 .. c, NEW size \in Nat, size # 0,
           NEW k, k = PageEnd(c, m, size)
    PROVE  liveScoreboardPage(size, BoardCursor(b, m))
             = [rows |-> Slice(b, m, k), ranks |-> Slice(RanksOf(b), m, k), next |-> NextAt(b, c, k)]
<1>1. PICK S : S = DOMAIN reg
  OBVIOUS
<1>2. RowOf(b, DOMAIN reg, BoardOrder)
  BY OrderByIsRow, BoardOrders
<1>3. c \in Nat
  BY FS_CardinalityType
<1>4. m \in Nat /\ m <= c
  BY <1>3
<1>5. PICK r : r = RanksOf(b)
  OBVIOUS
<1>6. PICK V : V = {RankOf(b[i]) : i \in 1 .. c}
  OBVIOUS
<1>7. b \in [1 .. c -> S] /\ r \in [1 .. c -> V] /\ \A i \in 1 .. c : r[i] = RankOf(b[i])
  <2>1. b \in [1 .. c -> S] /\ DOMAIN b = 1 .. c
    BY <1>1, <1>2 DEF RowOf
  <2> QED
    BY <1>5, <1>6, <2>1 DEF RanksOf
<1>8. PICK e : e = PageEnd(c, m, size + 1)
  OBVIOUS
<1>9. /\ e \in m .. c /\ e \in Nat /\ m <= e /\ e <= c
      /\ k \in m .. c /\ k \in Nat /\ m <= k /\ k <= c
      /\ PageEnd(e, m, size) = k
      /\ e - m > size <=> k < c
      /\ k < c => m < k
  BY <1>3, <1>4, <1>8 DEF PageEnd
<1>10. PICK cursor : cursor = BoardCursor(b, m)
  OBVIOUS
<1>11. PICK registrations : registrations = ListScoreboardRegistrations(cursor, size + 1)
  OBVIOUS
<1>12. registrations = Slice(b, m, e)
  <2>1. size + 1 \in Nat /\ m \in 0 .. Cardinality(DOMAIN reg)
    OBVIOUS
  <2>2. ListScoreboardRegistrations(BoardCursor(b, m), size + 1)
          = Slice(b, m, PageEnd(Cardinality(DOMAIN reg), m, size + 1))
    BY <2>1, PageRows
  <2> QED
    BY <1>8, <1>10, <1>11, <2>2
<1>13. Len(registrations) = e - m
  <2>1. IsSlice(registrations, S, b, m, e)
    BY <1>3, <1>4, <1>7, <1>9, <1>12, SliceIsSeq
  <2> QED
    BY <2>1 DEF IsSlice
<1>14. PICK rows : rows = Limit(registrations, size)
  OBVIOUS
<1>15. rows = Slice(b, m, k)
  <2>1. Pages(b, c)
    BY <1>3, <1>7, RowPages
  <2>2. Limit(Slice(b, m, e), size) = Slice(b, m, PageEnd(e, m, size))
    BY <1>4, <1>9, <2>1 DEF Pages
  <2> QED
    BY <1>9, <1>12, <1>14, <2>2
<1>16. PICK ranks : ranks = applyPageRanks(rows, cursor)
  OBVIOUS
<1>17. ranks = Slice(r, m, k)
  <2>1. m \in 0 .. Cardinality(DOMAIN reg) /\ k \in m .. Cardinality(DOMAIN reg)
    BY <1>9
  <2>2. applyPageRanks(Slice(b, m, k), BoardCursor(b, m)) = Slice(RanksOf(b), m, k)
    BY <1>2, <2>1, PageRanks
  <2> QED
    BY <1>5, <1>10, <1>15, <1>16, <2>2
<1>18. liveScoreboardPage(size, cursor)
         = [rows |-> rows, ranks |-> ranks,
            next |-> IF Len(registrations) > size THEN nextCursor(rows, ranks, cursor) ELSE None]
  BY <1>11, <1>14, <1>16 DEF liveScoreboardPage
<1>19. ASSUME k < c
       PROVE  nextCursor(rows, ranks, cursor) = BoardCursor(b, k)
  <2>1. m < k /\ k # 0 /\ k \in 1 .. c
    BY <1>4, <1>9, <1>19
  <2>2. Last(Slice(b, m, k)) = b[k]
    <3>1. Pages(b, c)
      BY <1>3, <1>7, RowPages
    <3> QED
      BY <1>4, <1>9, <2>1, <3>1 DEF Pages
  <2>3. Last(Slice(r, m, k)) = r[k]
    <3>1. Pages(r, c)
      BY <1>3, <1>7, RowPages
    <3> QED
      BY <1>4, <1>9, <2>1, <3>1 DEF Pages
  <2>4. Len(rows) = k - m
    <3>1. IsSlice(rows, S, b, m, k)
      BY <1>3, <1>4, <1>7, <1>9, <1>15, SliceIsSeq
    <3> QED
      BY <3>1 DEF IsSlice
  <2>5. cursor.seen = m
    BY <1>10 DEF BoardCursor, NoCursor
  <2>6. cursor.seen + Len(rows) = k /\ r[k] = RankOf(b[k])
    BY <1>4, <1>7, <1>9, <2>1, <2>4, <2>5
  <2>7. nextCursor(rows, ranks, cursor) = [after |-> b[k], seen |-> k, rank |-> RankOf(b[k])]
    BY <1>15, <1>17, <2>2, <2>3, <2>6 DEF nextCursor
  <2> QED
    BY <2>1, <2>7 DEF BoardCursor
<1>20. (IF Len(registrations) > size THEN nextCursor(rows, ranks, cursor) ELSE None) = NextAt(b, c, k)
  BY <1>9, <1>13, <1>19 DEF NextAt
<1> QED
  BY <1>5, <1>10, <1>15, <1>17, <1>18, <1>20

\* What a reader has seen of board b after n pages, which reach place m of c.
Seen(b, c, n, m) ==
    [next |-> IF n = 0 THEN NoCursor ELSE NextAt(b, c, m),
     rows |-> Slice(b, 0, m), ranks |-> Slice(RanksOf(b), 0, m)]

\* The page after it, put behind it.
BoardStep(size, w) ==
    LET page == liveScoreboardPage(size, w.next)
    IN  IF w.next = None THEN w
        ELSE [next |-> page.next, rows |-> w.rows \o page.rows, ranks |-> w.ranks \o page.ranks]

\* The place n pages of `size' rows reach, of c.
PlaceAfter(c, size, n) == IF n * size < c THEN n * size ELSE c

LEMMA PlacesAreReached ==
    ASSUME NEW c \in Nat, NEW size \in Nat, size # 0
    PROVE  /\ PlaceAfter(c, size, 0) = 0
           /\ \A n \in Nat : PlaceAfter(c, size, n) \in 0 .. c
           /\ \A n \in Nat : n >= c => PlaceAfter(c, size, n) = c
           /\ \A n \in Nat : PlaceAfter(c, size, n + 1) = PageEnd(c, PlaceAfter(c, size, n), size)
<1>1. 0 * size = 0
  OBVIOUS
<1>2. \A n \in Nat : n * size \in Nat /\ n * size >= n
  OBVIOUS
<1>3. \A n \in Nat : (n + 1) * size = n * size + size
  OBVIOUS
<1>4. PlaceAfter(c, size, 0) = 0
  BY <1>1 DEF PlaceAfter
<1>5. \A n \in Nat : PlaceAfter(c, size, n) \in 0 .. c
  BY <1>2 DEF PlaceAfter
<1>6. \A n \in Nat : n >= c => PlaceAfter(c, size, n) = c
  <2> SUFFICES ASSUME NEW n \in Nat, n >= c
               PROVE  PlaceAfter(c, size, n) = c
    OBVIOUS
  <2>1. PICK x \in Nat : x = n * size /\ x >= n
    BY <1>2
  <2> QED
    BY <2>1 DEF PlaceAfter
<1>7. ASSUME NEW n \in Nat
      PROVE  PlaceAfter(c, size, n + 1) = PageEnd(c, PlaceAfter(c, size, n), size)
  <2>1. PICK x \in Nat : x = n * size
    BY <1>2
  <2>2. (n + 1) * size = x + size
    BY <1>3, <2>1
  <2>3. PlaceAfter(c, size, n + 1) = IF x + size < c THEN x + size ELSE c
    BY <2>2 DEF PlaceAfter
  <2>4. PlaceAfter(c, size, n) = IF x < c THEN x ELSE c
    BY <2>1 DEF PlaceAfter
  <2> QED
    BY <2>3, <2>4 DEF PageEnd
<1> QED
  BY <1>4, <1>5, <1>6, <1>7

\* A cursor is never mistaken for the end of the board.
LEMMA CursorIsSome ==
    ASSUME NEW b, NEW c \in Nat, NEW m \in 0 .. c, IsFiniteSet(DOMAIN reg), RegTyped, b \in [1 .. c -> DOMAIN reg]
    PROVE  BoardCursor(b, m) # None
<1>1. PICK Cursors : Cursors = [after : Nat \cup {None}, seen : Nat, rank : Nat]
  OBVIOUS
<1>2. None \notin Cursors
  BY <1>1, ContestAssumption
<1>3. CASE m = 0
  <2>1. NoCursor \in Cursors
    BY <1>1 DEF NoCursor
  <2> QED
    BY <1>2, <1>3, <2>1 DEF BoardCursor
<1>4. CASE m # 0
  <2>1. m \in 1 .. c /\ m \in Nat
    BY <1>4
  <2>2. b[m] \in DOMAIN reg
    BY <2>1
  <2>3. b[m] \in Nat
    BY <2>2, ContestAssumption DEF RegTyped
  <2>4. RankOf(b[m]) \in Nat
    <3>1. AheadOf(b[m]) \subseteq DOMAIN reg
      BY DEF AheadOf
    <3>2. Cardinality(AheadOf(b[m])) \in Nat
      BY <3>1, FS_Subset, FS_CardinalityType
    <3> QED
      BY <3>2 DEF RankOf
  <2>5. [after |-> b[m], seen |-> m, rank |-> RankOf(b[m])] \in Cursors
    BY <1>1, <2>1, <2>3, <2>4
  <2> QED
    BY <1>2, <1>4, <2>5 DEF BoardCursor
<1> QED
  BY <1>3, <1>4

LEMMA BoardStepIs ==
    ASSUME RegTyped, IsFiniteSet(DOMAIN reg), NEW b, b = OrderBy(DOMAIN reg, BoardOrder),
           NEW size \in Nat, size # 0, NEW n \in Nat, NEW c, c = Cardinality(DOMAIN reg),
           NEW m, m = PlaceAfter(c, size, n), NEW k, k = PlaceAfter(c, size, n + 1)
    PROVE  BoardStep(size, Seen(b, c, n, m)) = Seen(b, c, n + 1, k)
<1>1. c \in Nat
  BY FS_CardinalityType
<1>2. PICK S : S = DOMAIN reg
  OBVIOUS
<1>3. PICK r : r = RanksOf(b)
  OBVIOUS
<1>4. PICK V : V = {RankOf(b[i]) : i \in 1 .. c}
  OBVIOUS
<1>5. b \in [1 .. c -> S] /\ r \in [1 .. c -> V]
  <2>1. RowOf(b, DOMAIN reg, BoardOrder)
    BY OrderByIsRow, BoardOrders
  <2>2. b \in [1 .. c -> S] /\ DOMAIN b = 1 .. c
    BY <1>2, <2>1 DEF RowOf
  <2> QED
    BY <1>3, <1>4, <2>2 DEF RanksOf
<1>6. PICK w : w = Seen(b, c, n, m)
  OBVIOUS
<1>7. /\ w.next = IF n = 0 THEN NoCursor ELSE NextAt(b, c, m)
      /\ w.rows = Slice(b, 0, m) /\ w.ranks = Slice(r, 0, m)
      /\ w = [next |-> w.next, rows |-> w.rows, ranks |-> w.ranks]
  BY <1>3, <1>6 DEF Seen
<1>8. /\ n = 0 => m = 0
      /\ m \in 0 .. c /\ k \in 0 .. c
      /\ k = PageEnd(c, m, size)
  BY <1>1, PlacesAreReached
<1>9. m \in Nat /\ k \in Nat /\ m <= k /\ k <= c
  BY <1>1, <1>8 DEF PageEnd
<1>10. CASE n # 0 /\ ~(m < c)
  <2>1. w.next = None /\ m = c /\ k = c
    BY <1>1, <1>7, <1>8, <1>10 DEF PageEnd, NextAt
  <2>2. BoardStep(size, w) = w
    BY <2>1 DEF BoardStep
  <2>3. n + 1 # 0 /\ ~(k < c) /\ k = m
    BY <1>1, <2>1
  <2>4. Seen(b, c, n + 1, k) = [next |-> None, rows |-> Slice(b, 0, m), ranks |-> Slice(r, 0, m)]
    BY <1>3, <2>3 DEF Seen, NextAt
  <2> QED
    BY <1>6, <1>7, <2>1, <2>2, <2>4
<1>11. CASE n = 0 \/ m < c
  <2>1. w.next = BoardCursor(b, m)
    <3>1. CASE n = 0
      BY <1>7, <1>8, <3>1 DEF BoardCursor
    <3>2. CASE n # 0
      BY <1>7, <1>11, <3>2 DEF NextAt
    <3> QED
      BY <3>1, <3>2
  <2>2. w.next # None
    BY <1>1, <1>2, <1>5, <1>8, <2>1, CursorIsSome
  <2>3. PICK page : page = liveScoreboardPage(size, BoardCursor(b, m))
    OBVIOUS
  <2>4. page = [rows |-> Slice(b, m, k), ranks |-> Slice(RanksOf(b), m, k), next |-> NextAt(b, c, k)]
    BY <1>8, <2>3, BoardPage
  <2>5. page.rows = Slice(b, m, k) /\ page.ranks = Slice(r, m, k) /\ page.next = NextAt(b, c, k)
    BY <1>3, <2>4
  <2>6. BoardStep(size, w) = [next |-> page.next, rows |-> w.rows \o page.rows, ranks |-> w.ranks \o page.ranks]
    BY <2>1, <2>2, <2>3 DEF BoardStep
  <2>7. Slice(b, 0, m) \o Slice(b, m, k) = Slice(b, 0, k)
    <3>1. Pages(b, c)
      BY <1>1, <1>5, RowPages
    <3> QED
      BY <1>9, <3>1 DEF Pages
  <2>8. Slice(r, 0, m) \o Slice(r, m, k) = Slice(r, 0, k)
    <3>1. Pages(r, c)
      BY <1>1, <1>5, RowPages
    <3> QED
      BY <1>9, <3>1 DEF Pages
  <2>9. n + 1 # 0
    OBVIOUS
  <2>10. Seen(b, c, n + 1, k) = [next |-> NextAt(b, c, k), rows |-> Slice(b, 0, k), ranks |-> Slice(r, 0, k)]
    BY <1>3, <2>9 DEF Seen
  <2> QED
    BY <1>6, <1>7, <2>5, <2>6, <2>7, <2>8, <2>10
<1> QED
  BY <1>10, <1>11

NothingSeen == [next |-> NoCursor, rows |-> <<>>, ranks |-> <<>>]

\* One page more than there are registrations reaches the end of the board and says so.
LEMMA BoardIsWalked ==
    ASSUME RegTyped, IsFiniteSet(DOMAIN reg), NEW b, b = OrderBy(DOMAIN reg, BoardOrder),
           NEW c, c = Cardinality(DOMAIN reg), NEW size \in Nat, size # 0
    PROVE  BoardWalk(size)[c + 1] = [next |-> None, rows |-> Slice(b, 0, c), ranks |-> Slice(RanksOf(b), 0, c)]
<1>1. PICK N : N = c + 1
  OBVIOUS
<1>2. c \in Nat /\ N \in Nat /\ N # 0 /\ c <= N
  BY <1>1, FS_CardinalityType
<1> DEFINE at(n) == PlaceAfter(c, size, n)
           next(h, n) == IF n = 0 THEN NothingSeen ELSE BoardStep(size, h[n - 1])
<1>3. at(0) = 0 /\ at(N) = c
  BY <1>2, PlacesAreReached
<1>4. PICK g : g = [n \in 0 .. N |-> Seen(b, c, n, at(n))]
  OBVIOUS
<1>5. NothingSeen = Seen(b, c, 0, at(0))
  <2>1. Slice(b, 0, 0) = <<>> /\ Slice(RanksOf(b), 0, 0) = <<>>
    BY SliceEmpty
  <2> QED
    BY <1>3, <2>1 DEF NothingSeen, Seen
<1>6. ASSUME NEW n \in Nat
      PROVE  BoardStep(size, Seen(b, c, n, at(n))) = Seen(b, c, n + 1, at(n + 1))
  BY BoardStepIs
<1> HIDE DEF at
<1>7. ASSUME NEW n \in 0 .. N
      PROVE  next(g, n) = g[n]
  <2>1. g[n] = Seen(b, c, n, at(n))
    BY <1>4
  <2>2. CASE n = 0
    BY <1>5, <2>1, <2>2
  <2>3. CASE n # 0
    <3>1. n - 1 \in 0 .. N /\ n - 1 \in Nat /\ (n - 1) + 1 = n
      BY <1>2, <2>3
    <3>2. g[n - 1] = Seen(b, c, n - 1, at(n - 1))
      BY <1>4, <3>1
    <3>3. BoardStep(size, Seen(b, c, n - 1, at(n - 1))) = Seen(b, c, (n - 1) + 1, at((n - 1) + 1))
      BY <1>6, <3>1
    <3> QED
      BY <2>1, <2>3, <3>1, <3>2, <3>3
  <2> QED
    BY <2>2, <2>3
<1>8. g = [n \in 0 .. N |-> next(g, n)]
  <2> HIDE DEF next
  <2>1. g = [n \in 0 .. N |-> g[n]]
    BY <1>4
  <2> QED
    BY <1>7, <2>1, Zenon
<1>9. PICK f : f = BoardWalk(size)
  OBVIOUS
<1>10. f = [n \in 0 .. N |-> next(f, n)]
  <2>1. BoardWalk(size) = CHOOSE h : h = [n \in 0 .. N |-> next(h, n)]
    BY <1>1 DEF BoardWalk, BoardStep, NothingSeen
  <2> HIDE DEF next
  <2> QED
    BY <1>8, <1>9, <2>1, Zenon
<1>11. \A n \in 0 .. N : f[n] = g[n]
  <2> DEFINE T == {n \in 0 .. N : f[n] = g[n]}
  <2>0. \A n \in 0 .. N : f[n] = next(f, n) /\ g[n] = next(g, n)
    <3> HIDE DEF next
    <3> QED
      BY <1>8, <1>10
  <2>1. 0 \in T
    BY <1>2, <2>0
  <2>2. ASSUME NEW n \in 0 .. N, n \in T, n # N
        PROVE  n + 1 \in T
    <3>1. n + 1 \in 0 .. N /\ (n + 1) - 1 = n /\ n + 1 # 0
      BY <1>2, <2>2
    <3>2. next(f, n + 1) = next(g, n + 1)
      BY <2>2, <3>1
    <3> HIDE DEF next
    <3> QED
      BY <2>0, <3>1, <3>2
  <2> HIDE DEF T
  <2>3. 0 .. N \subseteq T
    BY <1>2, <2>1, <2>2, UpTo
  <2> QED
    BY <2>3 DEF T
<1>12. f[N] = Seen(b, c, N, c)
  <2>1. N \in 0 .. N
    BY <1>2
  <2> QED
    BY <1>3, <1>4, <1>11, <2>1
<1>13. Seen(b, c, N, c) = [next |-> None, rows |-> Slice(b, 0, c), ranks |-> Slice(RanksOf(b), 0, c)]
  BY <1>2 DEF Seen, NextAt
<1> QED
  BY <1>1, <1>9, <1>12, <1>13

LEMMA BoardRanks ==
    ASSUME RegTyped, IsFiniteSet(DOMAIN reg)
    PROVE  BoardPagesRank
<1>1. PICK c : c = Cardinality(DOMAIN reg)
  OBVIOUS
<1>2. c \in Nat
  BY <1>1, FS_CardinalityType
<1>3. PICK b : b = OrderBy(DOMAIN reg, BoardOrder)
  OBVIOUS
<1>4. RowOf(b, DOMAIN reg, BoardOrder)
  BY <1>3, OrderByIsRow, BoardOrders
<1>5. b \in [1 .. c -> DOMAIN reg] /\ DOMAIN b = 1 .. c
  BY <1>1, <1>4 DEF RowOf
<1>6. Slice(b, 0, c) = b /\ Slice(RanksOf(b), 0, c) = RanksOf(b)
  <2>1. c - 0 = c /\ \A i \in 1 .. c : 0 + i = i
    BY <1>2
  <2>2. Slice(b, 0, c) = [i \in 1 .. c |-> b[i]] /\ Slice(RanksOf(b), 0, c) = [i \in 1 .. c |-> RanksOf(b)[i]]
    BY <2>1 DEF Slice
  <2>3. [i \in 1 .. c |-> b[i]] = b
    BY <1>5
  <2>4. [i \in 1 .. c |-> RanksOf(b)[i]] = RanksOf(b)
    BY <1>5 DEF RanksOf
  <2> QED
    BY <2>2, <2>3, <2>4
<1>7. ToSet(b) = DOMAIN reg
  <2>1. ToSet(b) \subseteq DOMAIN reg
    BY <1>5 DEF ToSet
  <2>2. \A u \in DOMAIN reg : \E i \in 1 .. c : u = b[i]
    BY <1>1, <1>4, RowCovers, BoardOrders
  <2>3. DOMAIN reg \subseteq ToSet(b)
    BY <1>5, <2>2 DEF ToSet
  <2> QED
    BY <2>1, <2>3
<1>8. \A i, j \in 1 .. c : i < j => Before(b[i], b[j])
  <2>1. \A i, j \in 1 .. c : i < j => <<b[i], b[j]>> \in BoardOrder
    BY <1>1, <1>4 DEF RowOf
  <2> QED
    BY <1>5, <2>1, BoardOrders
<1>9. \A i \in 1 .. c : RanksOf(b)[i] = 1 + Cardinality({u \in DOMAIN reg : Ahead(reg[u], reg[b[i]])})
  BY <1>5 DEF RanksOf, RankOf, AheadOf
<1> SUFFICES ASSUME NEW size \in 1 .. c + 1, NEW end, end = BoardWalk(size)[c + 1]
             PROVE  /\ end.next = None
                    /\ ToSet(end.rows) = DOMAIN reg
                    /\ \A i, j \in DOMAIN end.rows : i < j => Before(end.rows[i], end.rows[j])
                    /\ \A i \in DOMAIN end.rows : end.ranks[i] =
                            1 + Cardinality({u \in DOMAIN reg : Ahead(reg[u], reg[end.rows[i]])})
  BY <1>1 DEF BoardPagesRank
<1>10. end = [next |-> None, rows |-> b, ranks |-> RanksOf(b)]
  <2>1. size \in Nat /\ size # 0
    BY <1>2
  <2> QED
    BY <1>1, <1>3, <1>6, <2>1, BoardIsWalked
<1>11. end.next = None /\ end.rows = b /\ end.ranks = RanksOf(b) /\ DOMAIN end.rows = 1 .. c
  BY <1>5, <1>10
<1> QED
  BY <1>7, <1>8, <1>9, <1>11

-----------------------------------------------------------------------------
(* The listings of submissions.                                            *)

\* Whose submissions a listing has.
Wanted(own, u) == {s \in DOMAIN subs : subs[s].user = u \/ (~own /\ canInspectSubmissions(u))}

LEMMA NewestOrders ==
    ASSUME SubsTyped, NEW W \in SUBSET DOMAIN subs
    PROVE  /\ Len(subs) \in Nat /\ DOMAIN subs = 1 .. Len(subs)
           /\ \A s, t \in DOMAIN subs : <<s, t>> \in NewestFirst <=> s > t
           /\ Orders(NewestFirst, W)
           /\ IsFiniteSet(W) /\ Cardinality(W) \in Nat /\ Cardinality(W) <= Len(subs)
<1>1. Len(subs) \in Nat /\ DOMAIN subs = 1 .. Len(subs)
  BY DEF SubsTyped
<1>2. \A s, t \in DOMAIN subs : <<s, t>> \in NewestFirst <=> s > t
  BY DEF NewestFirst
<1>3. \A s \in W : s \in Nat /\ s \in DOMAIN subs
  BY <1>1
<1>4. /\ \A s \in W : <<s, s>> \notin NewestFirst
      /\ \A s, t \in W : s = t \/ <<s, t>> \in NewestFirst \/ <<t, s>> \in NewestFirst
  BY <1>2, <1>3
<1>5. \A s, t, x \in W : <<s, t>> \in NewestFirst /\ <<t, x>> \in NewestFirst => <<s, x>> \in NewestFirst
  BY <1>2, <1>3
<1>6. IsFiniteSet(1 .. Len(subs)) /\ Cardinality(1 .. Len(subs)) = Len(subs)
  BY <1>1, FS_Interval
<1>7. IsFiniteSet(W) /\ Cardinality(W) <= Len(subs)
  BY <1>1, <1>6, FS_Subset
<1>8. Cardinality(W) \in Nat
  BY <1>7, FS_CardinalityType
<1> QED
  BY <1>1, <1>2, <1>4, <1>5, <1>7, <1>8 DEF Orders

\* Where the cursor stands that was given out with place m.
CursorAt(b, m) == IF m = 0 THEN NoSubmissionCursor ELSE b[m]

LEMMA ListedBefore ==
    ASSUME SubsTyped, NEW W \in SUBSET DOMAIN subs, NEW b, b = OrderBy(W, NewestFirst),
           NEW m \in 0 .. Cardinality(W), NEW n \in Nat
    PROVE  SubmissionsBefore(CursorAt(b, m), n, W) = Slice(b, m, PageEnd(Cardinality(W), m, n))
<1>1. PICK c : c = Cardinality(W)
  OBVIOUS
<1>2. PICK R : R = NewestFirst
  OBVIOUS
<1>3. /\ c \in Nat /\ IsFiniteSet(W) /\ Orders(R, W)
      /\ Len(subs) \in Nat /\ DOMAIN subs = 1 .. Len(subs)
      /\ \A s, t \in DOMAIN subs : <<s, t>> \in R <=> s > t
  BY <1>1, <1>2, NewestOrders
<1>4. b = OrderBy(W, R)
  BY <1>2
<1>5. RowOf(b, W, R)
  BY <1>3, <1>4, OrderByIsRow
<1>6. b \in [1 .. c -> W]
  BY <1>1, <1>5 DEF RowOf
<1>7. PICK due : due = {s \in W : s < CursorAt(b, m)}
  OBVIOUS
<1>8. OrderBy(due, R) = Slice(b, m, c)
  <2>1. CASE m = 0
    <3>1. \A s \in W : s < Len(subs) + 1
      BY <1>3
    <3>2. due = W
      BY <1>7, <2>1, <3>1 DEF CursorAt, NoSubmissionCursor
    <3>3. b = [i \in 1 .. c |-> b[i]] /\ c - 0 = c /\ \A i \in 1 .. c : 0 + i = i
      BY <1>3, <1>6
    <3>4. Slice(b, 0, c) = [i \in 1 .. c |-> b[i]]
      BY <3>3 DEF Slice
    <3> QED
      BY <1>4, <2>1, <3>2, <3>3, <3>4
  <2>2. CASE m # 0
    <3>1. m \in 1 .. Cardinality(W) /\ m \in 1 .. c
      BY <1>1, <1>3, <2>2
    <3>2. b[m] \in W /\ CursorAt(b, m) = b[m]
      BY <1>6, <2>2, <3>1 DEF CursorAt
    <3>3. \A s \in W : s < b[m] <=> <<b[m], s>> \in R
      BY <1>3, <3>2
    <3>4. due = {s \in W : <<b[m], s>> \in R}
      BY <1>7, <3>2, <3>3
    <3>5. OrderBy(due, R) = Slice(b, m, Cardinality(W))
      BY <1>3, <1>5, <3>1, <3>4, RestOfRow
    <3> QED
      BY <1>1, <3>5
  <2> QED
    BY <2>1, <2>2
<1>9. SubmissionsBefore(CursorAt(b, m), n, W) = Limit(OrderBy(due, R), n)
  BY <1>2, <1>7 DEF SubmissionsBefore
<1>10. Limit(Slice(b, m, c), n) = Slice(b, m, PageEnd(c, m, n))
  <2>1. m \in 0 .. c /\ c \in m .. c
    BY <1>1, <1>3
  <2> QED
    BY <1>3, <1>6, <2>1, LimitOfSlice, ZenonT(40)
<1> QED
  BY <1>1, <1>8, <1>9, <1>10

\* Either listing reads one row more than its page from the submissions wanted.
LEMMA ListingReads ==
    ASSUME NEW own \in BOOLEAN, NEW u \in Users, NEW cursor, NEW limit
    PROVE  SubmissionPage(own, u, cursor, limit)
             = cursorPage(u, SubmissionsBefore(cursor, limit + 1, Wanted(own, u)), limit)
<1>1. u # None
  BY ContestAssumption
<1>2. CASE own
  <2>1. Wanted(own, u) = {s \in DOMAIN subs : subs[s].user = u}
    BY <1>2 DEF Wanted
  <2> QED
    BY <1>2, <2>1 DEF SubmissionPage, ListOwnSubmissionsByCursor, ListSubmissionsByUserBefore
<1>3. CASE ~own
  <2>1. PICK owner : owner = IF canInspectSubmissions(u) THEN None ELSE u
    OBVIOUS
  <2>2. {s \in DOMAIN subs : owner \in {None, subs[s].user}} = Wanted(own, u)
    BY <1>1, <1>3, <2>1 DEF Wanted
  <2>3. ListSubmissionsByCursor(u, cursor, limit)
          = cursorPage(u, SubmissionsBefore(cursor, limit + 1,
                              {s \in DOMAIN subs : owner \in {None, subs[s].user}}), limit)
    BY <2>1 DEF ListSubmissionsByCursor, buildListSubmissionsByCursorQuery
  <2> QED
    BY <1>3, <2>2, <2>3 DEF SubmissionPage
<1> QED
  BY <1>2, <1>3

\* A page has the rows after its cursor, and the cursor of the next if there are more.
LEMMA ListingPage ==
    ASSUME SubsTyped, NEW own \in BOOLEAN, NEW u \in Users, canReadContestAs(u),
           NEW W, W = Wanted(own, u), NEW b, b = OrderBy(W, NewestFirst),
           NEW m \in 0 .. Cardinality(W), NEW limit \in Nat, limit # 0,
           NEW k, k = PageEnd(Cardinality(W), m, limit)
    PROVE  /\ SubmissionPage(own, u, CursorAt(b, m), limit).items = Slice(b, m, k)
           /\ SubmissionPage(own, u, CursorAt(b, m), limit).next = IF k < Cardinality(W) THEN b[k] ELSE None
<1>1. PICK c : c = Cardinality(W)
  OBVIOUS
<1>2. W \in SUBSET DOMAIN subs
  BY DEF Wanted
<1>3. c \in Nat /\ b \in [1 .. c -> W]
  <2>1. /\ c \in Nat /\ IsFiniteSet(W) /\ Orders(NewestFirst, W)
    BY <1>1, <1>2, NewestOrders
  <2>2. RowOf(b, W, NewestFirst)
    BY <2>1, OrderByIsRow
  <2> QED
    BY <1>1, <2>1, <2>2 DEF RowOf
<1>4. m \in 0 .. c /\ m \in Nat /\ k = PageEnd(c, m, limit)
  BY <1>1, <1>3
<1>5. PICK e : e = PageEnd(c, m, limit + 1)
  OBVIOUS
<1>6. /\ e \in m .. c /\ e \in Nat /\ m <= e /\ e <= c
      /\ k \in m .. c /\ k \in Nat /\ m <= k /\ k <= c
      /\ PageEnd(e, m, limit) = k
      /\ e - m > limit <=> k < c
      /\ k < c => m < k
  BY <1>3, <1>4, <1>5 DEF PageEnd
<1>7. PICK records : records = SubmissionsBefore(CursorAt(b, m), limit + 1, W)
  OBVIOUS
<1>8. records = Slice(b, m, e)
  <2>1. limit + 1 \in Nat
    OBVIOUS
  <2> QED
    BY <1>1, <1>2, <1>5, <1>7, <2>1, ListedBefore
<1>9. Len(records) = e - m
  <2>1. IsSlice(records, W, b, m, e)
    BY <1>3, <1>4, <1>6, <1>8, SliceIsSeq
  <2> QED
    BY <2>1 DEF IsSlice
<1>10. Limit(records, limit) = Slice(b, m, k)
  <2>1. m \in 0 .. c /\ e \in m .. c
    BY <1>4, <1>6
  <2>2. Limit(Slice(b, m, e), limit) = Slice(b, m, PageEnd(e, m, limit))
    BY <1>3, <2>1, LimitOfSlice
  <2> QED
    BY <1>6, <1>8, <2>2
<1>11. PICK items : items = Limit(records, limit)
  OBVIOUS
<1>12. PICK page : page = cursorPage(u, records, limit)
  OBVIOUS
<1>13. page = [items |-> items, views |-> submissionListViews(u, ToSet(items)),
               next |-> IF Len(records) > limit THEN Last(items) ELSE None]
  BY <1>11, <1>12 DEF cursorPage, refusesPage
<1>14. page.items = Slice(b, m, k) /\ page.next = IF e - m > limit THEN Last(Slice(b, m, k)) ELSE None
  BY <1>9, <1>10, <1>11, <1>13
<1>15. page.next = IF k < c THEN b[k] ELSE None
  <2>1. CASE k < c
    <3>1. Last(Slice(b, m, k)) = b[k]
      <4>1. Pages(b, c)
        BY <1>3, RowPages
      <4> QED
        BY <1>4, <1>6, <2>1, <4>1 DEF Pages
    <3> QED
      BY <1>6, <1>14, <2>1, <3>1
  <2>2. CASE ~(k < c)
    BY <1>6, <1>14, <2>2
  <2> QED
    BY <2>1, <2>2
<1>16. SubmissionPage(own, u, CursorAt(b, m), limit) = page
  BY <1>7, <1>12, ListingReads
<1> QED
  BY <1>1, <1>14, <1>15, <1>16

\* What a reader has of listing b after n pages, which reach place m of c.
Listed(b, c, n, m) ==
    [next |-> IF n = 0 THEN NoSubmissionCursor ELSE IF m < c THEN b[m] ELSE None,
     items |-> Slice(b, 0, m)]

ListStep(own, u, limit, w) ==
    LET page == SubmissionPage(own, u, w.next, limit)
    IN  IF w.next = None THEN w
        ELSE [next |-> page.next, items |-> w.items \o page.items]

LEMMA ListStepIs ==
    ASSUME SubsTyped, NEW own \in BOOLEAN, NEW u \in Users, canReadContestAs(u),
           NEW W, W = Wanted(own, u), NEW b, b = OrderBy(W, NewestFirst),
           NEW limit \in Nat, limit # 0, NEW n \in Nat, NEW c, c = Cardinality(W),
           NEW m, m = PlaceAfter(c, limit, n), NEW k, k = PlaceAfter(c, limit, n + 1)
    PROVE  ListStep(own, u, limit, Listed(b, c, n, m)) = Listed(b, c, n + 1, k)
<1>1. W \in SUBSET DOMAIN subs
  BY DEF Wanted
<1>2. c \in Nat /\ b \in [1 .. c -> W] /\ Len(subs) \in Nat /\ \A s \in W : s \in Nat
  <2>1. /\ c \in Nat /\ IsFiniteSet(W) /\ Orders(NewestFirst, W)
        /\ Len(subs) \in Nat /\ DOMAIN subs = 1 .. Len(subs)
    BY <1>1, NewestOrders
  <2>2. RowOf(b, W, NewestFirst)
    BY <2>1, OrderByIsRow
  <2> QED
    BY <1>1, <2>1, <2>2 DEF RowOf
<1>3. PICK w : w = Listed(b, c, n, m)
  OBVIOUS
<1>4. /\ w.next = IF n = 0 THEN NoSubmissionCursor ELSE IF m < c THEN b[m] ELSE None
      /\ w.items = Slice(b, 0, m)
      /\ w = [next |-> w.next, items |-> w.items]
  BY <1>3 DEF Listed
<1>5. /\ n = 0 => m = 0
      /\ m \in 0 .. c /\ k \in 0 .. c
      /\ n >= c => m = c
      /\ k = PageEnd(c, m, limit)
  BY <1>2, PlacesAreReached
<1>6. n # 0 /\ m < c => m # 0
  <2> SUFFICES ASSUME n # 0, m < c, m = 0
               PROVE  FALSE
    OBVIOUS
  <2>1. m = n * limit
    BY DEF PlaceAfter
  <2>2. n * limit >= n
    OBVIOUS
  <2> QED
    BY <2>1, <2>2
<1>7. /\ m \in Nat /\ k \in Nat /\ m <= k /\ k <= c
  BY <1>2, <1>5 DEF PageEnd
<1>8. CASE n # 0 /\ ~(m < c)
  <2>1. w.next = None /\ m = c /\ k = c
    BY <1>2, <1>4, <1>5, <1>8 DEF PageEnd
  <2>2. ListStep(own, u, limit, w) = w
    BY <2>1 DEF ListStep
  <2>3. n + 1 # 0 /\ ~(k < c) /\ k = m
    BY <1>2, <2>1
  <2>4. Listed(b, c, n + 1, k) = [next |-> None, items |-> Slice(b, 0, m)]
    BY <2>3 DEF Listed
  <2> QED
    BY <1>3, <1>4, <2>1, <2>2, <2>4
<1>9. CASE n = 0 \/ m < c
  <2>1. w.next = CursorAt(b, m) /\ w.next # None
    <3>1. None \notin Nat
      BY ContestAssumption
    <3>2. CASE n = 0
      BY <1>2, <1>4, <1>5, <3>1, <3>2 DEF CursorAt, NoSubmissionCursor
    <3>3. CASE n # 0
      <4>1. m \in 1 .. c /\ m # 0
        BY <1>2, <1>5, <1>6, <1>9, <3>3
      <4>2. b[m] \in Nat
        BY <1>2, <4>1
      <4> QED
        BY <1>4, <1>9, <3>1, <3>3, <4>1, <4>2 DEF CursorAt
    <3> QED
      BY <3>2, <3>3
  <2>2. PICK page : page = SubmissionPage(own, u, CursorAt(b, m), limit)
    OBVIOUS
  <2>3. page.items = Slice(b, m, k) /\ page.next = IF k < c THEN b[k] ELSE None
    BY <1>5, <2>2, ListingPage
  <2>4. ListStep(own, u, limit, w) = [next |-> page.next, items |-> w.items \o page.items]
    BY <2>1, <2>2 DEF ListStep
  <2>5. Slice(b, 0, m) \o Slice(b, m, k) = Slice(b, 0, k)
    <3>1. Pages(b, c)
      BY <1>2, RowPages
    <3> QED
      BY <1>7, <3>1 DEF Pages
  <2>6. n + 1 # 0
    OBVIOUS
  <2>7. Listed(b, c, n + 1, k) = [next |-> IF k < c THEN b[k] ELSE None, items |-> Slice(b, 0, k)]
    BY <2>6 DEF Listed
  <2> QED
    BY <1>3, <1>4, <2>3, <2>4, <2>5, <2>7
<1> QED
  BY <1>8, <1>9

\* One page more than there are submissions reaches the end and says so.
LEMMA ListingIsWalked ==
    ASSUME SubsTyped, NEW own \in BOOLEAN, NEW u \in Users, canReadContestAs(u),
           NEW W, W = Wanted(own, u), NEW b, b = OrderBy(W, NewestFirst), NEW limit \in Nat, limit # 0
    PROVE  SubmissionWalk(own, u, limit)[Len(subs) + 1] = [next |-> None, items |-> Slice(b, 0, Cardinality(W))]
<1>1. PICK c : c = Cardinality(W)
  OBVIOUS
<1>2. PICK N : N = Len(subs) + 1
  OBVIOUS
<1>3. c \in Nat /\ N \in Nat /\ N # 0 /\ c <= N
  <2>1. W \in SUBSET DOMAIN subs
    BY DEF Wanted
  <2>2. Len(subs) \in Nat /\ c \in Nat /\ c <= Len(subs)
    BY <1>1, <2>1, NewestOrders
  <2> QED
    BY <1>2, <2>2
<1> DEFINE at(n) == PlaceAfter(c, limit, n)
           first == [next |-> NoSubmissionCursor, items |-> <<>>]
           step(h, n) == IF n = 0 THEN first ELSE ListStep(own, u, limit, h[n - 1])
<1>4. at(0) = 0 /\ at(N) = c
  BY <1>3, PlacesAreReached
<1>5. PICK g : g = [n \in 0 .. N |-> Listed(b, c, n, at(n))]
  OBVIOUS
<1>6. first = Listed(b, c, 0, at(0))
  <2>1. Slice(b, 0, 0) = <<>>
    BY SliceEmpty
  <2> QED
    BY <1>4, <2>1 DEF Listed
<1>7. ASSUME NEW n \in Nat
      PROVE  ListStep(own, u, limit, Listed(b, c, n, at(n))) = Listed(b, c, n + 1, at(n + 1))
  BY <1>1, ListStepIs
<1> HIDE DEF at, first
<1>8. ASSUME NEW n \in 0 .. N
      PROVE  step(g, n) = g[n]
  <2>1. g[n] = Listed(b, c, n, at(n))
    BY <1>5
  <2>2. CASE n = 0
    BY <1>6, <2>1, <2>2
  <2>3. CASE n # 0
    <3>1. n - 1 \in 0 .. N /\ n - 1 \in Nat /\ (n - 1) + 1 = n
      BY <1>3, <2>3
    <3>2. g[n - 1] = Listed(b, c, n - 1, at(n - 1))
      BY <1>5, <3>1
    <3>3. ListStep(own, u, limit, Listed(b, c, n - 1, at(n - 1))) = Listed(b, c, (n - 1) + 1, at((n - 1) + 1))
      BY <1>7, <3>1
    <3> QED
      BY <2>1, <2>3, <3>1, <3>2, <3>3
  <2> QED
    BY <2>2, <2>3
<1>9. g = [n \in 0 .. N |-> step(g, n)]
  <2> HIDE DEF step
  <2>1. g = [n \in 0 .. N |-> g[n]]
    BY <1>5
  <2> QED
    BY <1>8, <2>1, Zenon
<1>10. PICK f : f = SubmissionWalk(own, u, limit)
  OBVIOUS
<1>11. f = [n \in 0 .. N |-> step(f, n)]
  <2>1. SubmissionWalk(own, u, limit) = CHOOSE h : h = [n \in 0 .. N |-> step(h, n)]
    BY <1>2 DEF SubmissionWalk, ListStep, first
  <2> HIDE DEF step
  <2> QED
    BY <1>9, <1>10, <2>1, Zenon
<1>12. \A n \in 0 .. N : f[n] = g[n]
  <2> DEFINE T == {n \in 0 .. N : f[n] = g[n]}
  <2>0. \A n \in 0 .. N : f[n] = step(f, n) /\ g[n] = step(g, n)
    <3> HIDE DEF step
    <3> QED
      BY <1>9, <1>11
  <2>1. 0 \in T
    BY <1>3, <2>0
  <2>2. ASSUME NEW n \in 0 .. N, n \in T, n # N
        PROVE  n + 1 \in T
    <3>1. n + 1 \in 0 .. N /\ (n + 1) - 1 = n /\ n + 1 # 0
      BY <1>3, <2>2
    <3>2. step(f, n + 1) = step(g, n + 1)
      BY <2>2, <3>1
    <3> HIDE DEF step
    <3> QED
      BY <2>0, <3>1, <3>2
  <2> HIDE DEF T
  <2>3. 0 .. N \subseteq T
    BY <1>3, <2>1, <2>2, UpTo
  <2> QED
    BY <2>3 DEF T
<1>13. f[N] = Listed(b, c, N, c)
  <2>1. N \in 0 .. N
    BY <1>3
  <2> QED
    BY <1>4, <1>5, <1>12, <2>1
<1>14. Listed(b, c, N, c) = [next |-> None, items |-> Slice(b, 0, c)]
  BY <1>3 DEF Listed
<1> QED
  BY <1>1, <1>2, <1>10, <1>13, <1>14

LEMMA ListingsComplete ==
    ASSUME SubsTyped, NEW own \in BOOLEAN, NEW u \in Users, canReadContestAs(u),
           NEW limit \in Nat, limit # 0
    PROVE  SubmissionPagesComplete(own, u, limit)
<1>1. PICK W : W = Wanted(own, u)
  OBVIOUS
<1>2. PICK c : c = Cardinality(W)
  OBVIOUS
<1>3. PICK b : b = OrderBy(W, NewestFirst)
  OBVIOUS
<1>4. /\ W \in SUBSET DOMAIN subs /\ c \in Nat /\ IsFiniteSet(W) /\ Orders(NewestFirst, W)
      /\ \A s, t \in DOMAIN subs : <<s, t>> \in NewestFirst <=> s > t
  <2>1. W \in SUBSET DOMAIN subs
    BY <1>1 DEF Wanted
  <2> QED
    BY <1>2, <2>1, NewestOrders
<1>5. RowOf(b, W, NewestFirst)
  BY <1>3, <1>4, OrderByIsRow
<1>6. /\ b \in [1 .. c -> W] /\ DOMAIN b = 1 .. c
      /\ \A i, j \in 1 .. c : i < j => <<b[i], b[j]>> \in NewestFirst
  BY <1>2, <1>5 DEF RowOf
<1>7. \A i, j \in 1 .. c : i < j => b[i] > b[j]
  BY <1>4, <1>6
<1>8. ToSet(b) = W
  <2>1. \A s \in W : \E i \in 1 .. c : s = b[i]
    BY <1>2, <1>4, <1>5, RowCovers
  <2> QED
    BY <1>6, <2>1 DEF ToSet
<1>9. Slice(b, 0, c) = b
  <2>1. c - 0 = c /\ \A i \in 1 .. c : 0 + i = i
    BY <1>4
  <2>2. Slice(b, 0, c) = [i \in 1 .. c |-> b[i]]
    BY <2>1 DEF Slice
  <2> QED
    BY <1>6, <2>2
<1>10. PICK end : end = SubmissionWalk(own, u, limit)[Len(subs) + 1]
  OBVIOUS
<1>11. end = [next |-> None, items |-> b]
  BY <1>1, <1>2, <1>3, <1>9, <1>10, ListingIsWalked
<1>12. end.next = None /\ end.items = b
  BY <1>11
<1> QED
  BY <1>1, <1>6, <1>7, <1>8, <1>10, <1>12 DEF SubmissionPagesComplete, Wanted

\* Registrations arrive one by one.
FewRegistered == IsFiniteSet(DOMAIN reg)

LEMMA RegistrationsStep ==
    ASSUME ScoreInv, [Next]_vars
    PROVE  DOMAIN reg' = DOMAIN reg \/ \E u : DOMAIN reg' = DOMAIN reg \cup {u}
<1>1. ASSUME NEW u \in Users, Authoring(u)
      PROVE  DOMAIN reg' = DOMAIN reg
  BY <1>1 DEF Authoring, HandleCreateContest, CreateContest, HandleUpdateContest,
     UpdateContest, HandleDeleteContest, DeleteContest, HandleGrantRole, GrantContestRole,
     HandleRevokeRole, RevokeContestRole
<1>2. CASE Contestant
  <2>1. ASSUME NEW u \in Registrants, HandleRegister(u)
        PROVE  DOMAIN reg' = DOMAIN reg \cup {u}
    BY <2>1 DEF HandleRegister, Register, CreateContestRegistration
  <2>2. ASSUME NEW in \in SubmitInputs, ValidateSubmission(in[1], in[2]) \/ CreateSubmission(in[1], in[2])
        PROVE  DOMAIN reg' = DOMAIN reg
    BY <2>2 DEF ValidateSubmission, CreateSubmission
  <2> QED
    BY <1>2, <2>1, <2>2 DEF Contestant, HandleCreateSubmission
<1>3. ASSUME NEW w \in Workers, Transaction(w)
      PROVE  DOMAIN reg' = DOMAIN reg
  <2>1. CASE Rollback(w)
    BY <2>1 DEF Rollback
  <2>2. ASSUME NEW t, Proceed(w, t)
        PROVE  DOMAIN reg' = DOMAIN reg
    BY <2>2 DEF Proceed, Commit
  <2> QED
    BY <1>3, <2>1, <2>2, TransactionProceeds DEF Proceeds
<1>4. ASSUME NEW g \in Generators, Generator(g)
      PROVE  DOMAIN reg' = DOMAIN reg
  BY <1>4 DEF Generator, GenerateDueScoreSnapshots, ReadRows, ReadSubmissions,
     ReadResults, CreateScoreSnapshot, GenTo
<1>5. CASE Tick \/ UNCHANGED vars
  BY <1>5 DEF Tick, vars
<1> QED
  BY <1>1, <1>2, <1>3, <1>4, <1>5 DEF Next

LEMMA FewRegisteredStep ==
    ASSUME ScoreInv, FewRegistered, [Next]_vars
    PROVE  FewRegistered'
BY RegistrationsStep, FS_AddElement DEF FewRegistered

\* Whatever was registered, submitted, judged and rejudged, and whatever the page size:
\* walking the live board by its cursors meets every registered user once, in order, at
\* one more than the number ahead (liveScoreboardPage, applyPageRanks), and walking
\* either listing meets every submission the reader may list once, the newest first, and
\* ends with a page that has no next cursor.
THEOREM PagesMeetEveryRow == Spec => []PagesRankAsBoard
<1>1. TypeInv /\ FewRegistered => PagesRankAsBoard
  <2> SUFFICES ASSUME TypeInv, FewRegistered
               PROVE  PagesRankAsBoard
    OBVIOUS
  <2>1. RegTyped /\ SubsTyped
    BY DEF TypeInv
  <2>2. BoardPagesRank
    BY <2>1, BoardRanks DEF FewRegistered
  <2>3. ASSUME NEW u \in Users, NEW own \in BOOLEAN, NEW limit \in 1 .. Len(subs) + 1, canReadContestAs(u)
        PROVE  SubmissionPagesComplete(own, u, limit)
    <3>1. limit \in Nat /\ limit # 0
      BY <2>1 DEF SubsTyped
    <3> QED
      BY <2>1, <2>3, <3>1, ListingsComplete
  <2> QED
    BY <2>2, <2>3 DEF PagesRankAsBoard
<1>2. Init => FewRegistered
  BY FS_EmptySet DEF Init, FewRegistered
<1>3. ScoreInv /\ FewRegistered /\ [Next]_vars => FewRegistered'
  BY FewRegisteredStep
<1> QED
  BY <1>1, <1>2, <1>3, ScoreInit, ScoreStep, TypeInit, TypeStep, PTL DEF Spec

=============================================================================
