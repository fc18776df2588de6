----------------------------- MODULE MCContests -----------------------------
EXTENDS Contests

CONSTANTS p1, p2

MCUsers == {1, 2}
MCGlobalPermissions == 1 :> {"contest.create"} @@ 2 :> {"judge.inspect"}
MCRolePermissions == "contest_judge" :> {"contest.read", "contest.judge"}
\* Minute 0 starts the contest, minute 1 freezes it, minute `end' ends it.
Running(problems, end) ==
    [status |-> "running", visibility |-> "private", invite |-> TRUE,
     start |-> 0, freeze |-> 1, end |-> end, problems |-> problems]
MCUpdateInputs == {"status" :> "ended"}

\* Scores: the owner submits to two problems, a contestant to one of them.
ScoreCreateInputs == {Running({p1, p2}, 2)}
ScoreSubmitInputs == {<<1, p1>>, <<1, p2>>, <<2, p1>>}
WorkerSymmetry == Permutations(Workers)

\* Boards: one contestant, one problem, two minutes between freeze and end.
BoardCreateInputs == {Running({p1}, 3)}
BoardSubmitInputs == {<<2, p1>>}
MCGrantInputs == {<<2, "contest_judge">>}
GeneratorSymmetry == Permutations(Generators)
=============================================================================
