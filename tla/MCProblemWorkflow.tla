------------------------- MODULE MCProblemWorkflow -------------------------
EXTENDS ProblemWorkflow

CONSTANTS author, reviewer, admin

\* The seeded roles author (who here may review as well) and reviewer, and an administrator.
MCPermissions ==
    author :> {"problem.create", "problem.edit_own", "problem.submit_review",
               "problem.review", "problem.publish"}
    @@ reviewer :> {"problem.review", "problem.publish"}
    @@ admin :> {"problem.manage_all"}

RequestSymmetry == Permutations(Requests)

-----------------------------------------------------------------------------
(* Archives of up to four members.  A member is small or just over a       *)
(* budget; the stems are 1, 01, 10, a and A.                               *)

MCBudgets == [bytes |-> 9, entry |-> 3, total |-> 5, files |-> 4, ratio |-> 2]

Number(zeros, value) == <<[digit |-> TRUE, zeros |-> zeros, value |-> value]>>
Text(fold, exact) == <<[digit |-> FALSE, fold |-> fold, exact |-> exact]>>

Plain(key, ext, size) ==
    [dir |-> FALSE, path |-> <<"plain">>, ext |-> ext, key |-> key,
     declared |-> size, compressed |-> 2, readable |-> TRUE]
Hidden(m) == [m EXCEPT !.path = <<"__MACOSX", "plain">>]

One == Number(0, 1)
Members ==
    {Plain(One, "in", 1), Plain(One, "out", 2), Plain(One, "ans", 4),
     Plain(Number(1, 1), "in", 1), Plain(Number(1, 1), "ans", 3),
     [Plain(One, "in", 3) EXCEPT !.compressed = 1],
     [Plain(One, "out", 1) EXCEPT !.readable = FALSE],
     Hidden(Plain(One, "in", 1)), Plain(One, "md", 1), Plain(One, "out", 0),
     [Plain(One, "in", 0) EXCEPT !.dir = TRUE]}

ZipOf(members, sum) == [size |-> 5, zip |-> TRUE, sum |-> sum, members |-> members]

\* Every stem with its two halves, by pairs of stems: the order of the cases.
Stems == {Number(0, 1), Number(1, 1), Number(0, 10), Number(1, 0), Number(2, 0),
          Text(1, 2), Text(1, 1), Text(1, 1) \o Number(0, 2), Number(0, 1) \o Text(1, 1)}
OrderedZips ==
    {ZipOf(<<Plain(k, "in", 1), Plain(l, "in", 1), Plain(k, "out", 1), Plain(l, "ans", 1)>>, 0) :
        k \in Stems, l \in Stems}

MCArchiveInputs ==
    {ZipOf(ms, 0) : ms \in UNION {[1 .. n -> Members] : n \in 0 .. 4}}
    \cup OrderedZips
    \cup {[ZipOf(<<Plain(One, "in", 1), Plain(One, "out", 1)>>, 0) EXCEPT !.size = 0],
          [ZipOf(<<Plain(One, "in", 1), Plain(One, "out", 1)>>, 0) EXCEPT !.size = 10],
          [ZipOf(<<Plain(One, "in", 1), Plain(One, "out", 1)>>, 0) EXCEPT !.zip = FALSE]}

\* One case, one case beside a file that is ignored, and an unpaired input.
MCUploads ==
    << ZipOf(<<Plain(One, "in", 1), Plain(One, "out", 2)>>, 1),
       ZipOf(<<Hidden(Plain(One, "in", 1)), Plain(One, "ans", 2), Plain(One, "in", 1)>>, 2),
       ZipOf(<<Plain(One, "in", 1)>>, 3) >>
============================================================================
