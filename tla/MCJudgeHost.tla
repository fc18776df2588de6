----------------------------- MODULE MCJudgeHost -----------------------------
EXTENDS JudgeHost

CONSTANTS s1, s2, s3, r1, A, B

MCLoops == {"submissions", "runs"}
MCRequests == {s1, s2, s3, r1}
MCStream == [l \in MCLoops |->
    IF l = "submissions" THEN <<s1, s2, s3>> ELSE <<r1>>]
\* One language with a slot of its own, one without.
MCLanguageOf == [r \in MCRequests |-> IF r \in {s2, r1} THEN "python" ELSE "cpp"]
MCLanguageSlots == [k \in {"python", "go"} |-> IF k = "python" THEN 1 ELSE 0]
\* Two requests for one set under different limits, and one for another set,
\* which does not fit beside the first.
MCRefOf == [r \in MCRequests |->
    IF r = r1 THEN None
    ELSE [key |-> IF r \in {s1, s2} THEN A ELSE B,
          limits |-> IF r = s2 THEN 2 ELSE 1]]
MCSizeOf == [k \in {A, B} |-> IF k = B THEN 2 ELSE 1]
==============================================================================
