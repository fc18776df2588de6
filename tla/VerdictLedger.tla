---------------------------- MODULE VerdictLedger ----------------------------
(***************************************************************************)
(* What the judging pipeline promises: every submission is either open or  *)
(* has one verdict; an open submission is given its verdict in one step, a *)
(* verdict is taken back only by reopening, and withdrawing a reopening    *)
(* restores the verdict recorded last.                                     *)
(***************************************************************************)
CONSTANTS Subs, Verdicts

VARIABLES
    state,     \* "none", "open" or the verdict a submission shows
    recorded   \* the last verdict given, "none" before the first

Submit(s) ==
    /\ state[s] = "none"
    /\ state' = [state EXCEPT ![s] = "open"]
    /\ UNCHANGED recorded

Judge(s, v) ==
    /\ state[s] = "open"
    /\ state' = [state EXCEPT ![s] = v]
    /\ recorded' = [recorded EXCEPT ![s] = v]

\* A rejudge reopens a set of judged submissions at once.
Reopen(S) ==
    /\ \A s \in S : state[s] \in Verdicts
    /\ state' = [s \in Subs |-> IF s \in S THEN "open" ELSE state[s]]
    /\ UNCHANGED recorded

\* Canceling it puts back what was recorded.
Withdraw(S) ==
    /\ \A s \in S : state[s] = "open" /\ recorded[s] \in Verdicts
    /\ state' = [s \in Subs |-> IF s \in S THEN recorded[s] ELSE state[s]]
    /\ UNCHANGED recorded

Init ==
    /\ state = [s \in Subs |-> "none"]
    /\ recorded = [s \in Subs |-> "none"]

Next ==
    \/ \E s \in Subs : Submit(s) \/ \E v \in Verdicts : Judge(s, v)
    \/ \E S \in SUBSET Subs : Reopen(S) \/ Withdraw(S)

Spec == Init /\ [][Next]_<<state, recorded>>
=============================================================================
