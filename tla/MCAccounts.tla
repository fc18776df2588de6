----------------------------- MODULE MCAccounts -----------------------------
EXTENDS Accounts, TLC

CONSTANTS u1, u2, q1, q2, d1

MCMatrices == {{"problem.create"}, {"problem.review"}, {"audit.read"}, {"unknown"}}
RequestSymmetry == Permutations({q1, q2})
=============================================================================
