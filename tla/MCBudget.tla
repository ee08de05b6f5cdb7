------------------------------- MODULE MCBudget -------------------------------
(* Runs of one session in one process, and in two.                           *)
EXTENDS Budget

CONSTANTS r1, r2, p1, p2

AtOne == [r \in Runs |-> p1]
AtTwo == [r \in Runs |-> IF r = r1 THEN p1 ELSE p2]
=============================================================================
