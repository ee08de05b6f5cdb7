---------------------------- MODULE OneTimePermits ----------------------------
(***************************************************************************)
(* What write approval promises to the rest of the system, without table,  *)
(* statements or processes: a reviewer issues permits, each for one exact  *)
(* request, and an authorization spends one.                               *)
(***************************************************************************)
EXTENDS Naturals, Sequences

CONSTANTS
  Requests,
  Tokens    \* names of permits

VARIABLES
  open,  \* permits issued and not spent
  log    \* permits in the order they were spent

Permit == [approval : Tokens, request : Requests]

Init == open = {} /\ log = <<>>

Spent(permit) == \E n \in DOMAIN log : log[n] = permit

Issue(permit) ==
  /\ permit \notin open
  /\ ~Spent(permit)
  /\ open' = open \cup {permit}
  /\ UNCHANGED log

Spend(permit) ==
  /\ permit \in open
  /\ open' = open \ {permit}
  /\ log' = Append(log, permit)

Next == \E permit \in Permit : Issue(permit) \/ Spend(permit)

Spec == Init /\ [][Next]_<<open, log>>
=============================================================================
