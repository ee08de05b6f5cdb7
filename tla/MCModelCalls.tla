----------------------------- MODULE MCModelCalls -----------------------------
(* Two runs and an auxiliary call over three keys, the third of which is     *)
(* second choice; one core tool and one of a server.                         *)
EXTENDS ModelCalls, TLC

CONSTANTS r1, r2, x1, bash, remote

FirstTwo == (1 :> 1) @@ (2 :> 1) @@ (3 :> 2)

\* One error of each strategy, as the provider words it.
SomeErrors ==
  {{"429", "rate limit"}, {"401", "auth", "api key"}, {"too long"}, {"400", "bad request"}, {"json"}}

FewRequestsOrUses ==
  {[requests |-> 4, uses |-> 0], [requests |-> 1, uses |-> 2], [requests |-> 0, uses |-> 4]}

Alike == Permutations(Runs)
=============================================================================
