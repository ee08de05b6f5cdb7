--------------------------- MODULE MCToolProcesses ---------------------------
(* What the tools leave running after a call: three calls to an MCP server   *)
(* with up to two supervisors, and two background tasks with three calls     *)
(* about them.  The two share nothing, so that a behaviour takes the steps   *)
(* of one of them.                                                           *)
EXTENDS MCPClient, BackgroundTasks

CONSTANTS c1, c2, c3, t1, t2, a1, a2, a3

VARIABLE about   \* "servers" or "tasks"

EitherInit == Init /\ TaskInit /\ about \in {"servers", "tasks"}

Either ==
  \/ about = "servers" /\ Next /\ UNCHANGED <<about, taskVars>>
  \/ about = "tasks" /\ TaskNext /\ UNCHANGED <<about, vars>>

EitherSpec == EitherInit /\ [][Either]_<<about, vars, taskVars>> /\ Fairness /\ TaskFairness
=============================================================================
