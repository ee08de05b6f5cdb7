----------------------------- MODULE MCSandboxes -----------------------------
(* One session and the tools' own container; four requests.                  *)
EXTENDS Sandboxes, TLC

CONSTANTS q1, q2, q3, q4

\* No property tells one request from another.
Alike == Permutations(Requests)
=============================================================================
