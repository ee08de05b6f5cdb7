---------------------------- MODULE MCCoordinator ----------------------------
(* One run of three tasks over two slots, or one at a time.                  *)
EXTENDS Coordinator

CONSTANTS c1, s1, s2
=============================================================================
