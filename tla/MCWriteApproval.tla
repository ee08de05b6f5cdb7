--------------------------- MODULE MCWriteApproval ---------------------------
(* Instances of WriteApproval for TLC.                                     *)
EXTENDS WriteApproval, TLC

Symmetry == Permutations(Instances) \cup Permutations(Requests)
=============================================================================
