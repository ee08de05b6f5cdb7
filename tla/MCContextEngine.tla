--------------------------- MODULE MCContextEngine ---------------------------
(* Two runs of a session of a few messages, over a budget that each step of  *)
(* the pipeline may bring it under, or not.                                  *)
EXTENDS ContextEngine

CONSTANTS r1, r2, n1, n2

\* No property tells one run from another.
Alike == Permutations(Runs)

MCWeight == [content \in Contents |->
  CASE content = "short" -> 1 [] content = "cleared" -> 1
    [] content = "long" -> 4 [] content = "folded" -> 5 [] OTHER -> 12]

\* A call that fails, and a note of two lines behind an item of no type.
FewAnswers ==
  {<<>>, <<Entry(<<Written(n2)>>, "none"), Entry(<<Written(n1), Written(n2)>>, "preference")>>}
=============================================================================
