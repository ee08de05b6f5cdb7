------------------------------- MODULE MCSkills -------------------------------
(* Three skills that the agent has written: two with common tags, one of     *)
(* them thin and with a description that has to be quoted, and an older      *)
(* version of the other on a lower level.                                    *)
EXTENDS Skills, TLC

CONSTANTS p1, p2, n1, g1, g2, g3

Agents(tagged, thin, piece) ==
  [NoText EXCEPT !.created = TRUE, !.tagged = tagged, !.thin = thin, !.holds = {piece}]

Place(level, n) == [level |-> level, name |-> {n}]

SomeSkills ==
  Place(2, 1) :> Agents(TRUE, FALSE, g1)
    @@ Place(2, 2) :> [Agents(TRUE, TRUE, g2) EXCEPT !.plain = FALSE]
    @@ Place(1, 1) :> Agents(FALSE, FALSE, g3)

Alike == Permutations(Processes)
=============================================================================
