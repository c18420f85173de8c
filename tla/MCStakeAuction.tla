--------------------------- MODULE MCStakeAuction ---------------------------
(* Instances of StakeAuction for TLC.                                      *)
EXTENDS StakeAuction, TLC

Symmetry == Permutations(Players)

\* Scores of a game on cells of price 0, below it included.
FreeScores == {-1, 0, 3}
=============================================================================
