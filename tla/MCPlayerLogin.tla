--------------------------- MODULE MCPlayerLogin ---------------------------
(* Instances of PlayerLogin for TLC. *)
EXTENDS PlayerLogin, TLC

CONSTANTS g1, g2

\* The consistent hash of one player over at most two games: it prefers g1.
MCGameFor == [up \in (SUBSET Games) \ {{}} |-> IF g1 \in up THEN g1 ELSE g2]

\* The gates are alike.
Alike == Permutations(Gates)

=============================================================================
