---------------------------- MODULE MCDataShard ----------------------------
(* Instances of DataShard for TLC. *)
EXTENDS DataShard, TLC

CONSTANTS s1, s2

Symmetry == Permutations({s1, s2})
=============================================================================
