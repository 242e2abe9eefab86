-------------------------- MODULE MCClusterRoutes --------------------------
(* Instances of ClusterRoutes for TLC. *)
EXTENDS ClusterRoutes, TLC

CONSTANTS s1, s2

\* The consistent hash over at most two shards: it prefers s1.
MCShardFor == [some \in (SUBSET Shards) \ {{}} |-> IF s1 \in some THEN s1 ELSE s2]

Symmetry == Permutations(Proxies)
=============================================================================
