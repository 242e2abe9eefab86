--------------------------- MODULE MCClusterAuth ---------------------------
(* A cluster of a master and one proxy, whose ids fit the width the master   *)
(* and the proxy keep them in, and two processes of which one has an id that *)
(* does not fit and becomes the other's when it is cut.                      *)
EXTENDS ClusterAuth

TwoClients == {1, 9}
OneProxy == {2}
=============================================================================
