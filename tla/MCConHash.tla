----------------------------- MODULE MCConHash -----------------------------
(* Three nodes of two virtual nodes each, interleaved on the ring, one hash  *)
(* value shared by two of them, and data before the first virtual node, on   *)
(* one, between two, and after the last.                                     *)
EXTENDS ConHash

ThreeNodes == {11, 12, 13}
TwoKeys == [n \in ThreeNodes |-> CASE n = 11 -> {1, 5} [] n = 12 -> {3, 8} [] OTHER -> {5, 6}]
SomeData == {"d1", "d2", "d3", "d4"}
DataHash == [d \in SomeData |-> CASE d = "d1" -> 0 [] d = "d2" -> 3 [] d = "d3" -> 7 [] OTHER -> 9]
=============================================================================
