----------------------------- MODULE MCKFQueue -----------------------------
(* Three slots, so the ring wraps, and two objects, so that a reordering or *)
(* a duplicate shows in the contents.                                       *)
EXTENDS KFQueue
=============================================================================
