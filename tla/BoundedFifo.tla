---------------------------- MODULE BoundedFifo ----------------------------
(***************************************************************************)
(* What KFQueue promises its two threads: a first-in first-out queue that  *)
(* holds at most Capacity objects.  One thread appends, the other removes; *)
(* nothing is lost, duplicated, reordered or overwritten.                  *)
(***************************************************************************)
EXTENDS Naturals, Sequences

CONSTANTS
    Objects,    \* the objects that may be queued
    Capacity    \* the most objects the queue holds

VARIABLE fifo   \* the queued objects, oldest first

Init == fifo = << >>

Push(o) ==
    /\ Len(fifo) < Capacity
    /\ fifo' = Append(fifo, o)

Pop ==
    /\ fifo # << >>
    /\ fifo' = Tail(fifo)

Next == Pop \/ \E o \in Objects : Push(o)

Spec == Init /\ [][Next]_fifo
=============================================================================
