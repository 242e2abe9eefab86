------------------------------ MODULE KFQueue ------------------------------
(***************************************************************************)
(* KFCommon/KFQueue.h: the ring that carries messages and network events   *)
(* between the main thread and the libuv thread of a service.  One thread  *)
(* pushes, the other pops, and neither takes a lock: each operation is     *)
(* split here at its reads and writes of shared memory, so every           *)
(* interleaving of the two threads is a behaviour.                         *)
(*                                                                         *)
(* The stores of one operation become visible in program order (the        *)
(* fields are volatile and the supported targets are x86).                 *)
(***************************************************************************)
EXTENDS Naturals, Sequences

CONSTANTS
    Objects,    \* what may be queued
    Null,       \* the null pointer an empty slot holds
    MaxCount    \* _max_count, set once by InitQueue

ASSUME QueueAssumption ==
    /\ MaxCount \in Nat \ {0}
    /\ Null \notin Objects

VARIABLES
    objects,    \* _objects: slot -> object or Null
    pushIndex,  \* _push_index, written by the producer only
    popIndex,   \* _pop_index, written by the consumer only
    producer,   \* where the producer is in PushObject, and its argument
    consumer    \* where the consumer is in PopObject or PopRemove

vars == << objects, pushIndex, popIndex, producer, consumer >>

Slots == 0 .. MaxCount - 1

Idle == [pc |-> "idle", object |-> Null]

Init ==
    /\ objects = [i \in Slots |-> Null]
    /\ pushIndex = 0
    /\ popIndex = 0
    /\ producer = Idle
    /\ consumer = Idle

-----------------------------------------------------------------------------
(* The producer: PushObject. *)

\* Variant with a bug: the slot is not looked at.
PushCheckIgnoresSlot(o) ==
    /\ producer.pc = "idle"
    /\ producer' = [pc |-> "store", object |-> o]
    /\ UNCHANGED << objects, pushIndex, popIndex, consumer >>

\* A non-null slot refuses the push; the object is destroyed and nothing changes.
PushCheck(o) ==
    /\ producer.pc = "idle"
    /\ objects[pushIndex] = Null
    /\ producer' = [pc |-> "store", object |-> o]
    /\ UNCHANGED << objects, pushIndex, popIndex, consumer >>

PushStore ==
    /\ producer.pc = "store"
    /\ objects' = [objects EXCEPT ![pushIndex] = producer.object]
    /\ producer' = [pc |-> "advance", object |-> Null]
    /\ UNCHANGED << pushIndex, popIndex, consumer >>

\* Variant with a bug: the index is not wrapped.
PushAdvanceUnwrapped ==
    /\ producer.pc = "advance"
    /\ pushIndex' = pushIndex + 1
    /\ producer' = Idle
    /\ UNCHANGED << objects, popIndex, consumer >>

PushAdvance ==
    /\ producer.pc = "advance"
    /\ pushIndex' = (pushIndex + 1) % MaxCount
    /\ producer' = Idle
    /\ UNCHANGED << objects, popIndex, consumer >>

-----------------------------------------------------------------------------
(* The consumer: PopObject, and Front followed by PopRemove, which touch   *)
(* the ring in the same order.                                             *)

\* Variant with a bug: the indices are compared, so a full ring looks empty.
PopTakeByIndex ==
    /\ consumer.pc = "idle"
    /\ popIndex # pushIndex
    /\ objects[popIndex] # Null
    /\ consumer' = [pc |-> "clear", object |-> objects[popIndex]]
    /\ UNCHANGED << objects, pushIndex, popIndex, producer >>

PopTake ==
    /\ consumer.pc = "idle"
    /\ objects[popIndex] # Null
    /\ consumer' = [pc |-> "clear", object |-> objects[popIndex]]
    /\ UNCHANGED << objects, pushIndex, popIndex, producer >>

PopClear ==
    /\ consumer.pc = "clear"
    /\ objects' = [objects EXCEPT ![popIndex] = Null]
    /\ consumer' = [pc |-> "advance", object |-> Null]
    /\ UNCHANGED << pushIndex, popIndex, producer >>

\* Variant with a bug: the slot is given up but the index is left behind.
PopAdvanceForgotten ==
    /\ consumer.pc = "advance"
    /\ popIndex' = popIndex
    /\ consumer' = Idle
    /\ UNCHANGED << objects, pushIndex, producer >>

PopAdvance ==
    /\ consumer.pc = "advance"
    /\ popIndex' = (popIndex + 1) % MaxCount
    /\ consumer' = Idle
    /\ UNCHANGED << objects, pushIndex, producer >>

Produce == PushStore \/ PushAdvance \/ \E o \in Objects : PushCheck(o)
Consume == PopTake \/ PopClear \/ PopAdvance

Next == Produce \/ Consume

Spec == Init /\ [][Next]_vars

\* The service loops call both sides again and again: a PushObject or PopObject
\* that has begun is finished, and the consumer polls every frame.
FairSpec == Spec /\ WF_vars(Consume) /\ WF_vars(PushStore) /\ WF_vars(PushAdvance)

-----------------------------------------------------------------------------
(* The occupied part of the ring.  A push takes effect when its slot is    *)
(* stored, a pop when its slot is cleared, so between that store and the   *)
(* advance of the index the logical position is one ahead of the index.    *)

Succ(i) == IF i + 1 = MaxCount THEN 0 ELSE i + 1

First == IF consumer.pc = "advance" THEN Succ(popIndex) ELSE popIndex
End == IF producer.pc = "advance" THEN Succ(pushIndex) ELSE pushIndex

Held == IF End > First THEN End - First
        ELSE IF End < First THEN MaxCount + End - First
        ELSE IF objects[First] = Null THEN 0 ELSE MaxCount

At(h, k) == IF h + k < MaxCount THEN h + k ELSE h + k - MaxCount

\* The queued objects, oldest first.
Contents == [k \in 1 .. Held |-> objects[At(First, k - 1)]]

Fifo == INSTANCE BoundedFifo WITH Capacity <- MaxCount, fifo <- Contents

-----------------------------------------------------------------------------
(* Properties *)

\* The shared fields and the two program counters stay in their types.
TypeOK ==
    /\ objects \in [Slots -> Objects \cup {Null}]
    /\ pushIndex \in Slots
    /\ popIndex \in Slots
    /\ producer \in [pc : {"idle", "store", "advance"}, object : Objects \cup {Null}]
    /\ consumer \in [pc : {"idle", "clear", "advance"}, object : Objects \cup {Null}]

\* Going round the ring from First, the first Held slots are occupied and no
\* other: the consumer never meets a hole in front of a queued object, which
\* would hide every later one from PopObject.
NoHoles ==
    \A k \in Slots : (objects[At(First, k)] # Null) <=> (k < Held)

\* A push that found its slot empty stores into a slot that is still empty:
\* the unsynchronised check and store of PushObject never overwrite an object
\* (the memory leak the comment in PushObject speaks of).
NoOverwrite ==
    producer.pc = "store" => objects[pushIndex] = Null /\ producer.object # Null

\* The object the consumer has taken is the one its slot still holds: the
\* producer never reuses a slot between the consumer's read and its clear.
TakenIsHead ==
    consumer.pc = "clear" => consumer.object # Null /\ objects[popIndex] = consumer.object

\* The two unlocked threads together implement a bounded first-in first-out queue.
IsFifo == Fifo!Spec

\* Whatever is queued is eventually handed to the consumer: from any state the
\* ring drains or the head moves on.
HeadMoves ==
    \A i \in Slots : (First = i /\ objects[i] # Null) ~> (First # i)
=============================================================================
