--------------------------- MODULE KFQueue_proofs ---------------------------
(***************************************************************************)
(* For every capacity and every set of objects: the ring of KFQueue.h      *)
(* keeps its queued objects contiguous, never overwrites one, and          *)
(* implements the bounded first-in first-out queue of BoundedFifo.         *)
(***************************************************************************)
EXTENDS KFQueue, TLAPS, SequenceTheorems

IInv == TypeOK /\ NoHoles /\ NoOverwrite /\ TakenIsHead

-----------------------------------------------------------------------------
(* Arithmetic of the ring. *)

\* The code's (i + 1) % _max_count is the wrap-around successor.
LEMMA ModIsSucc == \A i \in Slots : (i + 1) % MaxCount = Succ(i) /\ Succ(i) \in Slots
<1> SUFFICES ASSUME NEW i \in Slots
             PROVE  (i + 1) % MaxCount = Succ(i) /\ Succ(i) \in Slots
  OBVIOUS
<1>1. CASE i + 1 = MaxCount
  BY <1>1, QueueAssumption, SMT DEF Slots, Succ
<1>2. CASE i + 1 # MaxCount
  <2>1. i + 1 \in 0 .. MaxCount - 1
    BY <1>2, QueueAssumption, SMT DEF Slots
  <2>2. (i + 1) % MaxCount = i + 1
    BY <2>1, QueueAssumption, SMT
  <2> QED BY <1>2, <2>1, <2>2 DEF Slots, Succ
<1> QED BY <1>1, <1>2

\* First and End are slots, and the ring holds between none and MaxCount objects.
LEMMA RingBounds ==
    ASSUME TypeOK
    PROVE  First \in Slots /\ End \in Slots /\ Held \in 0 .. MaxCount
<1>1. First \in Slots /\ End \in Slots
  BY ModIsSucc DEF TypeOK, First, End
<1>2. Held \in 0 .. MaxCount
  BY <1>1, QueueAssumption, SMT DEF Held, Slots
<1> QED BY <1>1, <1>2

\* The slot after the last queued object is End; a full ring has End at First.
LEMMA EndIsNext ==
    ASSUME TypeOK
    PROVE  /\ Held < MaxCount => At(First, Held) = End
           /\ Held = MaxCount => End = First
BY RingBounds, QueueAssumption, SMT DEF Held, At, Slots

\* Counting from a slot h round the ring reaches every slot once.
LEMMA AtIsBijection ==
    \A h \in Slots : /\ \A k \in Slots : At(h, k) \in Slots
                     /\ \A k, l \in Slots : At(h, k) = At(h, l) => k = l
                     /\ At(h, 0) = h
BY QueueAssumption, SMT DEF At, Slots

\* Counting from the successor of h is counting one further from h.
LEMMA AtSucc ==
    \A h \in Slots :
        \A k \in 0 .. MaxCount - 2 : At(Succ(h), k) = At(h, k + 1)
BY QueueAssumption, SMT DEF At, Slots, Succ

LEMMA AtSuccLast ==
    \A h \in Slots : At(Succ(h), MaxCount - 1) = h
BY QueueAssumption, SMT DEF At, Slots, Succ
-----------------------------------------------------------------------------
(* What each action does to the occupied part of the ring. *)

\* A store fills the slot after the last queued object.
LEMMA StoreRing ==
    ASSUME IInv, PushStore
    PROVE  /\ Held < MaxCount
           /\ First' = First
           /\ Held' = Held + 1
           /\ End = pushIndex
           /\ objects' = [objects EXCEPT ![At(First, Held)] = producer.object]
<1>1. End = pushIndex /\ objects[End] = Null
  BY DEF IInv, NoOverwrite, PushStore, End
<1>2. Held < MaxCount
  <2> SUFFICES ASSUME ~ (Held < MaxCount) PROVE FALSE
    OBVIOUS
  <2>1. Held = MaxCount /\ End = First
    BY RingBounds, EndIsNext, QueueAssumption, SMT DEF IInv
  <2>2. 0 \in Slots /\ At(First, 0) = First
    BY RingBounds, AtIsBijection, QueueAssumption DEF IInv, Slots
  <2>3. objects[First] # Null
    BY <2>1, <2>2, QueueAssumption, SMT DEF IInv, NoHoles
  <2> QED BY <1>1, <2>1, <2>3
<1>3. At(First, Held) = End
  BY <1>2, EndIsNext DEF IInv
<1>4. First' = First
  BY DEF PushStore, First
<1>5. End' = Succ(End)
  BY <1>1 DEF PushStore, End
<1>6. objects'[End] # Null
  BY <1>1, QueueAssumption DEF IInv, TypeOK, PushStore, NoOverwrite
<1>7. objects' = [objects EXCEPT ![At(First, Held)] = producer.object]
  BY <1>1, <1>3 DEF PushStore
<1>8. Held' = Held + 1
  <2>1. First \in Slots /\ End \in Slots /\ Held \in 0 .. MaxCount
    BY RingBounds DEF IInv
  <2>2. CASE Succ(End) = First
    <3>1. objects'[First] # Null
      <4>1. CASE First = End
        BY <4>1, <1>6
      <4>2. CASE First # End
        <5>1. 0 < Held
          BY <4>2, <2>1, QueueAssumption, SMT DEF Held, Slots
        <5>2. 0 \in Slots /\ At(First, 0) = First
          BY <2>1, AtIsBijection, QueueAssumption DEF Slots
        <5>3. objects[First] # Null
          BY <5>1, <5>2 DEF IInv, NoHoles
        <5> QED BY <5>3, <4>2, <1>3, <1>7, <2>1 DEF IInv, TypeOK
      <4> QED BY <4>1, <4>2
    <3>2. Held' = MaxCount
      BY <3>1, <2>2, <1>4, <1>5, <2>1, QueueAssumption, SMT DEF Held, Slots
    <3>3. Held = MaxCount - 1
      BY <2>2, <1>1, <2>1, QueueAssumption, SMT DEF Held, Slots, Succ
    <3> QED BY <3>2, <3>3, QueueAssumption, SMT
  <2>3. CASE Succ(End) # First
    <3>1. Held = IF End >= First THEN End - First ELSE MaxCount + End - First
      BY <1>1, <2>1, QueueAssumption, SMT DEF Held, Slots
    <3>2. Succ(End) \in Slots
      BY <2>1, ModIsSucc
    <3>3. Held' = IF Succ(End) > First THEN Succ(End) - First
                  ELSE MaxCount + Succ(End) - First
      BY <2>3, <1>4, <1>5, <2>1, <3>2, QueueAssumption, SMT DEF Held, Slots
    <3> QED BY <3>1, <3>3, <2>3, <2>1, QueueAssumption, SMT DEF Succ, Slots
  <2> QED BY <2>2, <2>3
<1> QED BY <1>1, <1>2, <1>4, <1>7, <1>8

\* A clear empties the first occupied slot.
LEMMA ClearRing ==
    ASSUME IInv, PopClear
    PROVE  /\ 0 < Held
           /\ First = popIndex
           /\ First' = Succ(First)
           /\ Held' = Held - 1
           /\ objects' = [objects EXCEPT ![First] = Null]
<1>1. First = popIndex /\ objects[First] # Null
  BY QueueAssumption DEF IInv, TakenIsHead, PopClear, First
<1>2. First \in Slots /\ End \in Slots /\ Held \in 0 .. MaxCount
  BY RingBounds DEF IInv
<1>3. 0 < Held
  BY <1>1, <1>2, AtIsBijection, QueueAssumption, SMT DEF IInv, NoHoles, Slots
<1>4. First' = Succ(First)
  BY <1>1 DEF PopClear, First
<1>5. End' = End
  BY DEF PopClear, End
<1>6. objects' = [objects EXCEPT ![First] = Null]
  BY <1>1 DEF PopClear
<1>7. Held' = Held - 1
  <2>1. CASE End = Succ(First)
    <3>1. Held = 1
      BY <2>1, <1>1, <1>2, QueueAssumption, SMT DEF Held, Slots, Succ
    <3>2. objects'[Succ(First)] = Null
      <4>1. CASE Succ(First) = First
        BY <4>1, <1>2, <1>6 DEF IInv, TypeOK
      <4>2. CASE Succ(First) # First
        <5>1. 1 \in Slots /\ At(First, 1) = Succ(First)
          BY <4>2, <1>2, QueueAssumption, SMT DEF Slots, At, Succ
        <5>2. objects[Succ(First)] = Null
          BY <5>1, <3>1, SMT DEF IInv, NoHoles
        <5> QED BY <5>2, <4>2, <1>2, <1>6, ModIsSucc DEF IInv, TypeOK
      <4> QED BY <4>1, <4>2
    <3>3. Held' = 0
      BY <3>2, <2>1, <1>4, <1>5, <1>2, ModIsSucc, QueueAssumption, SMT DEF Held, Slots
    <3> QED BY <3>1, <3>3
  <2>2. CASE End # Succ(First)
    <3>1. Held = IF End > First THEN End - First ELSE MaxCount + End - First
      BY <1>1, <1>2, QueueAssumption, SMT DEF Held, Slots
    <3>2. Succ(First) \in Slots
      BY <1>2, ModIsSucc
    <3>3. Held' = IF End > Succ(First) THEN End - Succ(First)
                  ELSE MaxCount + End - Succ(First)
      BY <2>2, <1>4, <1>5, <1>2, <3>2, QueueAssumption, SMT DEF Held, Slots
    <3> QED BY <3>1, <3>3, <2>2, <1>2, QueueAssumption, SMT DEF Succ, Slots
  <2> QED BY <2>1, <2>2
<1> QED BY <1>1, <1>3, <1>4, <1>6, <1>7

\* Every other step leaves the occupied part alone: checks and reads change no
\* slot, and advancing an index only catches up with its logical position.
LEMMA QuietRing ==
    ASSUME IInv,
           \/ \E o \in Objects : PushCheck(o)
           \/ PushAdvance \/ PopTake \/ PopAdvance
           \/ UNCHANGED vars
    PROVE  objects' = objects /\ First' = First /\ Held' = Held
<1>1. objects' = objects
  BY DEF PushCheck, PushAdvance, PopTake, PopAdvance, vars
<1>2. First' = First
  <2>1. CASE PopAdvance
    BY <2>1, ModIsSucc DEF IInv, TypeOK, PopAdvance, First, Idle
  <2>2. CASE \/ \E o \in Objects : PushCheck(o)
             \/ PushAdvance \/ PopTake \/ UNCHANGED vars
    BY <2>2 DEF PushCheck, PushAdvance, PopTake, vars, First
  <2> QED BY <2>1, <2>2
<1>3. End' = End
  <2>1. CASE PushAdvance
    BY <2>1, ModIsSucc DEF IInv, TypeOK, PushAdvance, End, Idle
  <2>2. CASE \/ \E o \in Objects : PushCheck(o)
             \/ PopAdvance \/ PopTake \/ UNCHANGED vars
    BY <2>2 DEF PushCheck, PopAdvance, PopTake, vars, End
  <2> QED BY <2>1, <2>2
<1>4. Held' = Held
  BY <1>1, <1>2, <1>3 DEF Held
<1> QED BY <1>1, <1>2, <1>4

-----------------------------------------------------------------------------
(* The inductive invariant. *)

LEMMA InitIInv == Init => IInv
<1> SUFFICES ASSUME Init PROVE IInv
  OBVIOUS
<1>1. TypeOK
  BY QueueAssumption, SMT DEF Init, TypeOK, Idle, Slots
<1>2. Held = 0
  BY <1>1, RingBounds, QueueAssumption, SMT DEF Init, Held, First, End, Idle, Slots
<1>3. NoHoles
  <2> SUFFICES ASSUME NEW k \in Slots
               PROVE  (objects[At(First, k)] # Null) <=> (k < Held)
    BY DEF NoHoles
  <2>1. At(First, k) \in Slots
    BY <1>1, RingBounds, AtIsBijection
  <2>2. objects[At(First, k)] = Null
    BY <2>1 DEF Init
  <2> QED BY <1>2, <2>2, SMT DEF Slots
<1>4. NoOverwrite /\ TakenIsHead
  BY DEF Init, Idle, NoOverwrite, TakenIsHead
<1> QED BY <1>1, <1>3, <1>4 DEF IInv

LEMMA StepTypeOK == TypeOK /\ [Next]_vars => TypeOK'
<1> SUFFICES ASSUME TypeOK, [Next]_vars PROVE TypeOK'
  OBVIOUS
<1>1. ASSUME NEW o \in Objects, PushCheck(o) PROVE TypeOK'
  BY <1>1 DEF TypeOK, PushCheck
<1>2. CASE PushStore
  BY <1>2 DEF TypeOK, PushStore
<1>3. CASE PushAdvance
  BY <1>3, ModIsSucc DEF TypeOK, PushAdvance, Idle
<1>4. CASE PopTake
  BY <1>4 DEF TypeOK, PopTake
<1>5. CASE PopClear
  BY <1>5 DEF TypeOK, PopClear
<1>6. CASE PopAdvance
  BY <1>6, ModIsSucc DEF TypeOK, PopAdvance, Idle
<1>7. CASE UNCHANGED vars
  BY <1>7 DEF TypeOK, vars
<1> QED BY <1>1, <1>2, <1>3, <1>4, <1>5, <1>6, <1>7 DEF Next, Produce, Consume

LEMMA StepNoHoles == IInv /\ [Next]_vars => NoHoles'
<1> SUFFICES ASSUME IInv, [Next]_vars,
                    NEW k \in Slots
             PROVE  (objects'[At(First', k)] # Null) <=> (k < Held')
  <2> QED BY DEF NoHoles, At
<1>0. /\ First \in Slots /\ Held \in 0 .. MaxCount
      /\ At(First, k) \in Slots
  BY RingBounds, AtIsBijection DEF IInv
<1>1. CASE PushStore
  <2>1. /\ Held < MaxCount /\ First' = First /\ Held' = Held + 1
        /\ objects' = [objects EXCEPT ![At(First, Held)] = producer.object]
    BY <1>1, StoreRing
  <2>2. Held \in Slots
    BY <1>0, <2>1, QueueAssumption, SMT DEF Slots
  <2>3. producer.object # Null
    BY <1>1 DEF IInv, NoOverwrite, PushStore
  <2>4. CASE k = Held
    <3>1. objects'[At(First', k)] # Null
      BY <2>1, <2>3, <2>4, <1>0 DEF IInv, TypeOK
    <3> QED BY <3>1, <2>1, <2>4, <1>0, SMT
  <2>5. CASE k # Held
    <3>1. At(First, k) # At(First, Held)
      BY <2>2, <2>5, <1>0, AtIsBijection
    <3>2. objects'[At(First', k)] = objects[At(First, k)]
      BY <2>1, <3>1, <1>0 DEF IInv, TypeOK
    <3>3. (objects[At(First, k)] # Null) <=> (k < Held)
      BY DEF IInv, NoHoles
    <3> QED BY <3>2, <3>3, <2>1, <2>5, <1>0, SMT DEF Slots
  <2> QED BY <2>4, <2>5
<1>2. CASE PopClear
  <2>1. /\ 0 < Held /\ First' = Succ(First) /\ Held' = Held - 1
        /\ objects' = [objects EXCEPT ![First] = Null]
    BY <1>2, ClearRing
  <2>2. CASE k = MaxCount - 1
    <3>1. objects'[At(First', k)] = Null
      BY <2>1, <2>2, <1>0, AtSuccLast DEF IInv, TypeOK
    <3> QED BY <3>1, <2>1, <2>2, <1>0, QueueAssumption, SMT DEF Slots
  <2>3. CASE k # MaxCount - 1
    <3>1. k \in 0 .. MaxCount - 2 /\ k + 1 \in Slots /\ 0 \in Slots
      BY <2>3, QueueAssumption, SMT DEF Slots
    <3>2. At(First', k) = At(First, k + 1)
      BY <2>1, <3>1, <1>0, AtSucc
    <3>3. k + 1 # 0
      BY <3>1, SMT DEF Slots
    <3>4. At(First, k + 1) # First /\ At(First, k + 1) \in Slots
      BY <3>1, <3>3, <1>0, AtIsBijection
    <3>5. objects'[At(First', k)] = objects[At(First, k + 1)]
      BY <2>1, <3>2, <3>4 DEF IInv, TypeOK
    <3>6. (objects[At(First, k + 1)] # Null) <=> (k + 1 < Held)
      BY <3>1 DEF IInv, NoHoles
    <3> QED BY <3>1, <3>5, <3>6, <2>1, <1>0, SMT DEF Slots
  <2> QED BY <2>2, <2>3
<1>3. CASE \/ \E o \in Objects : PushCheck(o)
           \/ PushAdvance \/ PopTake \/ PopAdvance
           \/ UNCHANGED vars
  BY <1>3, QuietRing DEF IInv, NoHoles
<1> QED BY <1>1, <1>2, <1>3 DEF Next, Produce, Consume

LEMMA StepHandshake == IInv /\ [Next]_vars => NoOverwrite' /\ TakenIsHead'
<1> SUFFICES ASSUME IInv, [Next]_vars PROVE NoOverwrite' /\ TakenIsHead'
  OBVIOUS
<1> USE QueueAssumption DEF IInv, TypeOK, NoOverwrite, TakenIsHead
<1>1. ASSUME NEW o \in Objects, PushCheck(o) PROVE NoOverwrite' /\ TakenIsHead'
  BY <1>1 DEF PushCheck
<1>2. CASE PushStore
  BY <1>2 DEF PushStore
<1>3. CASE PushAdvance
  BY <1>3 DEF PushAdvance, Idle
<1>4. CASE PopTake
  BY <1>4 DEF PopTake
<1>5. CASE PopClear
  BY <1>5 DEF PopClear
<1>6. CASE PopAdvance
  BY <1>6 DEF PopAdvance, Idle
<1>7. CASE UNCHANGED vars
  BY <1>7 DEF vars
<1> QED BY <1>1, <1>2, <1>3, <1>4, <1>5, <1>6, <1>7 DEF Next, Produce, Consume

\* The ring keeps its types, has no holes, never overwrites a queued object and
\* never changes the object the consumer has taken.
THEOREM RingSafe == Spec => [](TypeOK /\ NoHoles /\ NoOverwrite /\ TakenIsHead)
<1>1. Init => IInv
  BY InitIInv
<1>2. IInv /\ [Next]_vars => IInv'
  BY StepTypeOK, StepNoHoles, StepHandshake DEF IInv
<1> QED BY <1>1, <1>2, PTL DEF Spec, IInv

\* The counters of KFQueue stay in range and its slots hold objects or nothing,
\* however the two threads that never lock interleave.
THEOREM QueueTypes == Spec => []TypeOK
BY RingSafe, PTL

-----------------------------------------------------------------------------
(* The refinement: a store is a push, a clear is a pop, all else stutters. *)

\* The contents are a sequence of Held objects.
LEMMA ContentsSeq ==
    ASSUME IInv
    PROVE  /\ Contents \in Seq(Objects)
           /\ Len(Contents) = Held
           /\ \A k \in 1 .. Held : At(First, k - 1) \in Slots
<1>1. First \in Slots /\ Held \in 0 .. MaxCount
  BY RingBounds DEF IInv
<1>2. ASSUME NEW k \in 1 .. Held
      PROVE  At(First, k - 1) \in Slots /\ objects[At(First, k - 1)] \in Objects
  <2>1. k - 1 \in Slots /\ k - 1 < Held
    BY <1>1, <1>2, QueueAssumption, SMT DEF Slots
  <2>2. At(First, k - 1) \in Slots
    BY <1>1, <2>1, AtIsBijection
  <2>3. objects[At(First, k - 1)] # Null
    BY <2>1 DEF IInv, NoHoles
  <2> QED BY <2>2, <2>3 DEF IInv, TypeOK
<1>3. Contents \in [1 .. Held -> Objects]
  BY <1>2 DEF Contents
<1> QED BY <1>1, <1>2, <1>3, SMT

LEMMA StoreIsPush ==
    ASSUME IInv, IInv', PushStore
    PROVE  Fifo!Push(producer.object) /\ producer.object \in Objects
<1>1. /\ Held < MaxCount /\ First' = First /\ Held' = Held + 1
      /\ objects' = [objects EXCEPT ![At(First, Held)] = producer.object]
  BY StoreRing
<1>2. First \in Slots /\ Held \in Slots
  BY <1>1, RingBounds, QueueAssumption, SMT DEF IInv, Slots
<1>3. producer.object \in Objects
  BY DEF IInv, TypeOK, NoOverwrite, PushStore
<1>4. Contents \in Seq(Objects) /\ Len(Contents) = Held
  BY ContentsSeq
<1>5. Contents' = [k \in 1 .. Held' |-> objects'[At(First', k - 1)]]
  BY DEF Contents, At
<1>6. ASSUME NEW k \in 1 .. Held + 1
      PROVE  objects'[At(First', k - 1)]
             = IF k = Held + 1 THEN producer.object ELSE Contents[k]
  <2>0. k - 1 \in Slots
    BY <1>1, <1>2, <1>6, QueueAssumption, SMT DEF Slots
  <2>1. k - 1 \in Slots /\ At(First, k - 1) \in Slots /\ At(First, Held) \in Slots
    BY <2>0, <1>2, AtIsBijection
  <2>2. CASE k = Held + 1
    <3>1. k - 1 = Held
      BY <2>2, <1>2, SMT DEF Slots
    <3> QED BY <3>1, <2>1, <2>2, <1>1 DEF IInv, TypeOK
  <2>3. CASE k # Held + 1
    <3>1. k - 1 # Held /\ k \in 1 .. Held
      BY <2>3, <1>2, <1>6, SMT DEF Slots
    <3>2. At(First, k - 1) # At(First, Held)
      BY <3>1, <2>1, <1>2, AtIsBijection
    <3>3. Contents[k] = objects[At(First, k - 1)]
      BY <3>1 DEF Contents
    <3> QED BY <3>2, <3>3, <2>1, <2>3, <1>1 DEF IInv, TypeOK
  <2> QED BY <2>2, <2>3
<1>7. Contents' = [k \in 1 .. Held + 1 |-> IF k = Held + 1 THEN producer.object ELSE Contents[k]]
  BY <1>1, <1>5, <1>6
<1>8. Contents' = Append(Contents, producer.object)
  BY <1>3, <1>4, <1>7, <1>2, SMT DEF Slots
<1> QED BY <1>1, <1>3, <1>4, <1>8 DEF Fifo!Push

\* The tail of a sequence, as the function it is.
LEMMA TailAsFunction ==
    ASSUME NEW S, NEW s \in Seq(S), s # << >>
    PROVE  Tail(s) = [k \in 1 .. Len(s) - 1 |-> s[k + 1]]
<1>1. Tail(s) \in Seq(S) /\ Len(Tail(s)) = Len(s) - 1
  BY HeadTailProperties
<1>2. \A k \in 1 .. Len(s) - 1 : Tail(s)[k] = s[k + 1]
  BY <1>1, HeadTailProperties
<1>3. Tail(s) \in [1 .. Len(s) - 1 -> S]
  BY <1>1, LenProperties
<1> QED BY <1>2, <1>3

LEMMA ClearIsPop ==
    ASSUME IInv, IInv', PopClear
    PROVE  Fifo!Pop
<1>1. /\ 0 < Held /\ First' = Succ(First) /\ Held' = Held - 1
      /\ objects' = [objects EXCEPT ![First] = Null]
  BY ClearRing
<1>2. First \in Slots /\ Held \in 1 .. MaxCount
  BY <1>1, RingBounds, QueueAssumption, SMT DEF IInv, Slots
<1>3. Contents \in Seq(Objects) /\ Len(Contents) = Held
  BY ContentsSeq
<1>4. Contents' = [k \in 1 .. Held' |-> objects'[At(First', k - 1)]]
  BY DEF Contents, At
<1>5. ASSUME NEW k \in 1 .. Held - 1
      PROVE  objects'[At(First', k - 1)] = Contents[k + 1]
  <2>1. /\ k - 1 \in 0 .. MaxCount - 2 /\ k \in Slots /\ 0 \in Slots /\ k # 0
        /\ (k - 1) + 1 = k /\ k + 1 \in 1 .. Held /\ (k + 1) - 1 = k
    BY <1>2, <1>5, QueueAssumption, SMT DEF Slots
  <2>2. At(First', k - 1) = At(First, k)
    BY <1>1, <1>2, <2>1, AtSucc
  <2>3. At(First, k) \in Slots /\ At(First, k) # First
    BY <1>2, <2>1, AtIsBijection
  <2>4. objects'[At(First', k - 1)] = objects[At(First, k)]
    BY <1>1, <2>2, <2>3 DEF IInv, TypeOK
  <2>5. Contents[k + 1] = objects[At(First, k)]
    BY <2>1 DEF Contents
  <2> QED BY <2>4, <2>5
<1>6. Contents' = [k \in 1 .. Held - 1 |-> Contents[k + 1]]
  BY <1>1, <1>4, <1>5
<1>7. Contents # << >>
  BY <1>2, <1>3, SMT
<1>8. Contents' = Tail(Contents)
  BY <1>3, <1>6, <1>7, TailAsFunction
<1> QED BY <1>7, <1>8 DEF Fifo!Pop

\* For every capacity, the two unlocked threads on the ring of KFQueue.h
\* implement a bounded first-in first-out queue.
THEOREM QueueIsFifo == Spec => IsFifo
<1>1. Init => Fifo!Init
  <2> SUFFICES ASSUME Init PROVE Contents = << >>
    BY DEF Fifo!Init
  <2>1. IInv
    BY InitIInv
  <2>2. Held = 0
    <3>1. First = 0 /\ End = 0 /\ objects[0] = Null
      BY QueueAssumption, SMT DEF Init, First, End, Idle, Slots
    <3> QED BY <3>1, SMT DEF Held
  <2> QED BY <2>1, <2>2, ContentsSeq, SMT
<1>2. IInv /\ IInv' /\ [Next]_vars => [Fifo!Next]_Contents
  <2> SUFFICES ASSUME IInv, IInv', [Next]_vars
               PROVE  Fifo!Next \/ Contents' = Contents
    BY DEF Fifo!Next
  <2>1. CASE PushStore
    BY <2>1, StoreIsPush DEF Fifo!Next
  <2>2. CASE PopClear
    BY <2>2, ClearIsPop DEF Fifo!Next
  <2>3. CASE \/ \E o \in Objects : PushCheck(o)
             \/ PushAdvance \/ PopTake \/ PopAdvance
             \/ UNCHANGED vars
    <3>1. objects' = objects /\ First' = First /\ Held' = Held
      BY <2>3, QuietRing
    <3> QED BY <3>1 DEF Contents, At
  <2> QED BY <2>1, <2>2, <2>3 DEF Next, Produce, Consume
<1>3. Spec => []IInv
  BY RingSafe, PTL DEF IInv
<1> QED BY <1>1, <1>2, <1>3, PTL DEF Spec, IsFifo, Fifo!Spec
=============================================================================
