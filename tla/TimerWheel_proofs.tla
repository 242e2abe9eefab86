------------------------- MODULE TimerWheel_proofs -------------------------
(***************************************************************************)
(* For every wheel and every set of timers: the slots hold the registered  *)
(* timers, each once, and a timer waits for as long as Effective says.     *)
(* Arithmetic of slots comes first, then what linking a timer does, then   *)
(* one step per action.                                                    *)
(***************************************************************************)
EXTENDS TimerWheel, Integers, TLAPS

-----------------------------------------------------------------------------
(* Arithmetic of the wheel. *)

\* Ticks are turns and slots.
LEMMA Division ==
    \A k \in Nat : /\ k % MaxSlot \in Slots
                   /\ k \div MaxSlot \in Nat
                   /\ k = (k \div MaxSlot) * MaxSlot + (k % MaxSlot)
BY WheelAssumption, SMT DEF Slots

\* The hand moves to the next slot, and from the last one to the first.
LEMMA NextSlot ==
    \A i \in Slots : /\ (i + 1) % MaxSlot \in Slots
                     /\ (i + 1) % MaxSlot = IF i + 1 = MaxSlot THEN 0 ELSE i + 1
<1> SUFFICES ASSUME NEW i \in Slots
             PROVE (i + 1) % MaxSlot = IF i + 1 = MaxSlot THEN 0 ELSE i + 1
  BY WheelAssumption DEF Slots
<1>1. CASE i + 1 = MaxSlot
  BY <1>1, WheelAssumption, SMT DEF Slots
<1>2. CASE i + 1 # MaxSlot
  <2>1. i + 1 \in 0 .. MaxSlot - 1
    BY <1>2, WheelAssumption, SMT DEF Slots
  <2> QED BY <1>2, <2>1, WheelAssumption, SMT
<1> QED BY <1>1, <1>2

\* A slot some slots ahead is that many slots on, less a turn past the last one.
LEMMA SlotAhead ==
    \A i, j \in Slots : /\ (i + j) % MaxSlot \in Slots
                        /\ (i + j) % MaxSlot = IF i + j < MaxSlot THEN i + j ELSE i + j - MaxSlot
<1> SUFFICES ASSUME NEW i \in Slots, NEW j \in Slots
             PROVE (i + j) % MaxSlot = IF i + j < MaxSlot THEN i + j ELSE i + j - MaxSlot
  BY WheelAssumption, SMT DEF Slots
<1>1. CASE i + j < MaxSlot
  BY <1>1, WheelAssumption, SMT DEF Slots
<1>2. CASE i + j >= MaxSlot
  <2> DEFINE k == i + j
  <2>1. k \in Nat /\ k - MaxSlot \in 0 .. MaxSlot - 1 /\ MaxSlot \in Nat \ {0}
    BY <1>2, WheelAssumption, SMT DEF Slots
  <2>2. k % MaxSlot = k - MaxSlot
    BY <2>1, SMT
  <2> QED BY <1>2, <2>2, WheelAssumption, SMT DEF Slots
<1> QED BY <1>1, <1>2, WheelAssumption, SMT DEF Slots

\* Ticks from slot now to slot s.
Ahead(now, s) == IF s > now THEN s - now ELSE MaxSlot + s - now

\* A timer linked j slots ahead is j ticks away, or a turn if j is 0.
LEMMA AheadOfSum ==
    \A now, j \in Slots : Ahead(now, (j + now) % MaxSlot) = IF j = 0 THEN MaxSlot ELSE j
<1> TAKE now \in Slots, j \in Slots
<1>1. (j + now) % MaxSlot = IF j + now < MaxSlot THEN j + now ELSE j + now - MaxSlot
  BY SlotAhead
<1>2. now \in Nat /\ j \in Nat /\ now < MaxSlot /\ j < MaxSlot /\ MaxSlot \in Nat
  BY WheelAssumption, SMT DEF Slots
<1> HIDE DEF Slots
<1> QED BY <1>1, <1>2, SMT DEF Ahead

\* The ticks to the first visit of the hand and the turns after it make Effective.
LEMMA FullTurns ==
    \A k \in Nat : (IF k % MaxSlot = 0 THEN MaxSlot ELSE k % MaxSlot)
                       + Lowered(k \div MaxSlot) * MaxSlot = Effective(k)
<1> SUFFICES ASSUME NEW k \in Nat
             PROVE (IF k % MaxSlot = 0 THEN MaxSlot ELSE k % MaxSlot)
                       + Lowered(k \div MaxSlot) * MaxSlot = Effective(k)
  OBVIOUS
<1> DEFINE r == k % MaxSlot
           q == k \div MaxSlot
<1>1. r \in Nat /\ r < MaxSlot /\ q \in Nat /\ MaxSlot \in Nat \ {0} /\ k = q * MaxSlot + r
  BY Division, WheelAssumption, SMT DEF Slots
<1> HIDE DEF r, q
<1>2. CASE q = 0
  <2>1. k = r
    BY <1>1, <1>2, SMT
  <2>2. Lowered(q) * MaxSlot = 0
    BY <1>1, <1>2, SMT DEF Lowered
  <2>3. Effective(k) = IF r = 0 THEN MaxSlot ELSE r
    BY <1>1, <2>1, SMT DEF Effective, r
  <2> QED BY <1>1, <2>2, <2>3, SMT DEF r, q
<1>3. CASE q > 0
  <2>1. Lowered(q) * MaxSlot = q * MaxSlot - MaxSlot
    BY <1>1, <1>3, SMT DEF Lowered
  <2>2. q * MaxSlot >= MaxSlot /\ q * MaxSlot \in Nat
    BY <1>1, <1>3, SMT
  <2>3. k >= MaxSlot
    BY <1>1, <2>2, SMT
  <2>4. Effective(k) = IF r = 0 THEN k ELSE k - MaxSlot
    BY <1>1, <2>3, SMT DEF Effective, r
  <2> QED BY <1>1, <2>1, <2>2, <2>4, SMT DEF r, q
<1> QED BY <1>1, <1>2, <1>3, SMT

\* Arithmetic of a timer that has just been linked.
LEMMA Scheduled ==
    \A now \in Slots, k \in Nat :
        /\ ((k % MaxSlot) + now) % MaxSlot \in Slots
        /\ Ahead(now, ((k % MaxSlot) + now) % MaxSlot) + Lowered(k \div MaxSlot) * MaxSlot
             = Effective(k)
        /\ Ahead(now, ((1 % MaxSlot) + now) % MaxSlot) = 1
<1> TAKE now \in Slots, k \in Nat
<1>1. k % MaxSlot \in Slots /\ 1 % MaxSlot \in Slots
  BY Division
<1>2. Ahead(now, ((k % MaxSlot) + now) % MaxSlot) = IF k % MaxSlot = 0 THEN MaxSlot ELSE k % MaxSlot
  BY <1>1, AheadOfSum
<1>3. (IF 1 % MaxSlot = 0 THEN MaxSlot ELSE 1 % MaxSlot) = 1
  <2>1. CASE MaxSlot = 1
    BY <2>1, <1>1, SMT DEF Slots
  <2>2. CASE MaxSlot > 1
    <3>1. 1 \in 0 .. MaxSlot - 1
      BY <2>2, WheelAssumption, SMT
    <3> QED BY <2>2, <3>1, WheelAssumption, SMT
  <2> QED BY <2>1, <2>2, WheelAssumption, SMT
<1> QED BY <1>1, <1>2, <1>3, AheadOfSum, SlotAhead, FullTurns

\* What AddSlotTimer does to a wheel w in which every live timer but t is linked.
LEMMA Linking ==
    ASSUME TypeOK, NEW t \in Timers, NEW STATE w, NEW firstadd \in BOOLEAN,
           w \in [Slots -> SUBSET Timers],
           \A u \in Timers, s \in Slots : u \in w[s] <=> u \in live \ {t} /\ slot[u] = s,
           AddSlotTimer(w, t, firstadd)
    PROVE  /\ slot' \in [Timers -> Slots] /\ rotation' \in [Timers -> Nat]
           /\ age' \in [Timers -> Nat] /\ wheel' \in [Slots -> SUBSET Timers]
           /\ \A u \in Timers, s \in Slots : u \in wheel'[s] <=> u \in live \cup {t} /\ slot'[u] = s
           /\ \A u \in Timers \ {t} : slot'[u] = slot[u] /\ rotation'[u] = rotation[u] /\ age'[u] = age[u]
           /\ age'[t] = 0
           /\ Ahead(nowSlot, slot'[t]) + Lowered(rotation'[t]) * MaxSlot
                = IF firstadd THEN 1 ELSE Effective(Ticks[t])
<1>1. /\ nowSlot \in Slots /\ Ticks[t] \in Nat /\ slot \in [Timers -> Slots]
      /\ rotation \in [Timers -> Nat] /\ age \in [Timers -> Nat]
  BY WheelAssumption DEF TypeOK
<1>2. PICK rot \in Nat, k \in Nat :
         /\ LinkAt(w, t, rot, k)
         /\ IF firstadd THEN rot = 0 /\ k = 1 ELSE rot = Ticks[t] \div MaxSlot /\ k = Ticks[t]
  <2>1. Ticks[t] \div MaxSlot \in Nat
    BY <1>1, Division
  <2> QED BY <1>1, <2>1 DEF AddSlotTimer
<1>3. ((k % MaxSlot) + nowSlot) % MaxSlot \in Slots
  BY <1>1, Scheduled
<1>4. /\ slot' \in [Timers -> Slots] /\ rotation' \in [Timers -> Nat] /\ age' \in [Timers -> Nat]
      /\ slot'[t] = ((k % MaxSlot) + nowSlot) % MaxSlot /\ rotation'[t] = rot /\ age'[t] = 0
      /\ \A u \in Timers \ {t} : slot'[u] = slot[u] /\ rotation'[u] = rotation[u] /\ age'[u] = age[u]
  BY <1>1, <1>2, <1>3 DEF LinkAt
<1>5. wheel' = [s \in Slots |-> IF s = slot'[t] THEN w[s] \cup {t} ELSE w[s]]
  BY <1>2 DEF LinkAt
<1>6. wheel' \in [Slots -> SUBSET Timers]
  BY <1>5
<1>7. \A u \in Timers, s \in Slots : u \in wheel'[s] <=> u \in live \cup {t} /\ slot'[u] = s
  BY <1>4, <1>5
<1>8. Ahead(nowSlot, slot'[t]) + Lowered(rotation'[t]) * MaxSlot
        = IF firstadd THEN 1 ELSE Effective(Ticks[t])
  <2>1. CASE firstadd
    <3>1. Lowered(rotation'[t]) * MaxSlot = 0
      BY <1>2, <1>4, <2>1, WheelAssumption, SMT DEF Lowered
    <3>2. Ahead(nowSlot, slot'[t]) = 1
      BY <1>1, <1>2, <1>4, <2>1, Scheduled
    <3> QED BY <2>1, <3>1, <3>2, SMT
  <2>2. CASE ~ firstadd
    BY <1>1, <1>2, <1>4, <2>2, Scheduled
  <2> QED BY <2>1, <2>2
<1> QED BY <1>4, <1>6, <1>7, <1>8

-----------------------------------------------------------------------------
(* The invariant. *)

\* Callbacks run in the update of the wheel only, for registered timers.
DoneIsLive == done \subseteq live /\ (phase # "update" => done = {})

IInv == TypeOK /\ LinkedIsLive /\ DoneIsLive /\ ExactSchedule

\* It holds of an empty wheel.
LEMMA InitIInv == Init => IInv
<1> SUFFICES ASSUME Init PROVE IInv
  OBVIOUS
<1>1. 0 \in Slots
  BY WheelAssumption, SMT DEF Slots
<1>2. TypeOK
  BY <1>1, WheelAssumption, SMT DEF Init, TypeOK
<1>3. LinkedIsLive /\ DoneIsLive /\ ExactSchedule
  BY DEF Init, LinkedIsLive, DoneIsLive, ExactSchedule
<1> QED BY <1>2, <1>3 DEF IInv

\* A step that touches no timer.
LEMMA IdleStep ==
    ASSUME IInv, UNCHANGED << nowSlot, wheel, timerVars, done, age, first >>,
           pending' \subseteq Timers, phase' \in {"idle", "register", "update"}, pass' \in 0 .. MaxPass,
           phase' # "update" => done = {}
    PROVE  IInv'
BY DEF IInv, TypeOK, LinkedIsLive, DoneIsLive, ExactSchedule, timerVars, Remaining, Distance

\* Removing a set of timers from the wheel and from the registered ones.
LEMMA RemoveStep ==
    ASSUME IInv, NEW STATE gone, phase = "idle",
           UNCHANGED << nowSlot, slot, rotation, count, phase, pass, done, age, first >>,
           pending' \subseteq Timers, live' = live \ gone,
           wheel' \in [Slots -> SUBSET Timers],
           \A u \in Timers, s \in Slots : u \in wheel'[s] <=> u \in wheel[s] /\ u \notin gone
    PROVE  IInv'
<1>1. TypeOK'
  BY DEF IInv, TypeOK
<1>2. LinkedIsLive'
  BY DEF IInv, LinkedIsLive
<1>3. DoneIsLive'
  BY DEF IInv, DoneIsLive
<1>4. ExactSchedule'
  BY DEF IInv, DoneIsLive, ExactSchedule, Remaining, Distance
<1> QED BY <1>1, <1>2, <1>3, <1>4 DEF IInv

\* Linking a timer t that is registered or being registered.
LEMMA LinkStep ==
    ASSUME IInv, NEW t \in Timers, NEW STATE w, NEW firstadd \in BOOLEAN,
           w \in [Slots -> SUBSET Timers],
           \A u \in Timers, s \in Slots : u \in w[s] <=> u \in live \ {t} /\ slot[u] = s,
           AddSlotTimer(w, t, firstadd),
           UNCHANGED << nowSlot, phase, pass >>,
           live' = live \cup {t}, done' = done \ {t}, done' = {} \/ phase = "update",
           count' \in [Timers -> Nat], pending' \subseteq Timers,
           first' = IF firstadd THEN first \cup {t} ELSE first \ {t}
    PROVE  IInv'
<1>1. TypeOK
  BY DEF IInv
<1>2. /\ slot' \in [Timers -> Slots] /\ rotation' \in [Timers -> Nat]
      /\ age' \in [Timers -> Nat] /\ wheel' \in [Slots -> SUBSET Timers]
      /\ \A u \in Timers, s \in Slots : u \in wheel'[s] <=> u \in live \cup {t} /\ slot'[u] = s
      /\ \A u \in Timers \ {t} : slot'[u] = slot[u] /\ rotation'[u] = rotation[u] /\ age'[u] = age[u]
      /\ age'[t] = 0
      /\ Ahead(nowSlot, slot'[t]) + Lowered(rotation'[t]) * MaxSlot
           = IF firstadd THEN 1 ELSE Effective(Ticks[t])
  BY <1>1, Linking
<1>3. TypeOK'
  BY <1>1, <1>2 DEF TypeOK
<1>4. LinkedIsLive'
  BY <1>2 DEF LinkedIsLive
<1>5. DoneIsLive'
  BY DEF IInv, DoneIsLive
<1>6. ExactSchedule'
  <2> SUFFICES ASSUME NEW u \in live' \ done'
               PROVE age'[u] + Remaining(u)' = IF u \in first' THEN 1 ELSE Effective(Ticks[u])
    BY DEF ExactSchedule
  <2>1. CASE u = t
    <3>1. Remaining(t)' = IF firstadd THEN 1 ELSE Effective(Ticks[t])
      BY <1>2 DEF Remaining, Distance, Ahead
    <3>2. Remaining(t)' \in Int
      <4>1. Effective(Ticks[t]) \in Int
        BY WheelAssumption, SMT DEF Effective
      <4> QED BY <3>1, <4>1
    <3>3. age'[t] + Remaining(t)' = Remaining(t)'
      BY <1>2, <3>2, SMT
    <3> QED BY <2>1, <3>1, <3>3
  <2>2. CASE u # t
    <3>1. u \in live \ done /\ u \in Timers
      BY <1>1, <2>2 DEF TypeOK
    <3>2. Remaining(u)' = Remaining(u)
      BY <1>2, <2>2, <3>1 DEF Remaining, Distance
    <3>3. age[u] + Remaining(u) = IF u \in first THEN 1 ELSE Effective(Ticks[u])
      BY <3>1 DEF IInv, ExactSchedule
    <3> QED BY <1>2, <2>2, <3>1, <3>2, <3>3
  <2> QED BY <2>1, <2>2
<1> QED BY <1>3, <1>4, <1>5, <1>6 DEF IInv

\* Without t the wheel links the other registered timers.
LEMMA Unlinked ==
    ASSUME IInv, NEW t \in Timers
    PROVE  /\ Unlink(wheel, t) \in [Slots -> SUBSET Timers]
           /\ \A u \in Timers, s \in Slots :
                 u \in Unlink(wheel, t)[s] <=> u \in live \ {t} /\ slot[u] = s
BY DEF IInv, TypeOK, LinkedIsLive, Unlink

\* A waiting registration takes effect.
LEMMA RunTimerRegisterStep ==
    ASSUME IInv, NEW t \in Timers, RunTimerRegister(t)
    PROVE  IInv'
<1> DEFINE w == IF t \in live THEN Unlink(wheel, t) ELSE wheel
<1>1. /\ w \in [Slots -> SUBSET Timers]
      /\ \A u \in Timers, s \in Slots : u \in w[s] <=> u \in live \ {t} /\ slot[u] = s
  BY Unlinked DEF IInv, TypeOK, LinkedIsLive
<1>2. /\ done' = {} /\ done' = done \ {t} /\ pending' \subseteq Timers
      /\ UNCHANGED << nowSlot, phase, pass >> /\ live' = live \cup {t}
      /\ first' = IF Kind[t] = "loop" THEN first \cup {t} ELSE first \ {t}
      /\ AddSlotTimer(w, t, Kind[t] = "loop")
  BY DEF RunTimerRegister, IInv, DoneIsLive, TypeOK
<1>3. count' \in [Timers -> Nat]
  BY WheelAssumption DEF RunTimerRegister, IInv, TypeOK
<1> HIDE DEF w
<1>4. CASE Kind[t] = "loop"
  <2>1. AddSlotTimer(w, t, TRUE) /\ first' = IF TRUE THEN first \cup {t} ELSE first \ {t}
    BY <1>2, <1>4 DEF AddSlotTimer
  <2> QED BY <1>1, <1>2, <1>3, <2>1, LinkStep
<1>5. CASE Kind[t] # "loop"
  <2>1. AddSlotTimer(w, t, FALSE) /\ first' = IF FALSE THEN first \cup {t} ELSE first \ {t}
    BY <1>2, <1>5 DEF AddSlotTimer
  <2> QED BY <1>1, <1>2, <1>3, <2>1, LinkStep
<1> QED BY <1>4, <1>5

\* The hand moves: everybody is a tick older and a tick nearer.
LEMMA RunSlotTimerStep ==
    ASSUME IInv, RunSlotTimer
    PROVE  IInv'
<1>1. nowSlot \in Slots /\ nowSlot' \in Slots
      /\ nowSlot' = IF nowSlot + 1 = MaxSlot THEN 0 ELSE nowSlot + 1
  BY NextSlot DEF IInv, TypeOK, RunSlotTimer
<1>2. /\ rotation' \in [Timers -> Nat]
      /\ \A u \in Timers : rotation'[u] = IF u \in wheel[nowSlot'] THEN Lowered(rotation[u]) ELSE rotation[u]
  BY SMT DEF IInv, TypeOK, RunSlotTimer, Lowered
<1>3. \A u \in Timers : u \in wheel[nowSlot'] <=> u \in live /\ slot[u] = nowSlot'
  BY <1>1 DEF IInv, LinkedIsLive
<1>4. \A u \in Timers : u \in live => Linked(u)
  BY DEF IInv, TypeOK, LinkedIsLive, Linked
<1>5. /\ age' \in [Timers -> Nat]
      /\ \A u \in live : age'[u] = age[u] + 1
  BY <1>4 DEF IInv, TypeOK, RunSlotTimer
<1>6. TypeOK'
  <2>1. done' \subseteq Timers
    BY <1>1 DEF IInv, TypeOK, RunSlotTimer
  <2>2. pass' \in 0 .. MaxPass
    BY WheelAssumption, SMT DEF IInv, TypeOK, RunSlotTimer
  <2> QED BY <1>1, <1>2, <1>5, <2>1, <2>2 DEF IInv, TypeOK, RunSlotTimer
<1>7. LinkedIsLive'
  BY DEF IInv, LinkedIsLive, RunSlotTimer
<1>8. DoneIsLive'
  BY <1>1, <1>3, <1>6 DEF IInv, DoneIsLive, RunSlotTimer, TypeOK
<1>9. ExactSchedule'
  <2> SUFFICES ASSUME NEW u \in live' \ done'
               PROVE age'[u] + Remaining(u)' = IF u \in first' THEN 1 ELSE Effective(Ticks[u])
    BY DEF ExactSchedule
  <2>1. u \in Timers /\ u \in live /\ u \notin done
    BY DEF IInv, TypeOK, RunSlotTimer
  <2>2. age[u] + Remaining(u) = IF u \in first THEN 1 ELSE Effective(Ticks[u])
    BY <2>1 DEF IInv, ExactSchedule
  <2>3. /\ slot[u] \in Nat /\ slot[u] < MaxSlot /\ nowSlot \in Nat /\ nowSlot < MaxSlot
        /\ rotation[u] \in Nat /\ rotation'[u] \in Nat /\ age[u] \in Nat /\ MaxSlot \in Nat \ {0}
        /\ slot'[u] = slot[u] /\ first' = first
    BY <1>1, <1>2, <2>1, WheelAssumption, SMT DEF IInv, TypeOK, Slots, RunSlotTimer
  <2>4. Remaining(u)' = Remaining(u) - 1
    <3>1. CASE slot[u] = nowSlot'
      <4>1. rotation'[u] = Lowered(rotation[u]) /\ rotation'[u] # 0
        BY <1>2, <1>3, <2>1, <3>1 DEF RunSlotTimer
      <4>2. rotation[u] - 1 = rotation'[u] /\ rotation'[u] - 1 \in Nat
        BY <2>3, <4>1, SMT DEF Lowered
      <4>3. Lowered(rotation[u]) = rotation'[u] /\ Lowered(rotation'[u]) = rotation'[u] - 1
        BY <2>3, <4>2, SMT DEF Lowered
      <4>4. Ahead(nowSlot, slot[u]) = 1 /\ Ahead(nowSlot', slot[u]) = MaxSlot
        BY <1>1, <2>3, <3>1, SMT DEF Ahead
      <4>5. (rotation'[u] - 1) * MaxSlot = rotation'[u] * MaxSlot - MaxSlot
        BY <2>3, SMT
      <4>6. rotation'[u] * MaxSlot \in Int
        BY <2>3, SMT
      <4>7. Remaining(u)' = MaxSlot + (rotation'[u] * MaxSlot - MaxSlot)
        BY <2>3, <4>3, <4>4, <4>5 DEF Remaining, Distance, Ahead
      <4>8. Remaining(u) = 1 + rotation'[u] * MaxSlot
        BY <4>3, <4>4 DEF Remaining, Distance, Ahead
      <4> QED BY <2>3, <4>6, <4>7, <4>8, SMT
    <3>2. CASE slot[u] # nowSlot'
      <4>1. rotation'[u] = rotation[u]
        BY <1>2, <1>3, <2>1, <3>2
      <4>2. Ahead(nowSlot', slot[u]) = Ahead(nowSlot, slot[u]) - 1 /\ Ahead(nowSlot, slot[u]) \in Int
        BY <1>1, <2>3, <3>2, SMT DEF Ahead
      <4>3. Lowered(rotation[u]) * MaxSlot \in Int
        BY <2>3, SMT DEF Lowered
      <4>4. Remaining(u) = Ahead(nowSlot, slot[u]) + Lowered(rotation[u]) * MaxSlot
        BY DEF Remaining, Distance, Ahead
      <4>5. Remaining(u)' = Ahead(nowSlot', slot[u]) + Lowered(rotation[u]) * MaxSlot
        BY <2>3, <4>1 DEF Remaining, Distance, Ahead
      <4> QED BY <4>2, <4>3, <4>4, <4>5, SMT
    <3> QED BY <3>1, <3>2
  <2>5. Remaining(u) \in Int
    BY <2>3, SMT DEF Remaining, Distance, Lowered
  <2>6. age'[u] + Remaining(u)' = age[u] + Remaining(u)
    BY <1>5, <2>1, <2>3, <2>4, <2>5, SMT
  <2> QED BY <2>2, <2>3, <2>6
<1> QED BY <1>6, <1>7, <1>8, <1>9 DEF IInv

\* A callback: the timer is linked anew, or it was its last.
LEMMA FireStep ==
    ASSUME IInv, NEW t \in Timers, Fire(t)
    PROVE  IInv'
<1>1. /\ t \in done /\ t \in live /\ phase = "update" /\ done' = done \ {t}
      /\ UNCHANGED << nowSlot, phase, pass >> /\ first' = first \ {t}
  BY DEF Fire, IInv, DoneIsLive
<1>2. pending' \subseteq Timers
  BY DEF Fire, Callback, IInv, TypeOK
<1>3. CASE FireAgain(t)
  <2>1. AddSlotTimer(Unlink(wheel, t), t, FALSE) /\ live' = live \cup {t}
    BY <1>1, <1>3 DEF FireAgain
  <2>2. count' \in [Timers -> Nat]
    BY <1>3, SMT DEF FireAgain, IInv, TypeOK
  <2>3. /\ Unlink(wheel, t) \in [Slots -> SUBSET Timers]
        /\ \A u \in Timers, s \in Slots :
              u \in Unlink(wheel, t)[s] <=> u \in live \ {t} /\ slot[u] = s
    BY Unlinked
  <2> QED BY <1>1, <1>2, <2>1, <2>2, <2>3, LinkStep
<1>4. CASE FireLast(t)
  <2>1. /\ wheel' = Unlink(wheel, t) /\ live' = live \ {t}
        /\ UNCHANGED << slot, rotation, age >> /\ count' = [count EXCEPT ![t] = 0]
    BY <1>4 DEF FireLast
  <2>2. TypeOK'
    BY <1>1, <1>2, <2>1, Unlinked DEF IInv, TypeOK
  <2>3. LinkedIsLive'
    BY <2>1, Unlinked DEF LinkedIsLive
  <2>4. DoneIsLive'
    BY <1>1, <2>1 DEF IInv, DoneIsLive
  <2>5. ExactSchedule'
    BY <1>1, <2>1 DEF IInv, TypeOK, ExactSchedule, Remaining, Distance
  <2> QED BY <2>2, <2>3, <2>4, <2>5 DEF IInv
<1> QED BY <1>3, <1>4 DEF Fire

\* One timer is removed.
LEMMA RemoveTimerStep ==
    ASSUME IInv, NEW key, RemoveTimer(key)
    PROVE  IInv'
<1>1. /\ wheel' \in [Slots -> SUBSET Timers]
      /\ \A u \in Timers, s \in Slots : u \in wheel'[s] <=> u \in wheel[s] /\ u \notin {key}
  <2>1. CASE key \in live
    <3>1. key \in Timers
      BY <2>1 DEF IInv, TypeOK
    <3> QED BY <2>1, <3>1, Unlinked DEF RemoveTimer, IInv, LinkedIsLive
  <2>2. CASE key \notin live
    BY <2>2 DEF RemoveTimer, IInv, TypeOK, LinkedIsLive
  <2> QED BY <2>1, <2>2
<1>2. pending' \subseteq Timers
  BY DEF RemoveTimer, Kept, IInv, TypeOK
<1> QED BY <1>1, <1>2, RemoveStep DEF RemoveTimer

\* The timers of a module are removed.
LEMMA RemoveModuleTimersStep ==
    ASSUME IInv, NEW m, RemoveModuleTimers(m)
    PROVE  IInv'
<1> DEFINE gone == {t \in live : t[1] = m}
<1>1. live' = live \ gone
  BY DEF RemoveModuleTimers
<1>2. /\ wheel' \in [Slots -> SUBSET Timers]
      /\ \A u \in Timers, s \in Slots : u \in wheel'[s] <=> u \in wheel[s] /\ u \notin gone
  BY DEF RemoveModuleTimers, IInv, TypeOK, LinkedIsLive
<1>3. pending' \subseteq Timers
  BY DEF RemoveModuleTimers, Kept, IInv, TypeOK
<1> HIDE DEF gone
<1> QED BY <1>1, <1>2, <1>3, RemoveStep DEF RemoveModuleTimers

\* The invariant is inductive.
LEMMA NextIInv == IInv /\ [Next]_vars => IInv'
<1> SUFFICES ASSUME IInv, [Next]_vars PROVE IInv'
  OBVIOUS
<1>0. TypeOK /\ DoneIsLive
  BY DEF IInv
<1>1. ASSUME NEW t \in Timers, Register(t) PROVE IInv'
  BY <1>0, <1>1, IdleStep DEF Register, timerVars, TypeOK, DoneIsLive
<1>2. CASE BeginFrame
  BY <1>0, <1>2, IdleStep DEF BeginFrame, timerVars, TypeOK, DoneIsLive
<1>3. ASSUME NEW n \in 0 .. MaxPass, RunTimerUpdate(n) PROVE IInv'
  BY <1>0, <1>3, IdleStep DEF RunTimerUpdate, timerVars, TypeOK, DoneIsLive
<1>4. CASE EndFrame
  BY <1>0, <1>4, IdleStep DEF EndFrame, timerVars, TypeOK, DoneIsLive
<1>5. CASE UNCHANGED vars
  BY <1>0, <1>5, IdleStep DEF vars, timerVars, TypeOK, DoneIsLive
<1>6. CASE RunFrame
  <2>1. 0 \in 0 .. MaxPass /\ 1 .. MaxPass \subseteq 0 .. MaxPass
    BY WheelAssumption, SMT
  <2> QED BY <1>2, <1>3, <1>4, <1>6, <2>1, RunTimerRegisterStep, RunSlotTimerStep, FireStep
          DEF RunFrame, TimePasses
<1>7. CASE Request
  BY <1>1, <1>7, RemoveTimerStep, RemoveModuleTimersStep DEF Request
<1> QED BY <1>5, <1>6, <1>7 DEF Next

-----------------------------------------------------------------------------
\* The wheel arithmetic of AddSlotTimer and RunSlotTimer, and their linked lists,
\* for every number of slots and every set of timers and intervals: the slots hold
\* the registered timers, each once, and each of them waits for as long as
\* Effective says.
THEOREM WheelIsSound == Spec => [](TypeOK /\ LinkedIsLive /\ ExactSchedule)
<1>1. IInv => TypeOK /\ LinkedIsLive /\ ExactSchedule
  BY DEF IInv
<1> QED BY <1>1, InitIInv, NextIInv, PTL DEF Spec

\* The slot numbers and rotations of the timers stay in range, for any wheel.
THEOREM WheelTypes == Spec => []TypeOK
BY WheelIsSound, PTL

\* RegisterTimerData and UnRegisterTimer keep the wheel and the list of timers
\* together: a linked timer is a live one, linked once, in the slot it remembers.
THEOREM LinkedAreLive == Spec => []LinkedIsLive
BY WheelIsSound, PTL

\* No timer waits for more than a turn of the wheel beyond its interval, and only
\* one longer than a turn is called before its interval has passed.
LEMMA EffectiveBounds ==
    \A k \in Nat : /\ k - MaxSlot <= Effective(k) /\ Effective(k) <= k + MaxSlot
                   /\ Effective(k) < k => k > MaxSlot
<1> TAKE k \in Nat
<1>1. MaxSlot \in Nat /\ MaxSlot > 0
  BY WheelAssumption
<1>2. CASE k = 0
  BY <1>1, <1>2, SMT DEF Effective
<1>3. CASE k # 0 /\ (k < MaxSlot \/ k % MaxSlot = 0)
  BY <1>1, <1>3, SMT DEF Effective
<1>4. CASE k # 0 /\ k >= MaxSlot /\ k % MaxSlot # 0
  <2>1. Effective(k) = k - MaxSlot
    BY <1>1, <1>4, SMT DEF Effective
  <2>2. k # MaxSlot
    BY <1>1, <1>4, SMT
  <2> QED BY <1>1, <1>4, <2>1, <2>2, SMT
<1> QED BY <1>1, <1>2, <1>3, <1>4, SMT
=============================================================================
