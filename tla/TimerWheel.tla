---------------------------- MODULE TimerWheel ----------------------------
(***************************************************************************)
(* KFPlugin/KFTimer/KFTimerModule.cpp: the timers of a service, kept in a  *)
(* wheel of slots that the main loop turns.  Everything runs on the main   *)
(* thread; what can interleave are the frames of the loop, the handlers    *)
(* that register and unregister timers between them, and the callbacks,    *)
(* which register timers while a slot is being run.                        *)
(*                                                                         *)
(* Time is counted in ticks of SlotTime.  A slot's linked list is the set  *)
(* of its timers: the order in which one slot's callbacks run is left      *)
(* open.  No callback of this repository removes a timer.  So is the set   *)
(* of registrations that wait: a key is always registered the same way,    *)
(* and a later registration of a key replaces an earlier one.              *)
(***************************************************************************)
EXTENDS Naturals

CONSTANTS
    Timers,      \* the keys of timers: pairs of module and object id
    Kind,        \* Timers -> "loop", "limit" or "delay": how each is registered
    Ticks,       \* Timers -> interval / SlotTime
    Count,       \* Timers -> how often a limit timer fires; a delay timer fires once
    MaxSlot,     \* TimerEnum::MaxSlot
    MaxPass      \* bound: ticks one frame may be late

ASSUME WheelAssumption ==
    /\ \A t \in Timers : DOMAIN t = 1 .. 2 /\ t[2] \in Nat
    /\ Kind \in [Timers -> {"loop", "limit", "delay"}]
    /\ Ticks \in [Timers -> Nat]
    /\ Count \in [Timers -> Nat \ {0}]
    /\ MaxSlot \in Nat \ {0}
    /\ MaxPass \in Nat

VARIABLES
    nowSlot,    \* _now_slot
    wheel,      \* _slot_timer_data: slot -> the timers linked there
    live,       \* keys of _kf_timer_data
    slot,       \* KFTimerData::_slot
    rotation,   \* KFTimerData::_rotation
    count,      \* KFTimerData::_count
    pending,    \* keys in _register_timer_data
    phase,      \* where the main loop is
    pass,       \* slots RunTimerUpdate has yet to run
    done,       \* _done_data of the slot being run
    age,        \* history: ticks since the timer was put into the wheel
    first       \* history: loop timers that have not fired yet

timerVars == << live, slot, rotation, count >>
vars == << nowSlot, wheel, timerVars, pending, phase, pass, done, age, first >>

Slots == 0 .. MaxSlot - 1

Init ==
    /\ nowSlot = 0
    /\ wheel = [s \in Slots |-> {}]
    /\ live = {}
    /\ slot = [t \in Timers |-> 0]
    /\ rotation = [t \in Timers |-> 0]
    /\ count = [t \in Timers |-> 0]
    /\ pending = {}
    /\ phase = "idle" /\ pass = 0 /\ done = {}
    /\ age = [t \in Timers |-> 0]
    /\ first = {}

-----------------------------------------------------------------------------
(* The wheel *)

Linked(t) == \E s \in Slots : t \in wheel[s]

\* RemoveSlotTimer, on a wheel: unlink the timer from the slot it remembers.
Unlink(w, t) == [w EXCEPT ![slot[t]] = @ \ {t}]

\* Variant with a bug: the slot is not wrapped.
LinkAtUnwrapped(w, t, rot, ticks) ==
    /\ slot' = [slot EXCEPT ![t] = nowSlot + (ticks % MaxSlot)]
    /\ rotation' = [rotation EXCEPT ![t] = rot]
    /\ wheel' = [s \in Slots |-> IF s = slot'[t] THEN w[s] \cup {t} ELSE w[s]]
    /\ age' = [age EXCEPT ![t] = 0]

\* AddSlotTimer, on a wheel: rot turns of it and ticks slots ahead.
LinkAt(w, t, rot, ticks) ==
    /\ slot' = [slot EXCEPT ![t] = ((ticks % MaxSlot) + nowSlot) % MaxSlot]
    /\ rotation' = [rotation EXCEPT ![t] = rot]
    /\ wheel' = [s \in Slots |-> IF s = slot'[t] THEN w[s] \cup {t} ELSE w[s]]
    /\ age' = [age EXCEPT ![t] = 0]

\* Variant with a bug: a rotation too many.
AddSlotTimerLate(w, t, firstadd) ==
    IF firstadd THEN LinkAt(w, t, 0, 1)
    ELSE LinkAt(w, t, 1 + Ticks[t] \div MaxSlot, Ticks[t])

AddSlotTimer(w, t, firstadd) ==
    IF firstadd THEN LinkAt(w, t, 0, 1)
    ELSE LinkAt(w, t, Ticks[t] \div MaxSlot, Ticks[t])

-----------------------------------------------------------------------------
(* Handlers that run between the frames of the timer module *)

\* AddLoopTimer, AddLimitTimer and AddDelayTimer: the timer waits for the next
\* frame.  A delay timer that exists is not registered again.
Accepts(t) == Kind[t] = "delay" => t \notin live

Register(t) ==
    /\ phase = "idle"
    /\ Accepts(t)
    /\ pending' = pending \cup {t}
    /\ UNCHANGED << nowSlot, wheel, timerVars, phase, pass, done, age, first >>

Modules == {t[1] : t \in Timers}

\* What RemoveRegisterData leaves: object id 0 stands for every object of the module.
Kept(key) == {u \in pending : u[1] # key[1] \/ key[2] \notin {0, u[2]}}

\* Variant with a bug: the timer is destroyed but stays linked.
RemoveTimerKeepsLink(key) ==
    /\ phase = "idle"
    /\ pending' = Kept(key)
    /\ live' = live \ {key}
    /\ UNCHANGED << nowSlot, wheel, slot, rotation, count, phase, pass, done, age, first >>

\* RemoveTimer of one object: RemoveRegisterData, then RemoveTimerData.
RemoveTimer(key) ==
    /\ phase = "idle"
    /\ pending' = Kept(key)
    /\ live' = live \ {key}
    /\ wheel' = IF key \in live THEN Unlink(wheel, key) ELSE wheel
    /\ UNCHANGED << nowSlot, slot, rotation, count, phase, pass, done, age, first >>

\* RemoveTimer of a module.
RemoveModuleTimers(m) ==
    /\ phase = "idle"
    /\ pending' = Kept(<< m, 0 >>)
    /\ live' = {t \in live : t[1] # m}
    /\ wheel' = [s \in Slots |-> {t \in wheel[s] : t[1] # m}]
    /\ UNCHANGED << nowSlot, slot, rotation, count, phase, pass, done, age, first >>

-----------------------------------------------------------------------------
(* A frame: RunTimerRegister, then RunTimerUpdate *)

BeginFrame ==
    /\ phase = "idle"
    /\ phase' = "register"
    /\ UNCHANGED << nowSlot, wheel, timerVars, pending, pass, done, age, first >>

\* RunTimerRegister takes one waiting timer: an older one of the same key is
\* removed first.  A loop timer fires at the very next slot.
RunTimerRegister(t) ==
    /\ phase = "register" /\ t \in pending
    /\ AddSlotTimer(IF t \in live THEN Unlink(wheel, t) ELSE wheel, t, Kind[t] = "loop")
    /\ live' = live \cup {t}
    /\ count' = [count EXCEPT ![t] = Count[t]]
    /\ first' = IF Kind[t] = "loop" THEN first \cup {t} ELSE first \ {t}
    /\ pending' = pending \ {t}
    /\ UNCHANGED << nowSlot, phase, pass, done >>

\* RunTimerUpdate: n slots have passed since the last frame that ran any.
RunTimerUpdate(n) ==
    /\ phase = "register" /\ pending = {}
    /\ phase' = "update"
    /\ pass' = n
    /\ UNCHANGED << nowSlot, wheel, timerVars, pending, done, age, first >>

Lowered(n) == IF n > 0 THEN n - 1 ELSE 0

\* RunSlotTimer, first half: turn the wheel, lower the rotations of the timers
\* linked there, collect those that have none left.
RunSlotTimer ==
    /\ phase = "update" /\ pass > 0 /\ done = {}
    /\ pass' = pass - 1
    /\ nowSlot' = (nowSlot + 1) % MaxSlot
    /\ rotation' = [t \in Timers |-> IF t \in wheel[nowSlot'] THEN Lowered(rotation[t]) ELSE rotation[t]]
    /\ done' = {t \in wheel[nowSlot'] : rotation'[t] = 0}
    /\ age' = [t \in Timers |-> IF Linked(t) THEN age[t] + 1 ELSE age[t]]
    /\ UNCHANGED << wheel, live, slot, count, pending, phase, first >>

\* What a callback may do to the timers: register one, or nothing.
Callback ==
    \/ UNCHANGED pending
    \/ \E u \in Timers : Accepts(u) /\ pending' = pending \cup {u}

\* Variant with a bug: a loop timer is not put back.
FireAgainForgets(t) ==
    /\ Kind[t] = "loop" \/ count[t] > 1
    /\ wheel' = Unlink(wheel, t)
    /\ count' = [count EXCEPT ![t] = Lowered(@)]
    /\ UNCHANGED << live, slot, rotation, age >>

\* A timer that goes on: unlinked, called, linked again an interval ahead.
FireAgain(t) ==
    /\ Kind[t] = "loop" \/ count[t] > 1
    /\ AddSlotTimer(Unlink(wheel, t), t, FALSE)
    /\ count' = [count EXCEPT ![t] = IF Kind[t] = "loop" THEN @ ELSE @ - 1]
    /\ UNCHANGED live

\* The last shot of a limit or delay timer: unlinked, called, destroyed.
FireLast(t) ==
    /\ Kind[t] # "loop" /\ count[t] = 1
    /\ wheel' = Unlink(wheel, t)
    /\ live' = live \ {t}
    /\ count' = [count EXCEPT ![t] = 0]
    /\ UNCHANGED << slot, rotation, age >>

\* RunSlotTimer, second half: one callback after the other.
Fire(t) ==
    /\ t \in done
    /\ done' = done \ {t}
    /\ Callback
    /\ FireAgain(t) \/ FireLast(t)
    /\ first' = first \ {t}
    /\ UNCHANGED << nowSlot, phase, pass >>

EndFrame ==
    /\ phase = "update" /\ pass = 0 /\ done = {}
    /\ phase' = "idle"
    /\ UNCHANGED << nowSlot, wheel, timerVars, pending, pass, done, age, first >>

-----------------------------------------------------------------------------
TimePasses == \E n \in 1 .. MaxPass : RunTimerUpdate(n)

RunFrame ==
    \/ BeginFrame \/ RunTimerUpdate(0) \/ TimePasses \/ RunSlotTimer \/ EndFrame
    \/ \E t \in Timers : RunTimerRegister(t) \/ Fire(t)

\* What the modules ask for.  KFClusterClient removes the timer of proxy 0 when it
\* has none.
Request ==
    \/ \E t \in Timers : Register(t) \/ RemoveTimer(t)
    \/ \E m \in Modules : RemoveTimer(<< m, 0 >>) \/ RemoveModuleTimers(m)

Next == RunFrame \/ Request

Spec == Init /\ [][Next]_vars

\* The main loop calls Run() over and over, and its clock advances.
FairSpec == Spec /\ WF_vars(RunFrame) /\ SF_vars(TimePasses)

-----------------------------------------------------------------------------
(* Properties *)

\* After how many ticks the code fires a timer of that many ticks: a rotation is
\* lowered the first time the hand reaches the slot, so an interval of a full
\* turn or more that is no multiple of it fires a turn early, and one shorter
\* than a slot waits a whole turn.
Effective(ticks) ==
    IF ticks = 0 THEN MaxSlot
    ELSE IF ticks < MaxSlot \/ ticks % MaxSlot = 0 THEN ticks
    ELSE ticks - MaxSlot

\* Ticks until the hand fires a linked timer.
Distance(t) == IF slot[t] > nowSlot THEN slot[t] - nowSlot ELSE MaxSlot + slot[t] - nowSlot
Remaining(t) == Distance(t) + Lowered(rotation[t]) * MaxSlot

\* Slots, rotations and counts are in range.
TypeOK ==
    /\ nowSlot \in Slots
    /\ wheel \in [Slots -> SUBSET Timers]
    /\ UNION {live, pending, done, first} \subseteq Timers
    /\ slot \in [Timers -> Slots]
    /\ rotation \in [Timers -> Nat] /\ count \in [Timers -> Nat] /\ age \in [Timers -> Nat]
    /\ phase \in {"idle", "register", "update"} /\ pass \in 0 .. MaxPass

\* A registered timer is linked in the slot it remembers and nowhere else, and
\* nothing else is linked: no timer is lost by the module or called after it was
\* destroyed, whatever its callbacks and the handlers register meanwhile.
LinkedIsLive ==
    \A t \in Timers, s \in Slots : t \in wheel[s] <=> t \in live /\ slot[t] = s

\* A timer waits exactly as long as Effective says, whatever the wheel's position
\* when it was registered, and however many slots a late frame runs at once.
ExactSchedule ==
    \A t \in live \ done :
        age[t] + Remaining(t) = IF t \in first THEN 1 ELSE Effective(Ticks[t])

\* A registered timer is fired in the end, unless it is removed or registered anew.
EventuallyFires ==
    \A t \in Timers :
        t \in live ~> t \in done \/ t \notin live \/ t \in pending

\* A timer fires no sooner than its interval after it was set, its first shot as a
\* loop timer excepted ("注册延迟定时器( 一定时间内只执行一次 )", KFTimerInterface.h).
NotEarly == \A t \in done \ first : age[t] >= Ticks[t]
=============================================================================
