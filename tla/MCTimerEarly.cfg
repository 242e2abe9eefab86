SPECIFICATION Spec
CONSTANTS
    Timers <- OneTimer
    Kind <- OneKind
    Ticks <- OneTicks
    Count <- OneCount
    MaxSlot = 3
    MaxPass = 1
INVARIANTS
    NotEarly
