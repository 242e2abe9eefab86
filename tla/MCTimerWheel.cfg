SPECIFICATION FairSpec
CONSTANTS
    Timers <- MCTimers
    Kind <- MCKind
    Ticks <- MCTicks
    Count <- MCCount
    MaxSlot = 3
    MaxPass = 2
INVARIANTS
    TypeOK
    LinkedIsLive
    ExactSchedule
PROPERTIES
    EventuallyFires
