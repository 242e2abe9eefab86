SPECIFICATION FairSpec
CONSTANTS
    Children <- SplitSingleHuge
    QueueSize = 4
    BatchSize = 2
    MaxBreaks = 1
INVARIANTS
    TypeOK
    OriginalUnlessOverflow
    InOrder
PROPERTIES
    QueueDrains
    CompleteIsTaken
CHECK_DEADLOCK FALSE
