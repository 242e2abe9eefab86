SPECIFICATION FairSpec
CONSTANTS
    Objects = {o1, o2}
    Null = null
    MaxCount = 3
INVARIANTS
    TypeOK
    NoOverwrite
PROPERTIES
    IsFifo
    HeadMoves
