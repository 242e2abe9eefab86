CONSTANTS
    s1 = s1
    s2 = s2
    Shards = {s1, s2}
    Players = {1, 2, 6}
    Wrap = 4
    MaxSaves = 4
    MaxStops = 1
    None = None
SPECIFICATION Spec
INVARIANTS
    TypeOK
    SaveIsKept
PROPERTY NeverGoesBack
SYMMETRY Symmetry
CHECK_DEADLOCK FALSE
