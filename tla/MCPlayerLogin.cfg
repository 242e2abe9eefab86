CONSTANTS
    Gates = {A, B}
    g1 = g1
    g2 = g2
    Games = {g1, g2}
    GameFor <- MCGameFor
    MaxSessions = 2
    MaxFaults = 1
    Late = {g1}
    None = None
    Stranger = Stranger
SPECIFICATION Spec
SYMMETRY Alike
INVARIANTS
    TypeOK
    RoleIsBound
    RoleIsEntity
    OnlineIsEntity
    AnsweredAtRest
CHECK_DEADLOCK FALSE
