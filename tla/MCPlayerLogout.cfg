CONSTANTS
    Gates = {A}
    g1 = g1
    g2 = g2
    Games = {g1}
    GameFor <- MCGameFor
    MaxSessions = 2
    MaxFaults = 0
    Late = {}
    None = None
    Stranger = Stranger
SPECIFICATION Spec
INVARIANT LogoutLeaves
CHECK_DEADLOCK FALSE
