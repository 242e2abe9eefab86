CONSTANTS
    Proxies = {x, y}
    s1 = s1
    s2 = s2
    Shards = {s1, s2}
    Clients = {c}
    Objects = {o}
    ShardFor <- MCShardFor
    MaxWork = 3
    MaxFaults = 1
    None = None
    Stranger = Stranger
SPECIFICATION Spec
INVARIANTS
    TypeOK
    ShardsAgree
    RoutesAgree
    ClientsListed
SYMMETRY Symmetry
CHECK_DEADLOCK FALSE
