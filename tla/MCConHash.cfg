SPECIFICATION HashSpec
CONSTANTS
    Nodes <- ThreeNodes
    KeysOf <- TwoKeys
    Data <- SomeData
    HashOf <- DataHash
    NoNode = 0
INVARIANTS
    HashTypeOK
    CacheIsFresh
    RingIsNodes
PROPERTIES
    MovesLittle
