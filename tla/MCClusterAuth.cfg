SPECIFICATION Spec
CONSTANTS
    Clients <- TwoClients
    Proxies <- OneProxy
    Master = 4
    IdWidth = 8
    MaxTokens = 2
    MaxChannel = 2
    MaxFailures = 1
    MaxRepeats = 2
INVARIANTS
    TypeOK
    TokenOnce
    KeepsJoining
    
CHECK_DEADLOCK FALSE
