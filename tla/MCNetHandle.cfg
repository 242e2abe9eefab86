SPECIFICATION FairSpec
CONSTANTS
    MaxConns = 2
    MaxWriteErrors = 1
    Apps = {a1}
    AppOf <- OneApp
    None = None
INVARIANTS
    TypeOK
    ValidUnlessLate
    EventHitsOwnHandle
    ClosedOnce
    UpperIsBacked
PROPERTIES
    BrokenIsFreed
