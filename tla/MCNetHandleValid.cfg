SPECIFICATION Spec
CONSTANTS
    MaxConns = 1
    MaxWriteErrors = 0
    Apps = {a1}
    AppOf <- OneApp
    None = None
INVARIANTS
    HandlesAreValid
CHECK_DEADLOCK FALSE
