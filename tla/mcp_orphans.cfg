SPECIFICATION Spec
CONSTANTS
    c1 = c1
    c2 = c2
    Calls <- MCCalls
    User = User
    Conns <- MCConns
    None = None
    Static = Static
    MaxErrors = 2
    MaxRetries = 1
INVARIANTS
    NoOrphan
CHECK_DEADLOCK FALSE
