CONSTANTS
    Conns = {c1, c2, c3}
    MaxConnections = 2
SPECIFICATION ServerFairSpec
INVARIANTS
    ServerInv
    SlotsAccounted
PROPERTIES
    ImplementsContract
    ShutdownCompletes
CHECK_DEADLOCK FALSE
