CONSTANTS
    AckLen = 2
    IvLen = 2
    PayloadLen = 2
    Ports = {1}
    MaxUploads = 2
SPECIFICATION FairSpec
INVARIANTS
    TunnelInv
    ClosedForCause
PROPERTIES
    CancelledEnds
    WaitsAreBounded
CHECK_DEADLOCK FALSE
