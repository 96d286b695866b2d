SPECIFICATION FlowSpec
CONSTANTS
    Users = {u1, u2}
    Tokens = {1, 2, 3}
    Keys = {1, 2}
    Nodes = {n1}
    NoUser = NoUser
    NoSessions = NoSessions
    NoSnapshot = NoSnapshot
    Lifetime = 1
    MaxTime = 1
    MaxGeneration = 2
    MaxLease = 3
    MaxInstalls = 2
    ProbeSlots = 1
    Flows = {f1}
SYMMETRY Symmetry
INVARIANTS FlowInv DurableInv AdmissionFollowsInvalidation CredentialsStayWithAccount
PROPERTIES ImplementsAuthority
CHECK_DEADLOCK FALSE
