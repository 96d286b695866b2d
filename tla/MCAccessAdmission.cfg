CONSTANTS
    Clients = {c1, c2, c3}
    Requests = {r1, r2}
    FailureLimit = 2
    Window = 2
    MaxTracked = 2
    MaxTime = 4
SPECIFICATION AccessSpec
SYMMETRY Symmetry
INVARIANTS
    AdmissionInv

