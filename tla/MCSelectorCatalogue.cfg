SPECIFICATION Spec
CONSTANTS
    Users = {u1, u2}
    NoUser = NoUser
    Nodes <- MCNodes
    Grace = 2
    MaxTombstones = 2
    MaxTime = 3
    MaxGeneration = 2
INVARIANTS CatalogueInv
PROPERTIES TombstonesHold
