SPECIFICATION FairSpec
CONSTANTS
    Users = {u1, u2}
    NoUser = NoUser
    Catalogues = {c1}
    Addresses = {a1, a2}
    Wildcard = any
    NoBody = NoBody
    NoProof = NoProof
    Responses = {r1, r2}
    MaxGeneration = 2
INVARIANTS CacheInv ServedToItsAccount ProofIsExact
PROPERTIES SlotsAreReleased
