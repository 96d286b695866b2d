SPECIFICATION Spec
CONSTANTS
    Users = {u1, u2}
    Tokens = {t1}
    Keys = {k1, k2}
    Routes = {served, empty}
    EligibleRoutes = {served}
    NoUser = NoUser
    NoSessions = NoSessions
    NoSnapshot = NoSnapshot
    Lifetime = 1
    MaxTime = 1
    MaxGeneration = 2
    MaxLease = 3
    MaxRollbacks = 1
INVARIANTS SecretsOnlyWhenLive ServingHasAuthority ActiveOperationHasOwner
PROPERTIES GenerationsOnlyAdvance SecretsEnterByCommit
CHECK_DEADLOCK FALSE
