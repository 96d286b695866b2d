CONSTANTS
    Users = {u1, u2}
    Attempts = 2
    MaxTokens = 4
    None = None
    Aggregates <- AllAggregates
SPECIFICATION FairSpec
INVARIANTS
    ProviderInv
    CommittedTokensAreCurrent
PROPERTIES
    OperationEnds
