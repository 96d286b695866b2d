CONSTANTS
    Requests = {r1, r2}
    MaxSessions = 1
    TTL = 2
    LoginLimit = 1
    LoginWindow = 1
    MaxTokens = 2
    MaxTime = 3
    StreamSlots = 1
    HubCapacity = 1
    Buffer = 1
SPECIFICATION FairSpec
INVARIANTS
    StreamsInv
    RevokedStaysRevoked
    EventsStayEntitled
PROPERTIES
    StreamsEnd
