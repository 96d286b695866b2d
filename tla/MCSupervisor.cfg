CONSTANTS
    MaxRequests = 1
    MaxStreams = 1
    Threshold = 1
SPECIFICATION FairSpec
INVARIANTS
    SupervisorInv
PROPERTIES
    SignalStops
    FailureOutlivesSignal
    StreamsReleaseShutdown
CHECK_DEADLOCK FALSE
