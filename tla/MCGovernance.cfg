\* A stream and two chats compete for two slots; one failure trips the breaker.
CONSTANTS
    WindowSize = 1
    MinimumRequests = 1
    RatioNum = 1
    RatioDen = 1
    OpenTimeout = 1
    HalfOpenMaxRequests = 1
    MaxConcurrent = 2
    MaxAttempts = 2
    Calls = {s1, k1, k2}
    Streams = {s1}
    UpstreamErrors <- MCUpstreamErrors
SPECIFICATION FairSpec
INVARIANTS
    TypeOK
    SlotsBalanced
    ProbesBalanced
PROPERTIES
    CancelNotBlamed
    CallsEnd
