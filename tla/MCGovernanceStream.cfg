\* One stream is enough to see whose deadline ends it.
CONSTANTS
    WindowSize = 1
    MinimumRequests = 1
    RatioNum = 1
    RatioDen = 1
    OpenTimeout = 1
    HalfOpenMaxRequests = 1
    MaxConcurrent = 2
    MaxAttempts = 2
    Calls = {s1}
    Streams = {s1}
    UpstreamErrors <- MCUpstreamErrors
SPECIFICATION FairSpec
PROPERTY
    StreamLastsToDeadline
