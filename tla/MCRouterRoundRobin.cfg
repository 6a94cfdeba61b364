CONSTANTS
    r1 = r1
    r2 = r2
    None = None
    Requests = {r1, r2}
    N = 2
    Weights <- MCEqualWeights
    Strategy = "round_robin"
    MaxBad = 2
    WindowSize = 1
    MinimumRequests = 1
    RatioNum = 1
    RatioDen = 1
    OpenTimeout = 1
    HalfOpenMaxRequests = 1
SPECIFICATION FairSpec
INVARIANTS TypeOK
PROPERTIES TurnedAwayHonestly AllRecover
