CONSTANTS
    r1 = r1
    r2 = r2
    None = None
    Requests = {r1, r2}
    N = 3
    Weights <- MCWeights
    Strategy = "weighted_round_robin"
    MaxBad = 2
    WindowSize = 1
    MinimumRequests = 1
    RatioNum = 1
    RatioDen = 1
    OpenTimeout = 1
    HalfOpenMaxRequests = 1
SPECIFICATION Spec
SYMMETRY RequestSymmetry
INVARIANTS WeightsSettle FairShare
